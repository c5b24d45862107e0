------------------------------- MODULE Media -------------------------------
(***************************************************************************)
(* The media subgraph (media/subgraph.py): what may become of an attachment *)
(* before the agent sees it.  Downloads and the models that transcribe and  *)
(* describe are external; they may fail or give an empty text.              *)
(*                                                                         *)
(* The module has no variables; module ConversationGraph applies it in the  *)
(* media_understanding node.  An attachment is what a job says of it: its   *)
(* type, the class of its content_type and whether it has a url.  m is the  *)
(* subgraph's configuration.                                                *)
(***************************************************************************)

MediaSettings == [key: BOOLEAN, audio: BOOLEAN, vision: BOOLEAN, documents: BOOLEAN]

AttachmentDict ==
  [type: {"audio", "image", "file", "other"},
   mime: {"audio", "image", "pdf", "plain", "office", "other"},
   url: BOOLEAN]

\* The class of the MIME types in SUPPORTED_TEXT_MIME_TYPES.
TextMime == {"pdf", "plain", "office"}

MediaStatus == {"complete", "partial", "unsupported", "failed"}

\* A MediaContext: its status, and whether it has a text or a description.
Context(s, t) == [status |-> s, text |-> t]

Unsupported == Context("unsupported", FALSE)
Failed == Context("failed", FALSE)

\* A model answers with a text or with an empty one.
Answered == {Context("complete", TRUE), Context("complete", FALSE)}

\* Download and transcription; an exception of either fails the attachment.
ProcessAudio(m) ==
  IF ~m.audio THEN {Unsupported}
  ELSE IF ~m.key THEN {Context("partial", FALSE)} ELSE Answered \cup {Failed}

ProcessImage(m) ==
  IF ~m.vision THEN {Unsupported}
  ELSE IF ~m.key THEN {Context("partial", FALSE)} ELSE Answered \cup {Failed}

\* A scanned PDF goes to the vision model, whose failure is not an exception.
PdfVisionFallback(m) ==
  {Context("partial", FALSE)} \cup (IF m.key THEN Answered ELSE {})

ExtractPdf(m) == {Context("complete", TRUE)} \cup PdfVisionFallback(m)

\* Office formats are downloaded, and answered by a fixed text.
ProcessDocument(m, a) ==
  IF ~m.documents \/ a.mime \notin TextMime THEN {Unsupported}
  ELSE {Failed} \cup CASE a.mime = "plain" -> Answered
                       [] a.mime = "pdf" -> ExtractPdf(m)
                       [] a.mime = "office" -> {Context("partial", TRUE)}

ProcessByType(m, a) ==
  IF a.type = "audio" \/ a.mime = "audio" THEN ProcessAudio(m)
  ELSE IF a.type = "image" \/ a.mime = "image" THEN ProcessImage(m)
  ELSE IF a.type = "file" \/ a.mime \in TextMime THEN ProcessDocument(m, a)
  ELSE {Unsupported}

ProcessFromDict(m, a) == IF a.url THEN ProcessByType(m, a) ELSE {Failed}

\* The contexts that _build_media_section writes into the prompt.
InPrompt(c) == c.status \in {"complete", "partial"} /\ c.text

=============================================================================
