------------------------------ MODULE Captions -------------------------------
(***************************************************************************)
(* The caption of a video, buildCaption of handlers/ytdlp.go: pieces of    *)
(* HTML that are written as long as there is room, the description cut to  *)
(* what is left of it.  A piece is its length in bytes.                    *)
(***************************************************************************)
EXTENDS Integers, Sequences

CONSTANTS
  CaptionRoom,             \* 1000
  HeadLengths,             \* of title, uploader and user with their tags
  DescriptionLengths,
  PrefixLength, SuffixLength    \* of the tags of the quotation

ASSUME CaptionAssumption ==
  /\ CaptionRoom \in Nat /\ PrefixLength \in Nat /\ SuffixLength \in Nat
  /\ HeadLengths \subseteq Nat /\ DescriptionLengths \subseteq Nat

VARIABLE captionJob

NoCaption == [head |-> <<0, 0, 0>>, description |-> 0, runes |-> 0]

CaptionInit == captionJob = NoCaption
CaptionNext ==
  /\ captionJob = NoCaption
  /\ \E title, uploader, user \in HeadLengths, d \in DescriptionLengths, r \in 1 .. 3 :
       captionJob' = [head |-> <<title, uploader, user>>, description |-> d * r, runes |-> r]
CaptionSpec == CaptionInit /\ [][CaptionNext]_captionJob
-----------------------------------------------------------------------------
Caption(length, kinds) == [length |-> length, kinds |-> kinds]

\* Fault: the tag that closes the quotation is not thought of.
RemainOfAll(length) == CaptionRoom - length

Remain(length) == CaptionRoom - length - SuffixLength

\* minUtf8Safe: as much of n bytes as fits and ends a rune; runes have size bytes.
minUtf8Safe(n, limit, size) == IF n <= limit THEN n ELSE limit - (limit % size)

\* A piece is written whole or not at all.
write(caption, kind, n) ==
  IF caption.length + n > CaptionRoom THEN caption
  ELSE Caption(caption.length + n, Append(caption.kinds, kind))

\* The first piece without room ends the caption.
Head3(head) ==
  LET part[k \in 0 .. 3] ==
        IF k = 0 THEN Caption(0, <<>>)
        ELSE IF Len(part[k - 1].kinds) < k - 1 THEN part[k - 1]
        ELSE write(part[k - 1], "head", head[k])
  IN  part[3]

Quoted(caption, description, size) ==
  LET opened == write(caption, "open", PrefixLength)
      remain == Remain(opened.length)
      told   == IF remain > 0 THEN write(opened, "text", minUtf8Safe(description, remain, size))
                ELSE opened
  IN  IF opened = caption THEN caption ELSE write(told, "close", SuffixLength)

buildCaption(job) ==
  LET caption == Head3(job.head)
  IN  IF Len(caption.kinds) < 3 \/ job.description = 0 THEN caption
      ELSE Quoted(caption, job.description, job.runes)
-----------------------------------------------------------------------------
\* A caption has at most 1000 bytes, and the quotation in it is closed, unless the tag that
\* opens it has used up the room for the other; then Telegram refuses the video
\* (buildCaption).
CaptionCloses ==
  LET caption == buildCaption(captionJob)
      quoted == \E i \in DOMAIN caption.kinds : caption.kinds[i] = "open"
      before == captionJob.head[1] + captionJob.head[2] + captionJob.head[3]
  IN  /\ caption.length <= CaptionRoom
      /\ quoted /\ before + PrefixLength + SuffixLength <= CaptionRoom =>
           caption.kinds[Len(caption.kinds)] = "close"
=============================================================================
