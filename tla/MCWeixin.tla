------------------------------ MODULE MCWeixin -------------------------------
(* Instances of the parked messages for TLC.                               *)
EXTENDS WeixinProperties

CONSTANTS ann, bob

\* Text with a picture, one chunk, two chunks, for one contact.
ToOne == <<ann, ann, ann>>
Mixed == <<<<"text", "upload", "media">>, <<"text">>, <<"text", "text">>>>
\* Two contacts take turns in flushing.
ToTwo == <<ann, bob, ann>>
Short == <<<<"text">>, <<"text">>>>
ShortTo == <<ann, ann>>
=============================================================================
