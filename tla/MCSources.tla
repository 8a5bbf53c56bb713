------------------------------ MODULE MCSources ------------------------------
(***************************************************************************)
(* A small instance: an album of two and a single message for up to two     *)
(* listeners; two messages of QQ in up to four events; two of Weixin.       *)
(***************************************************************************)
EXTENDS SourceProperties

MCAlbumOf == [p \in TgMessages |-> IF p = 2 THEN "none" ELSE "album"]
=============================================================================
