------------------------------ MODULE MCDelivery -----------------------------
(***************************************************************************)
(* A small instance: one delivery to QQ at a time beside the requests of the *)
(* gateway; two accounts in one Telegram chat.                              *)
(***************************************************************************)
EXTENDS DeliveryProperties

QQ(scene, text, media, link) == [scene |-> scene, text |-> text, media |-> media, link |-> link]
MCQQJobs ==
  {QQ("group", TRUE, <<"file">>, TRUE), QQ("channel", FALSE, <<"file", "image">>, FALSE)}

Tg(via, text, more) == [via |-> via, text |-> text, more |-> more]
MCTgJobs == {Tg("default", "t", 1), Tg("bot", "t", 0)}
MCWriters == {<<"a", "t">>, <<"person", "t">>}
=============================================================================
