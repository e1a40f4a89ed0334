---------------------------- MODULE MCChannels -----------------------------
(* Instance of Channels: a page that subscribes twice and is loaded anew,  *)
(* and a worker that stops under the second page.                          *)
EXTENDS Channels

MCListens == <<2, 1>>

MCRestarts == <<0, 1>>
=============================================================================
