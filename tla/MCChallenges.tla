------------------------------ MODULE MCChallenges ------------------------------
(* A small instance of Challenges: the requests that arrive in a behaviour. *)
EXTENDS Challenges

\* A day that is opened and closed, once or badly, and its rewards; the next day; a user who
\* comes late; trades and the end of a day beside the ticker.
ShortPlans ==
  {<<"open", "close", "claim", "claim">>, <<"open", "close", "close", "claim">>,
   <<"add", "setday", "open", "close">>, <<"open", "verify", "close">>,
   <<"open", "trade", "close">>, <<"EndOfDay", "EndOfDay">>, <<"trade", "trade">>}
=============================================================================
