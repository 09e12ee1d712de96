------------------------------- MODULE MCNet -------------------------------
(* Two requests over two connections and a pool of one; PEM files of up to  *)
(* three objects, good and bad, in an order that matters.                   *)
EXTENDS Net

MCPemFiles ==
  {<<>>, <<"cert">>, <<"badcert">>, <<"key">>, <<"broken">>, <<"endless">>,
   <<"cert", "cert">>, <<"cert", "badcert">>, <<"cert", "broken">>, <<"broken", "cert">>,
   <<"cert", "endless">>, <<"cert", "badkey">>, <<"key", "key">>, <<"key", "broken">>,
   <<"broken", "key">>, <<"other", "key">>, <<"broken", "cert", "cert">>, <<"cert", "cert", "cert">>}
=============================================================================
