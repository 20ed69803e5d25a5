------------------------------ MODULE MCSession ------------------------------
(* Every kind of device; configurations with a line that mentions a command of
   the agent, one that ends in #, ones with a line like a prompt, and a refusal *)
EXTENDS Session
MCOutputs == {<<"config">>, <<"config", "mention", "config">>, <<"config", "marked">>,
              <<"config", "like", "config">>, <<"passLike", "like">>, <<"text">>}
=============================================================================
