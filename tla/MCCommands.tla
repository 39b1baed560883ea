----------------------------- MODULE MCCommands -----------------------------
(* A TLC instance of Commands: the commands that keep state, with aliases  *)
(* as in the README and one that two commands claim, and what users type.  *)
EXTENDS Commands

Typed == {"radio", "url", "playlist", "pl", "rbquery", "rbplay", "rb", "kill", "k", "x"}

Beginnings == {<<w, w>> : w \in Typed}
              \cup {<<"pl", "playlist">>, <<"k", "kill">>,
                    <<"rb", "rbquery">>, <<"rb", "rbplay">>}

Registered == <<
  [command |-> "play_radio",    aliases |-> {"radio"},          adminOnly |-> FALSE],
  [command |-> "play_url",      aliases |-> {"url"},            adminOnly |-> FALSE],
  [command |-> "play_playlist", aliases |-> {"playlist", "x"},  adminOnly |-> FALSE],
  [command |-> "rb_query",      aliases |-> {"rbquery"},        adminOnly |-> FALSE],
  [command |-> "rb_play",       aliases |-> {"rbplay", "x"},    adminOnly |-> FALSE],
  [command |-> "kill",          aliases |-> {"kill"},           adminOnly |-> TRUE]>>
=============================================================================
