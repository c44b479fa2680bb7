------------------------------ MODULE MCEditor ------------------------------
(* A small instance of Editor: two commands, one of which takes arguments. *)
EXTENDS Editor

MCCommands == << <<"m">>, <<"m", "m">> >>
MCArgs == [n \in {<<"m">>} |-> << <<"m">>, <<"m", "m">> >>]
MCLevels == << <<"m", "m">> >>
MCLines == {<<"m">>, <<"s">>, <<"n">>}
=============================================================================
