----------------------------- MODULE MCExchange -----------------------------
(***************************************************************************)
(* The scripts of two commands that matter: a once and a recurring query     *)
(* that race, a recurring query with the Delete that cancels it, two others. *)
(***************************************************************************)
EXTENDS Exchange

MCScripts == {<<"once", "recurring">>, <<"recurring", "delete">>,
              <<"create", "create">>}

\* A single recurring query.
OneQuery == {<<"recurring">>}
=============================================================================
