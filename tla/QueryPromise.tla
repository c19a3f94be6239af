---------------------------- MODULE QueryPromise ----------------------------
(***************************************************************************)
(* What a data question may be answered with, whoever answers it: rows     *)
(* come from one reading of tables the request has looked up and that are  *)
(* still there, "missing" is said only of a table that was looked up and   *)
(* is gone or, by mistake ("called_missing"), of tables that are there but *)
(* refuse the query, and once the database could not be reached the        *)
(* request has failed and claims nothing about the data.  Text2Sql         *)
(* implements it.                                                          *)
(***************************************************************************)

CONSTANT Tables   \* tables that may exist

VARIABLES
  tables,       \* tables the database has
  known,        \* tables the request has looked up
  used,         \* tables the answer was read from
  unreachable,  \* the database could not be reached
  told          \* what the request was answered with

vars == <<tables, known, used, unreachable, told>>

Init ==
  /\ tables \subseteq Tables
  /\ known = {}
  /\ used = {}
  /\ unreachable = FALSE
  /\ told = "pending"

\* Tables are loaded and dropped while requests run.
Change ==
  /\ tables' \in SUBSET Tables
  /\ UNCHANGED <<known, used, unreachable, told>>

LookUp ==
  /\ told = "pending"
  /\ \E T \in SUBSET tables : known' = known \cup T
  /\ UNCHANGED <<tables, used, unreachable, told>>

Read ==
  /\ told = "pending"
  /\ used' \in (SUBSET (known \cap tables)) \ {{}}
  /\ told' \in {"rows", "no_rows", "failed"}
  /\ UNCHANGED <<tables, known, unreachable>>

FindMissing ==
  /\ told = "pending"
  /\ ~ known \subseteq tables
  /\ told' = "missing"
  /\ UNCHANGED <<tables, known, used, unreachable>>

\* The query asks for something else that does not exist: a column, a function.
Refuse ==
  /\ told = "pending"
  /\ known # {}
  /\ told' = "called_missing"
  /\ UNCHANGED <<tables, known, used, unreachable>>

\* The request asks back or says what it cannot answer, or it gives up.
Decline ==
  /\ told = "pending"
  /\ told' \in {"declined", "failed"}
  /\ UNCHANGED <<tables, known, used, unreachable>>

LoseDatabase ==
  /\ told = "pending"
  /\ unreachable' = TRUE
  /\ told' = "failed"
  /\ UNCHANGED <<tables, known, used>>

Next == Change \/ LookUp \/ Read \/ FindMissing \/ Refuse \/ Decline \/ LoseDatabase

Spec == Init /\ [][Next]_vars

=============================================================================
