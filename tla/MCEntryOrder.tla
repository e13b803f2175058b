------------------------------ MODULE MCEntryOrder ------------------------------
(* An entry of three lots with up to three attempts. *)
EXTENDS EntryOrder

BothTypes == {"LIMIT", "MARKET"}
OnlyLimit == {"LIMIT"}
================================================================================
