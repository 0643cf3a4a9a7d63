------------------------------- MODULE MCLink -------------------------------
(***************************************************************************)
(* Link for TLC: a file of two records for reading and writing, and a file *)
(* of one record that can only be read.                                    *)
(***************************************************************************)
EXTENDS Link

MCfiles ==
  <<[property_read |-> TRUE, property_write |-> TRUE, property_flash |-> FALSE,
     callback |-> TRUE, amount_of_records |-> 2],
    [property_read |-> TRUE, property_write |-> FALSE, property_flash |-> FALSE,
     callback |-> FALSE, amount_of_records |-> 1]>>
=============================================================================
