--------------------------- MODULE MCModbusServer ---------------------------
(***************************************************************************)
(* ModbusServer for TLC: a file of three records in memory with a callback,  *)
(* and a file of one record in flash.                                      *)
(***************************************************************************)
EXTENDS ModbusServer

MCfiles ==
  <<[property_read |-> TRUE, property_write |-> TRUE, property_flash |-> FALSE,
     callback |-> TRUE, amount_of_records |-> 3],
    [property_read |-> FALSE, property_write |-> TRUE, property_flash |-> TRUE,
     callback |-> TRUE, amount_of_records |-> 1]>>
=============================================================================
