--------------------------- MODULE MCModbusClient ---------------------------
EXTENDS ModbusClient
=============================================================================
