----------------------------- MODULE FileBuffer -----------------------------
(***************************************************************************)
(* File (core/client/src/file.cpp): the client's buffer of one file.  The  *)
(* object is a record of its fields without the bytes, and a member        *)
(* function maps the object to the new one.  `allocated' is the length of  *)
(* the array behind the unique_ptr, `data' says whether there is one.      *)
(***************************************************************************)
EXTENDS Integers

max_num_of_records == 10000

HalfWord == {n \in Nat : n < 65536}
u16(n)   == n % 65536

FileObject ==
  [data : BOOLEAN, allocated : Nat, file_size : Nat, num_of_records : HalfWord,
   counter : HalfWord, id : HalfWord, record_size : 0..255, ready : BOOLEAN]

NewFile ==
  [data |-> FALSE, allocated |-> 0, file_size |-> 0, num_of_records |-> 0,
   counter |-> 0, id |-> 0, record_size |-> 0, ready |-> FALSE]

(* flush; the id stays. *)
flush(file) == [NewFile EXCEPT !.id = file.id]

(* The first statement of each setup function. *)
Flushed(file) == IF file.data THEN flush(file) ELSE file

(* The quotient is rounded up, cut to 16 bits and only then compared. *)
calcNumOfRecords(size, record_size) ==
  IF record_size = 0 \/ size = 0 THEN 0
  ELSE LET n == u16(IF size % record_size # 0 THEN size \div record_size + 1
                                              ELSE size \div record_size)
       IN IF n > max_num_of_records THEN 0 ELSE n

getActualRecordLength(file, index) ==
  IF index \notin 0..file.num_of_records - 1 THEN 0
  ELSE IF index + 1 = file.num_of_records /\ file.file_size # file.record_size
       THEN file.file_size % file.record_size
  ELSE file.record_size

(* A file shorter than a record gets a whole one. *)
ReadLength(size, record_size) == IF size < record_size THEN record_size ELSE size

(* Without a record size the call fails, and the old file is gone. *)
setupRead(file, id, size, record_size) ==
  LET length == ReadLength(size, record_size)
  IN IF record_size = 0 THEN Flushed(file)
     ELSE [Flushed(file) EXCEPT
             !.data = TRUE, !.allocated = length, !.file_size = length, !.id = id,
             !.record_size = record_size, !.num_of_records = calcNumOfRecords(size, record_size)]

(* The array of a file to write is a number of whole records. *)
Padded(file, id, size, record_size) ==
  LET n == calcNumOfRecords(size, record_size)
  IN [Flushed(file) EXCEPT
        !.data = TRUE, !.allocated = n * record_size, !.id = id,
        !.record_size = record_size, !.num_of_records = n]

(* got: the bytes the drive had to give. *)
setupWriteFromDrive(file, id, size, got, record_size) ==
  IF size = 0 THEN Flushed(file)
  ELSE [Padded(file, id, size, record_size) EXCEPT !.file_size = got, !.ready = got = size]

(* file_size is left alone. *)
setupWriteFromMemory(file, id, size, record_size) ==
  IF size = 0 THEN Flushed(file)
  ELSE [Padded(file, id, size, record_size) EXCEPT !.ready = TRUE]

(* loadRecordFromMessage: a record goes behind the ones loaded before. *)
Loads(file, data_length) == file.counter * file.record_size + data_length <= file.file_size

Loaded(file, data_length) ==
  IF ~Loads(file, data_length) THEN file
  ELSE [file EXCEPT !.counter = u16(file.counter + 1),
                    !.ready = file.ready \/ u16(file.counter + 1) = file.num_of_records]

-----------------------------------------------------------------------------
(* What the code relies on. *)

(* The memset of the last record and the copy of the file stay in the array. *)
SetupFits(file, size) == file.num_of_records > 0 /\ size <= file.allocated

(* The slice taskWriteFile takes for record i lies in the array. *)
SliceFits(file, i, record_size) == (i + 1) * record_size <= file.allocated
=============================================================================
