-------------------------- MODULE FileBufferProofs --------------------------
(***************************************************************************)
(* The arithmetic of File for every size of file and record.              *)
(***************************************************************************)
EXTENDS FileBuffer, TLAPS

(* Division with remainder by a record size. *)
LEMMA Division ==
  ASSUME NEW size \in Nat, NEW r \in Nat \ {0}
  PROVE  /\ size \div r \in Nat /\ size % r \in 0..r - 1
         /\ size = r * (size \div r) + (size % r)
  OBVIOUS

LEMMA Monotone ==
  ASSUME NEW a \in Int, NEW b \in Int, NEW r \in Nat, a <= b
  PROVE  a * r <= b * r
  OBVIOUS

(* The number of records of a file that is not too large is its size divided by
   the record size, rounded up. *)
LEMMA RoundedUp ==
  ASSUME NEW r \in 1..255, NEW size \in Nat \ {0}, size <= max_num_of_records * r
  PROVE  LET n == calcNumOfRecords(size, r)
         IN /\ n \in 1..max_num_of_records
            /\ (n - 1) * r < size /\ size <= n * r
            /\ size % r # 0 => size = (n - 1) * r + (size % r)
            /\ size % r = 0 => size = n * r
<1> DEFINE q == size \div r
           m == size % r
           c == IF m # 0 THEN q + 1 ELSE q
<1>1. q \in Nat /\ m \in 0..r - 1 /\ size = r * q + m
  BY Division
<1> HIDE DEF q, m
<1>2. r * q = q * r /\ (q + 1) * r = q * r + r /\ (q - 1) * r = q * r - r
  BY <1>1
<1>3. q <= max_num_of_records
  <2>1. SUFFICES ASSUME q >= max_num_of_records + 1 PROVE FALSE
    BY <1>1 DEF max_num_of_records
  <2>2. (max_num_of_records + 1) * r <= q * r
    BY <1>1, <2>1, Monotone DEF max_num_of_records
  <2> QED
    BY <1>1, <1>2, <2>2 DEF max_num_of_records
<1>4. m # 0 => q + 1 <= max_num_of_records
  <2>1. SUFFICES ASSUME m # 0, q = max_num_of_records PROVE FALSE
    BY <1>1, <1>3 DEF max_num_of_records
  <2> QED
    BY <1>1, <1>2, <2>1
<1>5. m = 0 => q >= 1
  BY <1>1
<1>6. c \in 1..max_num_of_records
  <2>1. CASE m # 0
    BY <1>1, <1>4, <2>1
  <2>2. CASE m = 0
    BY <1>1, <1>3, <1>5, <2>2
  <2> QED
    BY <2>1, <2>2
<1>7. u16(c) = c
  <2> HIDE DEF c
  <2>1. c \in Nat /\ c <= 10000
    BY <1>6 DEF max_num_of_records
  <2> QED
    BY <2>1 DEF u16
<1>8. calcNumOfRecords(size, r) = c
  <2>1. r # 0 /\ size # 0
    OBVIOUS
  <2>2. calcNumOfRecords(size, r) = IF u16(c) > max_num_of_records THEN 0 ELSE u16(c)
    BY <2>1, Zenon DEF calcNumOfRecords, q, m
  <2> HIDE DEF c
  <2>3. c \in Nat /\ ~(c > max_num_of_records)
    BY <1>6 DEF max_num_of_records
  <2> QED
    BY <1>7, <2>2, <2>3
<1>9. (c - 1) * r < size /\ size <= c * r
  BY <1>1, <1>2, <1>5
<1>10. (m # 0 => size = (c - 1) * r + m) /\ (m = 0 => size = c * r)
  BY <1>1, <1>2
<1> QED
  BY <1>6, <1>8, <1>9, <1>10 DEF m

-----------------------------------------------------------------------------

LEMMA FlushedType == ASSUME NEW file \in FileObject PROVE Flushed(file) \in FileObject
<1>1. file.id \in HalfWord
  BY DEF FileObject
<1>2. NewFile \in FileObject
  BY DEF NewFile, FileObject, HalfWord
<1>3. flush(file) \in FileObject
  BY <1>1, <1>2 DEF flush, FileObject
<1> QED
  BY <1>3 DEF Flushed

(* What setupRead leaves, when it does not fail. *)
LEMMA AfterSetupRead ==
  ASSUME NEW file \in FileObject, NEW id, NEW size \in Nat \ {0}, NEW r \in 1..255
  PROVE  LET f == setupRead(file, id, size, r)
         IN /\ f.num_of_records = calcNumOfRecords(size, r)
            /\ f.file_size = ReadLength(size, r) /\ f.allocated = ReadLength(size, r)
<1> DEFINE length == ReadLength(size, r)
<1>1. Flushed(file) \in FileObject
  BY FlushedType
<1>2. setupRead(file, id, size, r) =
        [Flushed(file) EXCEPT
           !.data = TRUE, !.allocated = length, !.file_size = length, !.id = id,
           !.record_size = r, !.num_of_records = calcNumOfRecords(size, r)]
  <2>1. r # 0
    OBVIOUS
  <2> QED
    BY <2>1 DEF setupRead
<1> HIDE DEF length
<1>3. LET f == setupRead(file, id, size, r)
      IN /\ f.num_of_records = calcNumOfRecords(size, r)
         /\ f.file_size = length /\ f.allocated = length
  BY <1>1, <1>2 DEF FileObject
<1> QED
  BY <1>3 DEF length

LEMMA RecordSizeAfterSetupRead ==
  ASSUME NEW file \in FileObject, NEW id, NEW size \in Nat \ {0}, NEW r \in 1..255
  PROVE  setupRead(file, id, size, r).record_size = r
<1>1. Flushed(file) \in FileObject
  BY FlushedType
<1>2. r # 0
  OBVIOUS
<1>3. setupRead(file, id, size, r) =
        [Flushed(file) EXCEPT
           !.data = TRUE, !.allocated = ReadLength(size, r), !.file_size = ReadLength(size, r),
           !.id = id, !.record_size = r, !.num_of_records = calcNumOfRecords(size, r)]
  BY <1>2 DEF setupRead
<1> QED
  BY <1>1, <1>3 DEF FileObject

(* Every record taskReadFile asks for has its place in the buffer, so
   loadRecordFromMessage refuses no answer of the length asked for.  The records
   are the whole file, but for a file of several whole records: of that the last
   one is asked for with the length 0. *)
THEOREM ReadRecordsFit ==
  ASSUME NEW file \in FileObject, NEW id, NEW r \in 1..255,
         NEW size \in Nat \ {0}, size <= max_num_of_records * r
  PROVE  LET f == setupRead(file, id, size, r)
             n == f.num_of_records
         IN /\ n \in 1..max_num_of_records
            /\ \A i \in 0..n - 1 : i * r + getActualRecordLength(f, i) <= f.allocated
            /\ \A i \in 0..n - 2 : getActualRecordLength(f, i) = r
            /\ (n - 1) * r + getActualRecordLength(f, n - 1) =
                 IF size % r = 0 /\ size > r THEN size - r ELSE f.file_size
<1> DEFINE f == setupRead(file, id, size, r)
           n == f.num_of_records
           m == size % r
<1>a. f.record_size = r
  BY RecordSizeAfterSetupRead
<1>0. /\ n = calcNumOfRecords(size, r)
      /\ f.file_size = ReadLength(size, r) /\ f.allocated = ReadLength(size, r)
  BY AfterSetupRead
<1>1. /\ n = calcNumOfRecords(size, r) /\ f.record_size = r
      /\ f.file_size = f.allocated
      /\ size < r => f.file_size = r
      /\ size >= r => f.file_size = size
  BY <1>0, <1>a DEF ReadLength
<1>2. /\ n \in 1..max_num_of_records
      /\ (n - 1) * r < size /\ size <= n * r
      /\ m # 0 => size = (n - 1) * r + m
      /\ m = 0 => size = n * r
  BY <1>1, RoundedUp
<1>3. m \in 0..r - 1
  BY Division
<1>4. \A i \in 0..n - 1 :
        getActualRecordLength(f, i) =
          IF i + 1 = n /\ f.file_size # r THEN f.file_size % r ELSE r
  BY <1>1 DEF getActualRecordLength
<1> HIDE DEF f, n, m
<1>5. \A i \in 0..n - 2 : getActualRecordLength(f, i) = r
  BY <1>2, <1>4 DEF max_num_of_records
<1>6. \A i \in 0..n - 2 : i * r + r <= f.file_size
  <2>1. SUFFICES ASSUME NEW i \in 0..n - 2 PROVE i * r + r <= f.file_size
    OBVIOUS
  <2>2. i \in Int /\ n \in Int /\ i + 1 <= n - 1 /\ (i + 1) * r = i * r + r
    BY <1>2 DEF max_num_of_records
  <2>3. (i + 1) * r <= (n - 1) * r
    BY <2>2, Monotone
  <2> QED
    BY <1>1, <1>2, <2>2, <2>3
<1>7. n - 1 \in 0..n - 1 /\ (n - 1) * r = n * r - r /\ n * r \in Int
  BY <1>2 DEF max_num_of_records
<1>8. (n - 1) * r + getActualRecordLength(f, n - 1) =
        IF m = 0 /\ size > r THEN size - r ELSE f.file_size
  <2>1. CASE size < r
    <3>1. n = 1
      <4>1. SUFFICES ASSUME n >= 2 PROVE FALSE
        BY <1>2 DEF max_num_of_records
      <4>2. 1 * r <= (n - 1) * r
        BY <4>1, <1>2, Monotone DEF max_num_of_records
      <4> QED
        BY <1>2, <1>7, <2>1, <4>2
    <3>2. getActualRecordLength(f, n - 1) = r
      BY <1>1, <1>4, <1>7, <2>1
    <3> QED
      BY <1>1, <2>1, <3>1, <3>2
  <2>2. CASE size = r
    <3>1. getActualRecordLength(f, n - 1) = r /\ f.file_size = r
      BY <1>1, <1>4, <1>7, <2>2
    <3>2. m = 0
      BY <2>2 DEF m
    <3> QED
      BY <1>2, <1>7, <2>2, <3>1, <3>2
  <2>3. CASE size > r
    <3>1. f.file_size = size /\ f.file_size # r
      BY <1>1, <2>3
    <3>1a. getActualRecordLength(f, n - 1) = m
      <4>1. getActualRecordLength(f, n - 1) = f.file_size % r
        BY <1>2, <1>4, <1>7, <3>1 DEF max_num_of_records
      <4> QED
        BY <3>1, <4>1 DEF m
    <3>2. CASE m = 0
      BY <1>2, <1>7, <2>3, <3>1, <3>1a, <3>2
    <3>3. CASE m # 0
      BY <1>2, <1>7, <2>3, <3>1, <3>1a, <3>3
    <3> QED
      BY <3>2, <3>3
  <2> QED
    BY <2>1, <2>2, <2>3
<1>9. \A i \in 0..n - 1 : i * r + getActualRecordLength(f, i) <= f.allocated
  <2>1. SUFFICES ASSUME NEW i \in 0..n - 1
                 PROVE  i * r + getActualRecordLength(f, i) <= f.allocated
    OBVIOUS
  <2>2. CASE i \in 0..n - 2
    BY <1>1, <1>5, <1>6, <2>2
  <2>3. CASE i = n - 1
    BY <1>1, <1>8, <2>3
  <2> QED
    BY <1>2, <2>2, <2>3 DEF max_num_of_records
<1> QED
  BY <1>2, <1>5, <1>8, <1>9 DEF f, n, m

-----------------------------------------------------------------------------

(* What the setup of a file to write leaves. *)
LEMMA AfterSetupWrite ==
  ASSUME NEW file \in FileObject, NEW id, NEW size \in Nat \ {0}, NEW r \in 1..255
  PROVE  LET f == setupWriteFromMemory(file, id, size, r)
         IN /\ f.num_of_records = calcNumOfRecords(size, r)
            /\ f.allocated = calcNumOfRecords(size, r) * r
<1>1. Flushed(file) \in FileObject
  BY FlushedType
<1>2. setupWriteFromMemory(file, id, size, r)
        = [Padded(file, id, size, r) EXCEPT !.ready = TRUE]
  <2>1. size # 0
    OBVIOUS
  <2> QED
    BY <2>1 DEF setupWriteFromMemory
<1>3. Padded(file, id, size, r) =
        [Flushed(file) EXCEPT
           !.data = TRUE, !.allocated = calcNumOfRecords(size, r) * r, !.id = id,
           !.record_size = r, !.num_of_records = calcNumOfRecords(size, r)]
  BY DEF Padded
<1> QED
  BY <1>1, <1>2, <1>3 DEF FileObject

(* The setup of a file to write stays inside the array it allocates, and so does
   taskWriteFile, as long as it cuts the file by at most the record size the file
   was set up with.  With a larger one it reads behind the array. *)
THEOREM WriteStaysInside ==
  ASSUME NEW file \in FileObject, NEW id, NEW r \in 1..255,
         NEW size \in Nat \ {0}, size <= max_num_of_records * r, NEW cut \in 0..255
  PROVE  LET f == setupWriteFromMemory(file, id, size, r)
             n == f.num_of_records
         IN /\ SetupFits(f, size)
            /\ (\A i \in 0..n - 1 : SliceFits(f, i, cut)) <=> cut <= r
<1> DEFINE f == setupWriteFromMemory(file, id, size, r)
           n == f.num_of_records
<1>1. n = calcNumOfRecords(size, r) /\ f.allocated = n * r
  <2>1. n = calcNumOfRecords(size, r) /\ f.allocated = calcNumOfRecords(size, r) * r
    BY AfterSetupWrite, Zenon
  <2> HIDE DEF f, n
  <2> QED
    BY <2>1
<1>2. n \in 1..max_num_of_records /\ size <= n * r
  BY <1>1, RoundedUp
<1> HIDE DEF f, n
<1>3. n \in Int /\ n >= 1 /\ n - 1 \in 0..n - 1
  BY <1>2 DEF max_num_of_records
<1>4. SetupFits(f, size)
  BY <1>1, <1>2, <1>3 DEF SetupFits, n
<1>5. ASSUME cut <= r, NEW i \in 0..n - 1 PROVE SliceFits(f, i, cut)
  <2>1. i + 1 \in Nat /\ i + 1 <= n
    BY <1>3
  <2>2. (i + 1) * cut <= n * cut
    BY <1>3, <2>1, Monotone
  <2>3. cut * n <= r * n
    BY <1>3, <1>5, Monotone
  <2>4. cut * n = n * cut /\ r * n = n * r
    BY <1>3
  <2> QED
    BY <1>1, <1>3, <2>1, <2>2, <2>3, <2>4 DEF SliceFits
<1>6. ASSUME SliceFits(f, n - 1, cut) PROVE cut <= r
  <2>1. n * cut <= n * r
    BY <1>1, <1>3, <1>6 DEF SliceFits
  <2>2. SUFFICES ASSUME cut >= r + 1 PROVE FALSE
    OBVIOUS
  <2>3. (r + 1) * n <= cut * n
    BY <1>3, <2>2, Monotone
  <2> QED
    BY <1>3, <2>1, <2>3
<1> QED
  BY <1>3, <1>4, <1>5, <1>6 DEF f, n

(* A file that was read can be written back from the buffer only if it is a
   number of whole records: taskWriteFile sends whole records, and the array of a
   file set up for reading is not padded. *)
THEOREM ReadBufferIsNotPadded ==
  ASSUME NEW file \in FileObject, NEW id, NEW r \in 1..255,
         NEW size \in Nat \ {0}, size <= max_num_of_records * r
  PROVE  LET f == setupRead(file, id, size, r)
         IN SliceFits(f, f.num_of_records - 1, r) <=> (size < r \/ size % r = 0)
<1> DEFINE f == setupRead(file, id, size, r)
           n == f.num_of_records
           m == size % r
<1>0. n = calcNumOfRecords(size, r) /\ f.allocated = ReadLength(size, r)
  BY AfterSetupRead
<1>1. /\ n = calcNumOfRecords(size, r)
      /\ size < r => f.allocated = r
      /\ size >= r => f.allocated = size
  BY <1>0 DEF ReadLength
<1>2. /\ n \in 1..max_num_of_records
      /\ (n - 1) * r < size /\ size <= n * r
      /\ m # 0 => size = (n - 1) * r + m
      /\ m = 0 => size = n * r
  BY <1>1, RoundedUp
<1>3. m \in 0..r - 1
  BY Division
<1> HIDE DEF f, n, m
<1>4. n \in Int /\ n >= 1 /\ n * r \in Int /\ (n - 1) * r = n * r - r /\ (n - 1) + 1 = n
  BY <1>2 DEF max_num_of_records
<1>5. SliceFits(f, n - 1, r) <=> n * r <= f.allocated
  BY <1>4 DEF SliceFits
<1>6. CASE size < r
  <2>1. n = 1
    <3>1. SUFFICES ASSUME n >= 2 PROVE FALSE
      BY <1>4
    <3>2. 1 * r <= (n - 1) * r
      BY <1>4, <3>1, Monotone
    <3> QED
      BY <1>2, <1>4, <1>6, <3>2
  <2> QED
    BY <1>1, <1>5, <1>6, <2>1 DEF f, n
<1>7. CASE size >= r
  <2>1. n * r <= f.allocated <=> n * r <= size
    BY <1>1, <1>7
  <2>2. n * r <= size <=> m = 0
    BY <1>2, <1>3, <1>4
  <2>3. SliceFits(f, n - 1, r) <=> m = 0
    BY <1>5, <2>1, <2>2
  <2> QED
    BY <1>7, <2>3 DEF f, n, m
<1> QED
  BY <1>6, <1>7
=============================================================================
