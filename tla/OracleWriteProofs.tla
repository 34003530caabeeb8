--------------------------- MODULE OracleWriteProofs ---------------------------
(***************************************************************************)
(* Proofs about OracleWrite: the table and columns that bind picks, for    *)
(* any dictionary and order of its rows, and the sink, for any target, any *)
(* number of columns, any sizes of values and batches.                     *)
(***************************************************************************)
EXTENDS OracleWrite, WellFoundedInduction, FiniteSetTheorems, SequenceTheorems, TLAPS

\* Either nothing is bound and every buffer is empty, or OCI has the buffer of
\* every column at its present size.
BoundOK ==
    /\ buffers \in [Columns -> Nat]
    /\ DOMAIN bound = Columns
    /\ \/ \A c \in Columns : bound[c] = None /\ buffers[c] = 0
       \/ \A c \in Columns : bound[c] # None /\ bound[c].size = buffers[c]

IInv ==
    /\ stage = "bind" => sent = <<>>
    /\ BoundOK
    /\ BatchIsReadAsGiven
    /\ NeverTooLarge

-----------------------------------------------------------------------------
(* Facts about the operators.                                              *)

\* A non-empty set of numbers has a smallest one.
LEMMA Smallest ==
    ASSUME NEW T, T \subseteq Nat, T # {}
    PROVE  \E x \in T : \A y \in T : x <= y
<1> DEFINE R == {ss \in Nat \X Nat : ss[1] < ss[2]}
<1>1. IsWellFoundedOn(R, Nat)
    BY NatLessThanWellFounded DEF OpToRel
<1> HIDE DEF R
<1>2. \E x \in T : \A y \in T : ~(<<y, x>> \in R)
    BY <1>1, WFMin
<1>3. \E x \in T : \A y \in T : ~(y < x)
    BY <1>2 DEF R
<1>4. QED
    BY <1>3

\* So a bounded one has a largest.
LEMMA Largest ==
    ASSUME NEW T, T \subseteq Nat, T # {}, NEW limit \in Nat, \A x \in T : x <= limit
    PROVE  \E x \in T : \A y \in T : y <= x
<1> DEFINE U == {limit - x : x \in T}
<1>0. \A x \in T : limit - x \in Nat
    OBVIOUS
<1>1. U \subseteq Nat /\ U # {}
    BY <1>0
<1>2. PICK u \in U : \A v \in U : u <= v
    <2> HIDE DEF U
    <2>1. QED
        BY <1>1, Smallest
<1>3. PICK x \in T : u = limit - x
    BY <1>2
<1>4. \A y \in T : limit - x <= limit - y
    BY <1>2, <1>3
<1>5. \A y \in T : y <= x
    BY <1>4
<1>6. QED
    BY <1>5

\* Rounding up to a multiple of four.
LEMMA AlignGrows ==
    ASSUME NEW n \in Nat
    PROVE  Align(n) \in Nat /\ n <= Align(n)
    BY DEF Align

\* A column of a chunk.
Values == UNION {[1..n -> Sizes \cup {Null}] : n \in 0..MaxBatch}

\* MaxLength bounds every value of the column.
LEMMA MaxLengthBounds ==
    ASSUME NEW values \in Values
    PROVE  /\ MaxLength(values) \in Nat
           /\ \A r \in DOMAIN values : values[r] # Null =>
                 values[r] \in Nat /\ values[r] <= MaxLength(values)
<1> DEFINE lengths == {values[r] : r \in DOMAIN values} \ {Null}
<1>1. lengths \subseteq Sizes
    BY DEF Values
<1>2. PICK limit \in Sizes : \A m \in Sizes : m <= limit
    BY WriteAssumption
<1>3. limit \in Nat /\ lengths \subseteq Nat
    BY <1>1, WriteAssumption
<1>4. MaxLength(values) = IF lengths = {} THEN 0
                          ELSE CHOOSE n \in lengths : \A m \in lengths : m <= n
    BY DEF MaxLength
<1>5. \A r \in DOMAIN values : values[r] # Null => values[r] \in lengths
    OBVIOUS
<1> HIDE DEF lengths
<1>6. CASE lengths = {}
    BY <1>4, <1>5, <1>6
<1>7. CASE lengths # {}
    <2>1. \E n \in lengths : \A m \in lengths : m <= n
        BY <1>1, <1>2, <1>3, <1>7, Largest
    <2>2. MaxLength(values) \in lengths /\ \A m \in lengths : m <= MaxLength(values)
        BY <1>4, <1>7, <2>1
    <2>3. QED
        BY <1>3, <1>5, <2>2
<1>8. QED
    BY <1>6, <1>7

\* The buffer that a column asks for holds its values and is never empty.
LEMMA RequiredSizeBounds ==
    ASSUME NEW values \in Values
    PROVE  /\ RequiredSize(values) \in Nat \ {0}
           /\ \A r \in DOMAIN values : values[r] # Null => values[r] <= RequiredSize(values)
<1> DEFINE longest == MaxLength(values)
           size == IF longest > DefaultSize THEN longest + 32 ELSE DefaultSize
<1>1. longest \in Nat /\ DefaultSize \in Nat \ {0}
    BY MaxLengthBounds, WriteAssumption
<1>2. size \in Nat \ {0} /\ longest <= size
    <2> HIDE DEF longest
    <2>1. QED
        BY <1>1
<1>3. RequiredSize(values) = Align(size)
    BY DEF RequiredSize
<1> HIDE DEF size
<1>4. RequiredSize(values) \in Nat /\ size <= RequiredSize(values)
    BY <1>2, <1>3, AlignGrows
<1>5. longest <= RequiredSize(values)
    <2> HIDE DEF longest
    <2>1. QED
        BY <1>1, <1>2, <1>4
<1>6. \A r \in DOMAIN values : values[r] # Null => values[r] \in Nat /\ values[r] <= longest
    BY MaxLengthBounds
<1>7. QED
    <2> HIDE DEF longest
    <2>1. QED
        BY <1>1, <1>2, <1>4, <1>5, <1>6

\* Each column of a chunk is one.
LEMMA ChunkColumns ==
    ASSUME NEW data \in Chunks, NEW c \in Columns
    PROVE  data[c] \in Values /\ DOMAIN data[c] \subseteq 1..MaxBatch
    BY WriteAssumption DEF Chunks, Values

\* Resized buffers hold the chunk.
LEMMA ResizedFits ==
    ASSUME BoundOK, NEW data \in Chunks
    PROVE  /\ Resized(data) \in [Columns -> Nat]
           /\ ~TooLarge(data, Resized(data))
<1>1. \A c \in Columns : /\ Resized(data)[c] \in Nat
                         /\ RequiredSize(data[c]) <= Resized(data)[c]
    <2> TAKE c \in Columns
    <2>1. RequiredSize(data[c]) \in Nat /\ buffers[c] \in Nat
        BY ChunkColumns, RequiredSizeBounds DEF BoundOK
    <2>2. Resized(data)[c] = IF RequiredSize(data[c]) > buffers[c] THEN RequiredSize(data[c])
                             ELSE buffers[c]
        BY DEF Resized, Grows
    <2>3. QED
        BY <2>1, <2>2
<1>2. Resized(data) \in [Columns -> Nat]
    BY <1>1 DEF Resized
<1>3. ASSUME NEW c \in Columns, NEW r \in DOMAIN data[c], data[c][r] # Null
      PROVE  ~(data[c][r] > Resized(data)[c])
    <2>1. data[c][r] <= RequiredSize(data[c]) /\ data[c][r] \in Nat /\ RequiredSize(data[c]) \in Nat
        BY <1>3, ChunkColumns, RequiredSizeBounds, MaxLengthBounds
    <2>2. RequiredSize(data[c]) <= Resized(data)[c] /\ Resized(data)[c] \in Nat
        BY <1>1
    <2>3. QED
        BY <2>1, <2>2
<1>4. QED
    BY <1>2, <1>3 DEF TooLarge

\* After a rebind, or without need of one, OCI has every buffer.
LEMMA ReboundOK ==
    ASSUME BoundOK, NEW data \in Chunks, ~(\A c \in Columns : data[c] = <<>>),
           NEW blocks, blocks = Resized(data)
    PROVE  /\ DOMAIN Rebound(data, blocks) = Columns
           /\ \A c \in Columns : /\ Rebound(data, blocks)[c] # None
                                 /\ Rebound(data, blocks)[c].size = blocks[c]
<1>0. blocks \in [Columns -> Nat]
    BY ResizedFits
<1>1. CASE \E c \in Columns : Grows(c, data)
    <2>1. Rebound(data, blocks) =
              [c \in Columns |-> [size |-> blocks[c], type |-> BindType(target.types[c])]]
        BY <1>1 DEF Rebound
    <2>2. \A c \in Columns : BindType(target.types[c]) \in ExternalTypes
        BY DEF BindType, ExternalTypes
    <2>3. \A c \in Columns : [size |-> blocks[c], type |-> BindType(target.types[c])]
                                 \in [size : Nat, type : ExternalTypes]
        BY <1>0, <2>2
    <2>4. \A c \in Columns : Rebound(data, blocks)[c] # None
        BY <2>1, <2>3, WriteAssumption
    <2>5. \A c \in Columns : Rebound(data, blocks)[c].size = blocks[c]
        BY <2>1
    <2>6. QED
        BY <2>1, <2>4, <2>5
<1>2. CASE ~\E c \in Columns : Grows(c, data)
    <2>1. Rebound(data, blocks) = bound
        BY <1>2 DEF Rebound
    <2>2. \A c \in Columns : blocks[c] = buffers[c]
        BY <1>2 DEF Resized
    <2>3. PICK c \in Columns : data[c] # <<>>
        OBVIOUS
    <2>4. buffers[c] # 0
        BY <1>2, ChunkColumns, RequiredSizeBounds DEF Grows
    <2>5. QED
        BY <2>1, <2>2, <2>4 DEF BoundOK
<1>3. QED
    BY <1>1, <1>2

-----------------------------------------------------------------------------

\* The first state satisfies the invariant.
LEMMA InitIInv == Init => IInv
    BY DEF Init, IInv, BoundOK, BatchIsReadAsGiven, NeverTooLarge

\* A step that leaves the buffers, the bindings and the last batch alone.
LEMMA BatchStays ==
    ASSUME IInv, UNCHANGED <<request, buffers, bound, chunk, sent>>,
           stage' # "too large", stage' = "bind" => stage = "bind",
           stage' = "sink" => stage \in {"bind", "sink"}
    PROVE  IInv'
<1>1. BoundOK'
    BY DEF IInv, BoundOK, Columns
<1>2. (sent # <<>> /\ stage = "sink")' => sent # <<>> /\ stage = "sink"
    BY DEF IInv
<1>3. BatchIsReadAsGiven'
    BY <1>2 DEF IInv, BatchIsReadAsGiven, Columns
<1>4. QED
    BY <1>1, <1>3 DEF IInv, NeverTooLarge

\* A chunk is sent.
LEMMA SinkStep ==
    ASSUME IInv, NEW data \in Chunks, Sink(data)
    PROVE  IInv'
<1> DEFINE blocks == Resized(data)
           bindings == Rebound(data, blocks)
           filled == FilledCells(data)
<1>1. CASE \A c \in Columns : data[c] = <<>>
    <2>1. UNCHANGED <<request, stage, buffers, bound, cells, chunk, sent>>
        BY <1>1 DEF Sink, bindVars
    <2>2. stage # "too large"
        BY DEF IInv, NeverTooLarge
    <2>3. QED
        BY <2>1, <2>2, BatchStays
<1>2. CASE ~(\A c \in Columns : data[c] = <<>>)
    <2>1. BoundOK
        BY DEF IInv
    <2>2. blocks \in [Columns -> Nat] /\ ~TooLarge(data, blocks)
        BY <2>1, ResizedFits
    <2>3. /\ DOMAIN bindings = Columns
          /\ \A c \in Columns : bindings[c] # None /\ bindings[c].size = blocks[c]
        BY <1>2, <2>1, ReboundOK
    <2>4. /\ stage = "sink"
          /\ buffers' = blocks /\ bound' = bindings
          /\ Columns' = Columns
        BY <1>2 DEF Sink, bindVars, Columns
    <2>5. /\ chunk' = data
          /\ IF InsertIsValid
             THEN /\ stage' = stage
                  /\ sent' = [c \in Columns |-> [r \in DOMAIN data[c] |->
                                 Read(blocks[c], bindings[c], filled[c][r])]]
             ELSE stage' = "failed"
        BY <1>2, <2>2 DEF Sink
    <2>6. \A c \in Columns : \A r \in DOMAIN data[c] :
              Read(blocks[c], bindings[c], filled[c][r]) =
                  AsGiven(data[c][r])
        <3> TAKE c \in Columns
        <3> TAKE r \in DOMAIN data[c]
        <3>1. filled[c][r] = Filled(data[c], r, cells[c][r])
            BY ChunkColumns DEF FilledCells
        <3>2. Read(blocks[c], bindings[c], filled[c][r]) =
                  IF filled[c][r].indicator = -1 THEN Null ELSE filled[c][r].length
            BY <2>3 DEF Read
        <3>3. filled[c][r] = IF data[c][r] = Null THEN [indicator |-> -1, length |-> 0]
                             ELSE [indicator |-> 0, length |-> data[c][r] % LengthLimit]
            BY <3>1 DEF Filled
        <3> HIDE DEF filled
        <3>4. CASE data[c][r] = Null
            BY <3>2, <3>3, <3>4 DEF AsGiven
        <3>5. CASE data[c][r] # Null
            BY <3>2, <3>3, <3>5 DEF AsGiven
        <3>6. QED
            BY <3>4, <3>5
    <2> HIDE DEF blocks, bindings, filled
    <2>7. BoundOK'
        BY <2>2, <2>3, <2>4 DEF BoundOK
    <2>8. BatchIsReadAsGiven'
        BY <2>4, <2>5, <2>6 DEF BatchIsReadAsGiven
    <2>9. NeverTooLarge'
        BY <2>4, <2>5 DEF NeverTooLarge
    <2>10. QED
        BY <2>4, <2>5, <2>7, <2>8, <2>9 DEF IInv
<1>3. QED
    BY <1>1, <1>2

\* No step breaks the invariant.
LEMMA NextIInv == IInv /\ [Next]_vars => IInv'
<1> SUFFICES ASSUME IInv, [Next]_vars PROVE IInv'
    OBVIOUS
<1>1. ASSUME NEW data \in Chunks, Sink(data) PROVE IInv'
    BY <1>1, SinkStep
<1>2. CASE OracleWriteBind
    <2>1. stage = "bind" /\ stage' = "sink"
              /\ UNCHANGED <<request, buffers, bound, chunk, sent>>
        BY <1>2 DEF OracleWriteBind
    <2>2. QED
        BY <2>1, BatchStays
<1>3. CASE Fail \/ OracleWriteFinalize
    BY <1>3, BatchStays DEF Fail, OracleWriteFinalize
<1>4. CASE Ended \/ UNCHANGED vars
    <2>1. UNCHANGED vars
        BY <1>4 DEF Ended
    <2>2. stage # "too large"
        BY DEF IInv, NeverTooLarge
    <2>3. QED
        BY <2>1, <2>2, BatchStays DEF vars
<1>5. QED
    BY <1>1, <1>2, <1>3, <1>4 DEF Next

-----------------------------------------------------------------------------

\* Oracle reads every batch as its chunk gives it, for any number of columns,
\* rows and chunks: a buffer that grew is rebound before it is read, and NULLs
\* and lengths of earlier batches are overwritten (oracle_write.cpp:362, 409).
THEOREM BatchRead == Spec => []BatchIsReadAsGiven
<1>1. IInv => BatchIsReadAsGiven
    BY DEF IInv
<1>2. QED
    BY InitIInv, NextIInv, <1>1, PTL DEF Spec

\* The check "Data too large for buffer" never fails, whatever the sizes: the
\* buffer of a column always holds the longest value of the chunk
\* (oracle_write.cpp:445).
THEOREM BuffersSuffice == Spec => []NeverTooLarge
<1>1. IInv => NeverTooLarge
    BY DEF IInv
<1>2. QED
    BY InitIInv, NextIInv, <1>1, PTL DEF Spec

-----------------------------------------------------------------------------
(* Bind: the best table after each row.                                    *)

\* The loop over the rows computes a table for every prefix of them.
Computes(object, rows, best) ==
    /\ best[0] = NoTable
    /\ \A n \in 1..Len(rows) : best[n] = KeepBest(object, best[n - 1], rows[n])

\* A function that follows the loop for the first k rows.
Follows(object, rows, best, k) ==
    best = [n \in 0..k |-> IF n = 0 THEN NoTable ELSE KeepBest(object, best[n - 1], rows[n])]

\* There is one for every k: otherwise take the smallest k without one and
\* extend the function for k - 1.
LEMMA FollowsExists ==
    ASSUME NEW object, NEW rows, NEW k \in Nat
    PROVE  \E best : Follows(object, rows, best, k)
<1> DEFINE bad == {j \in Nat : ~\E best : Follows(object, rows, best, j)}
<1> SUFFICES ASSUME bad # {} PROVE FALSE
    OBVIOUS
<1>1. PICK j \in bad : \A i \in bad : j <= i
    <2>1. bad \subseteq Nat
        OBVIOUS
    <2> HIDE DEF bad
    <2>2. QED
        BY <2>1, Smallest
<1>2. j \in Nat /\ ~\E best : Follows(object, rows, best, j)
    OBVIOUS
<1>3. CASE j = 0
    <2> DEFINE f == [n \in 0..0 |-> NoTable]
    <2>1. f = [n \in 0..0 |-> IF n = 0 THEN NoTable ELSE KeepBest(object, f[n - 1], rows[n])]
        OBVIOUS
    <2> HIDE DEF f
    <2>2. Follows(object, rows, f, j)
        BY <1>3, <2>1 DEF Follows
    <2>3. QED
        BY <1>2, <2>2
<1>4. CASE j # 0
    <2>1. j - 1 \in Nat /\ j - 1 \notin bad
        BY <1>1, <1>2, <1>4
    <2>2. PICK f : Follows(object, rows, f, j - 1)
        BY <2>1
    <2>3. f = [n \in 0..(j - 1) |-> IF n = 0 THEN NoTable ELSE KeepBest(object, f[n - 1], rows[n])]
        BY <2>2 DEF Follows
    <2> DEFINE last == KeepBest(object, f[j - 1], rows[j])
               g == [n \in 0..j |-> IF n = j THEN last ELSE f[n]]
    <2>4. g = [n \in 0..j |-> IF n = 0 THEN NoTable ELSE KeepBest(object, g[n - 1], rows[n])]
        <3> DEFINE h == [n \in 0..j |-> IF n = 0 THEN NoTable ELSE KeepBest(object, g[n - 1], rows[n])]
        <3>1. ASSUME NEW n \in 0..j PROVE g[n] = h[n]
            <4>1. CASE n = 0
                <5>1. n # j /\ n \in 0..(j - 1)
                    BY <1>2, <1>4, <4>1
                <5>2. g[n] = f[n] /\ f[n] = NoTable
                    BY <2>3, <4>1, <5>1
                <5>3. QED
                    BY <4>1, <5>2
            <4>2. CASE n # 0 /\ n # j
                <5>1. n \in 0..(j - 1) /\ n - 1 \in 0..j /\ n - 1 # j
                    BY <1>2, <4>2
                <5>2. g[n] = f[n] /\ g[n - 1] = f[n - 1]
                    BY <4>2, <5>1
                <5> HIDE DEF g
                <5>3. f[n] = KeepBest(object, f[n - 1], rows[n])
                    BY <2>3, <4>2, <5>1
                <5>4. QED
                    BY <4>2, <5>2, <5>3
            <4>3. CASE n = j
                <5>1. j - 1 \in 0..j /\ j - 1 # j /\ j \in 0..j
                    BY <1>2, <1>4
                <5>2. g[j] = last /\ g[j - 1] = f[j - 1]
                    BY <5>1
                <5> HIDE DEF g
                <5>3. QED
                    BY <1>4, <4>3, <5>1, <5>2
            <4>4. QED
                BY <4>1, <4>2, <4>3
        <3>2. DOMAIN g = 0..j /\ DOMAIN h = 0..j
            OBVIOUS
        <3>3. g = [n \in 0..j |-> g[n]] /\ h = [n \in 0..j |-> h[n]]
            OBVIOUS
        <3> HIDE DEF g, h
        <3>4. g = h
            BY <3>1, <3>3
        <3>5. QED
            BY <3>4 DEF h
    <2> HIDE DEF g
    <2>5. Follows(object, rows, g, j)
        BY <2>4 DEF Follows
    <2>6. QED
        BY <1>2, <2>5
<1>5. QED
    BY <1>3, <1>4

\* So BestUpTo is what the loop computes.
LEMMA BestComputes ==
    ASSUME NEW object, NEW rows, Len(rows) \in Nat
    PROVE  Computes(object, rows, BestUpTo(object, rows))
<1> DEFINE best == BestUpTo(object, rows)
<1>1. best = CHOOSE f : Follows(object, rows, f, Len(rows))
    BY DEF BestUpTo, Follows
<1>2. Follows(object, rows, best, Len(rows))
    <2>1. \E f : Follows(object, rows, f, Len(rows))
        BY FollowsExists
    <2> HIDE DEF best
    <2>2. QED
        BY <1>1, <2>1
<1> HIDE DEF best
<1>3. best = [n \in 0..Len(rows) |->
                 IF n = 0 THEN NoTable ELSE KeepBest(object, best[n - 1], rows[n])]
    BY <1>2 DEF Follows
<1>4. best[0] = NoTable
    <2>1. 0 \in 0..Len(rows)
        OBVIOUS
    <2>2. QED
        BY <1>3, <2>1
<1>5. ASSUME NEW n \in 1..Len(rows) PROVE best[n] = KeepBest(object, best[n - 1], rows[n])
    <2>1. n \in 0..Len(rows) /\ n # 0
        OBVIOUS
    <2>2. QED
        BY <1>3, <2>1
<1>6. QED
    BY <1>4, <1>5 DEF Computes, best

-----------------------------------------------------------------------------
(* What the maps of the best table hold: for every row of the table a key, *)
(* and for every key the value of one of the rows that have it.            *)

MapOK(m, key, val, rows, table, n) ==
    /\ \A i \in 1..n : rows[i].table = table => key[i] \in DOMAIN m
    /\ \A x \in DOMAIN m : \E i \in 1..n : rows[i].table = table /\ key[i] = x /\ val[i] = m[x]

\* A row of the table adds its entry.
LEMMA MapGrows ==
    ASSUME NEW m, NEW key, NEW val, NEW rows, NEW table, NEW n \in Nat, n # 0,
           MapOK(m, key, val, rows, table, n - 1), rows[n].table = table
    PROVE  MapOK(Put(m, key[n], val[n]), key, val, rows, table, n)
<1> DEFINE g == Put(m, key[n], val[n])
<1>1. /\ DOMAIN g = {key[n]} \cup DOMAIN m
      /\ g[key[n]] = val[n]
      /\ \A x \in DOMAIN m : x # key[n] => g[x] = m[x]
    BY DEF Put
<1> HIDE DEF g
<1>2. /\ n \in 1..n /\ 1..(n - 1) \subseteq 1..n
      /\ \A i \in 1..n : i # n => i \in 1..(n - 1)
    OBVIOUS
<1>3. ASSUME NEW i \in 1..n, rows[i].table = table PROVE key[i] \in DOMAIN g
    BY <1>1, <1>2, <1>3 DEF MapOK
<1>4. ASSUME NEW x \in DOMAIN g
      PROVE  \E i \in 1..n : rows[i].table = table /\ key[i] = x /\ val[i] = g[x]
    <2>1. CASE x = key[n]
        BY <1>1, <1>2, <2>1
    <2>2. CASE x # key[n]
        <3>1. x \in DOMAIN m /\ g[x] = m[x]
            BY <1>1, <2>2
        <3>2. PICK i \in 1..(n - 1) : rows[i].table = table /\ key[i] = x /\ val[i] = m[x]
            BY <3>1 DEF MapOK
        <3>3. QED
            BY <1>2, <3>1, <3>2
    <2>3. QED
        BY <2>1, <2>2
<1>5. QED
    BY <1>3, <1>4 DEF MapOK, g

\* A row of another table makes no difference.
LEMMA MapStays ==
    ASSUME NEW m, NEW key, NEW val, NEW rows, NEW table, NEW n \in Nat, n # 0,
           MapOK(m, key, val, rows, table, n - 1), rows[n].table # table
    PROVE  MapOK(m, key, val, rows, table, n)
<1>1. /\ 1..(n - 1) \subseteq 1..n
      /\ \A i \in 1..n : i # n => i \in 1..(n - 1)
    OBVIOUS
<1>2. \A i \in 1..n : rows[i].table = table => i \in 1..(n - 1)
    BY <1>1
<1>3. QED
    BY <1>1, <1>2 DEF MapOK

\* For a table that no row had so far nothing is kept.
LEMMA MapStarts ==
    ASSUME NEW key, NEW val, NEW rows, NEW table, NEW n \in Nat,
           \A i \in 1..n : rows[i].table # table
    PROVE  MapOK(<<>>, key, val, rows, table, n)
<1>1. DOMAIN <<>> = {}
    OBVIOUS
<1>2. QED
    BY <1>1 DEF MapOK

-----------------------------------------------------------------------------
(* The best table after n rows.                                            *)

\* Rows of one owner, of the table asked for and of its upper case.
RowsOK(object, owner, rows) ==
    /\ Len(rows) \in Nat
    /\ \A i \in 1..Len(rows) : /\ rows[i].owner = owner
                               /\ rows[i].table \in {object, UpperCase[object]}
                               /\ rows[i].table # None

UpperKeys(rows) == [i \in 1..Len(rows) |-> UpperCase[rows[i].column]]
Names(rows) == [i \in 1..Len(rows) |-> rows[i].column]
Types(rows) == [i \in 1..Len(rows) |-> rows[i].type]

Listed(rows, table, n) == \E i \in 1..n : rows[i].table = table

\* The best table is one of those seen, the exact one if that was seen; its
\* maps hold its rows and nobody else's.
BestOK(object, owner, rows, best, n) ==
    /\ n = 0 => best = NoTable
    /\ n # 0 => best.table # None /\ best.owner = owner /\ Listed(rows, best.table, n)
    /\ best.exact = (best.table = object)
    /\ Listed(rows, object, n) => best.table = object
    /\ MapOK(best.names, UpperKeys(rows), Names(rows), rows, best.table, n)
    /\ MapOK(best.types, Names(rows), Types(rows), rows, best.table, n)

\* Before the first row.
LEMMA BestStarts ==
    ASSUME NEW object, NEW owner, NEW rows, object # None
    PROVE  BestOK(object, owner, rows, NoTable, 0)
<1>1. \A key, val : MapOK(<<>>, key, val, rows, None, 0)
    BY MapStarts
<1>2. ~Listed(rows, object, 0)
    BY DEF Listed
<1>3. /\ NoTable.table = None /\ NoTable.exact = FALSE
      /\ NoTable.names = <<>> /\ NoTable.types = <<>>
    BY DEF NoTable
<1>4. QED
    BY <1>1, <1>2, <1>3 DEF BestOK

\* A row of the table that is best already.
LEMMA BestContinues ==
    ASSUME NEW object, NEW owner, NEW rows, RowsOK(object, owner, rows),
           NEW best, NEW n \in 1..Len(rows), BestOK(object, owner, rows, best, n - 1),
           rows[n].table = best.table
    PROVE  BestOK(object, owner, rows, KeepBest(object, best, rows[n]), n)
<1> DEFINE row == rows[n]
           next == [table |-> best.table, owner |-> best.owner,
                    exact |-> best.exact \/ (row.table = object),
                    names |-> Put(best.names, UpperCase[row.column], row.column),
                    types |-> Put(best.types, row.column, row.type)]
<1>1. n \in Nat /\ n # 0 /\ Len(rows) \in Nat /\ n \in 1..n
    BY DEF RowsOK
<1>2. best.table # None
    BY DEF RowsOK
<1>3. KeepBest(object, best, row) = next
    BY <1>2 DEF KeepBest
<1>4. /\ next.table = best.table /\ next.owner = best.owner
      /\ next.exact = (best.exact \/ (row.table = object))
      /\ next.names = Put(best.names, UpperCase[row.column], row.column)
      /\ next.types = Put(best.types, row.column, row.type)
    OBVIOUS
<1> HIDE DEF next
<1>5. n - 1 # 0
    <2>1. ASSUME n - 1 = 0 PROVE FALSE
        BY <1>2, <2>1 DEF BestOK, NoTable
    <2>2. QED
        BY <2>1
<1>6. next.table # None /\ next.owner = owner
    BY <1>2, <1>4, <1>5 DEF BestOK
<1>7. Listed(rows, next.table, n)
    BY <1>1, <1>4 DEF Listed
<1>8. next.exact = (next.table = object)
    BY <1>4 DEF BestOK
<1>9. Listed(rows, object, n) => next.table = object
    <2>1. \A i \in 1..n : i # n => i \in 1..(n - 1)
        OBVIOUS
    <2>2. QED
        BY <1>4, <2>1 DEF BestOK, Listed
<1>10. /\ UpperKeys(rows)[n] = UpperCase[row.column]
       /\ Names(rows)[n] = row.column /\ Types(rows)[n] = row.type
    BY DEF UpperKeys, Names, Types
<1>11. /\ MapOK(best.names, UpperKeys(rows), Names(rows), rows, best.table, n - 1)
       /\ MapOK(best.types, Names(rows), Types(rows), rows, best.table, n - 1)
    BY DEF BestOK
<1>12. /\ MapOK(next.names, UpperKeys(rows), Names(rows), rows, next.table, n)
       /\ MapOK(next.types, Names(rows), Types(rows), rows, next.table, n)
    <2> HIDE DEF row
    <2>1. row.table = best.table /\ rows[n].table = best.table
        BY DEF row
    <2>2. MapOK(Put(best.names, UpperKeys(rows)[n], Names(rows)[n]), UpperKeys(rows), Names(rows),
                rows, best.table, n)
        BY <1>1, <1>11, <2>1, MapGrows
    <2>3. MapOK(Put(best.types, Names(rows)[n], Types(rows)[n]), Names(rows), Types(rows),
                rows, best.table, n)
        BY <1>1, <1>11, <2>1, MapGrows
    <2>4. QED
        BY <1>4, <1>10, <2>2, <2>3
<1>13. QED
    BY <1>1, <1>3, <1>6, <1>7, <1>8, <1>9, <1>12 DEF BestOK

\* A row of a table that loses.
LEMMA BestRemains ==
    ASSUME NEW object, NEW owner, NEW rows, RowsOK(object, owner, rows),
           NEW best, NEW n \in 1..Len(rows), BestOK(object, owner, rows, best, n - 1),
           n # 1, rows[n].table # best.table, rows[n].table # object
    PROVE  BestOK(object, owner, rows, KeepBest(object, best, rows[n]), n)
<1>1. n \in Nat /\ n # 0 /\ n - 1 # 0
    BY DEF RowsOK
<1>2. best.table # None
    BY <1>1 DEF BestOK
<1>3. KeepBest(object, best, rows[n]) = best
    BY <1>2 DEF KeepBest
<1>4. 1..(n - 1) \subseteq 1..n /\ \A i \in 1..n : i # n => i \in 1..(n - 1)
    OBVIOUS
<1>5. Listed(rows, best.table, n)
    BY <1>1, <1>4 DEF BestOK, Listed
<1>6. Listed(rows, object, n) => best.table = object
    BY <1>4 DEF BestOK, Listed
<1>7. /\ MapOK(best.names, UpperKeys(rows), Names(rows), rows, best.table, n)
      /\ MapOK(best.types, Names(rows), Types(rows), rows, best.table, n)
    <2>1. /\ MapOK(best.names, UpperKeys(rows), Names(rows), rows, best.table, n - 1)
          /\ MapOK(best.types, Names(rows), Types(rows), rows, best.table, n - 1)
        BY DEF BestOK
    <2>2. QED
        BY <1>1, <2>1, MapStays
<1>8. QED
    BY <1>1, <1>3, <1>5, <1>6, <1>7 DEF BestOK

\* The first row, or the first one of the exact table, starts over.
LEMMA BestSwitches ==
    ASSUME NEW object, NEW owner, NEW rows, RowsOK(object, owner, rows),
           NEW best, NEW n \in 1..Len(rows), BestOK(object, owner, rows, best, n - 1),
           n = 1 \/ (rows[n].table = object /\ rows[n].table # best.table)
    PROVE  BestOK(object, owner, rows, KeepBest(object, best, rows[n]), n)
<1> DEFINE row == rows[n]
           next == [table |-> row.table, owner |-> row.owner,
                    exact |-> best.exact \/ (row.table = object),
                    names |-> Put(<<>>, UpperCase[row.column], row.column),
                    types |-> Put(<<>>, row.column, row.type)]
<1>1. n \in Nat /\ n # 0 /\ Len(rows) \in Nat /\ n \in 1..n
    BY DEF RowsOK
<1>2. /\ best.table # row.table
      /\ best.table = None \/ (row.table = object /\ ~best.exact)
    <2>1. CASE n = 1
        <3>1. best = NoTable
            BY <2>1 DEF BestOK
        <3>2. QED
            BY <3>1 DEF NoTable, RowsOK
    <2>2. CASE n # 1
        BY <2>2 DEF BestOK
    <2>3. QED
        BY <2>1, <2>2
<1>3. KeepBest(object, best, row) = next
    <2>1. best.table = None \/ (row.table = object /\ ~best.exact /\ row.table # best.table)
        BY <1>2
    <2>2. NoTable.names = <<>> /\ NoTable.types = <<>>
        BY DEF NoTable
    <2> HIDE DEF row
    <2>3. QED
        BY <2>1, <2>2 DEF KeepBest
<1>4. /\ next.table = row.table /\ next.owner = row.owner
      /\ next.exact = (best.exact \/ (row.table = object))
      /\ next.names = Put(<<>>, UpperCase[row.column], row.column)
      /\ next.types = Put(<<>>, row.column, row.type)
    OBVIOUS
<1> HIDE DEF next
<1>5. next.table # None /\ next.owner = owner
    BY <1>4 DEF RowsOK
<1>6. Listed(rows, next.table, n)
    BY <1>1, <1>4 DEF Listed
<1>7. ~best.exact
    <2>1. CASE n = 1
        BY <2>1 DEF BestOK, NoTable
    <2>2. CASE n # 1
        BY <2>2 DEF BestOK
    <2>3. QED
        BY <2>1, <2>2
<1>8. next.exact = (next.table = object)
    BY <1>4, <1>7
<1>9. Listed(rows, object, n) => next.table = object
    <2>1. CASE n = 1
        BY <1>4, <2>1 DEF Listed
    <2>2. CASE n # 1
        BY <1>4, <2>2
    <2>3. QED
        BY <2>1, <2>2
<1>10. \A i \in 1..(n - 1) : rows[i].table # row.table
    <2>1. CASE n = 1
        BY <2>1
    <2>2. CASE n # 1
        BY <2>2 DEF BestOK, Listed
    <2>3. QED
        BY <2>1, <2>2
<1>11. /\ UpperKeys(rows)[n] = UpperCase[row.column]
       /\ Names(rows)[n] = row.column /\ Types(rows)[n] = row.type
    BY DEF UpperKeys, Names, Types
<1>12. /\ MapOK(next.names, UpperKeys(rows), Names(rows), rows, next.table, n)
       /\ MapOK(next.types, Names(rows), Types(rows), rows, next.table, n)
    <2>1. n - 1 \in Nat
        BY <1>1
    <2>2. /\ MapOK(<<>>, UpperKeys(rows), Names(rows), rows, row.table, n - 1)
          /\ MapOK(<<>>, Names(rows), Types(rows), rows, row.table, n - 1)
        BY <1>10, <2>1, MapStarts
    <2> HIDE DEF row
    <2>3. rows[n].table = row.table
        BY DEF row
    <2>4. MapOK(Put(<<>>, UpperKeys(rows)[n], Names(rows)[n]), UpperKeys(rows), Names(rows),
                rows, row.table, n)
        BY <1>1, <2>2, <2>3, MapGrows
    <2>5. MapOK(Put(<<>>, Names(rows)[n], Types(rows)[n]), Names(rows), Types(rows),
                rows, row.table, n)
        BY <1>1, <2>2, <2>3, MapGrows
    <2>6. QED
        BY <1>4, <1>11, <2>4, <2>5
<1>13. QED
    BY <1>1, <1>3, <1>5, <1>6, <1>8, <1>9, <1>12 DEF BestOK

\* The loop keeps all of this, whatever the order of the rows: otherwise take
\* the first row after which it fails.
LEMMA BestHolds ==
    ASSUME NEW object, NEW owner, NEW rows, RowsOK(object, owner, rows), object # None
    PROVE  BestOK(object, owner, rows, BestUpTo(object, rows)[Len(rows)], Len(rows))
<1> DEFINE best == BestUpTo(object, rows)
           bad == {n \in 0..Len(rows) : ~BestOK(object, owner, rows, best[n], n)}
<1>1. Len(rows) \in Nat
    BY DEF RowsOK
<1>2. Computes(object, rows, best)
    BY <1>1, BestComputes
<1> HIDE DEF best
<1>3. bad = {}
    <2> SUFFICES ASSUME bad # {} PROVE FALSE
        OBVIOUS
    <2>1. PICK n \in bad : \A i \in bad : n <= i
        <3>1. bad \subseteq Nat
            BY <1>1
        <3> HIDE DEF bad
        <3>2. QED
            BY <3>1, Smallest
    <2>2. n \in 0..Len(rows) /\ ~BestOK(object, owner, rows, best[n], n)
        OBVIOUS
    <2>3. CASE n = 0
        BY <1>2, <2>2, <2>3, BestStarts DEF Computes
    <2>4. CASE n # 0
        <3>1. n \in 1..Len(rows) /\ n - 1 \in 0..Len(rows) /\ n - 1 \notin bad
            BY <1>1, <2>1, <2>2, <2>4
        <3>2. BestOK(object, owner, rows, best[n - 1], n - 1)
            BY <3>1
        <3>3. best[n] = KeepBest(object, best[n - 1], rows[n])
            BY <1>2, <3>1 DEF Computes
        <3> HIDE DEF bad
        <3>4. CASE n # 1 /\ rows[n].table = best[n - 1].table
            BY <2>2, <3>1, <3>2, <3>3, <3>4, BestContinues
        <3>5. CASE n # 1 /\ rows[n].table # best[n - 1].table /\ rows[n].table # object
            BY <2>2, <3>1, <3>2, <3>3, <3>5, BestRemains
        <3>6. CASE n = 1 \/ (rows[n].table = object /\ rows[n].table # best[n - 1].table)
            BY <2>2, <3>1, <3>2, <3>3, <3>6, BestSwitches
        <3>7. QED
            BY <3>4, <3>5, <3>6
    <2>5. QED
        BY <2>3, <2>4
<1>4. Len(rows) \in 0..Len(rows)
    BY <1>1
<1>5. BestOK(object, owner, rows, best[Len(rows)], Len(rows))
    BY <1>3, <1>4
<1>6. QED
    BY <1>5 DEF best

\* The rows that bind reads are all of those that match.
LEMMA AllRows ==
    ASSUME NEW S, IsFiniteSet(S), NEW rows \in SetToSeqs(S)
    PROVE  /\ Len(rows) \in Nat
           /\ \A i \in 1..Len(rows) : rows[i] \in S
           /\ \A s \in S : \E i \in 1..Len(rows) : rows[i] = s
<1> DEFINE k == Cardinality(S)
<1>1. k \in Nat
    BY FS_CardinalityType
<1>2. rows \in [1..k -> S] /\ \A i, j \in 1..k : i # j => rows[i] # rows[j]
    BY DEF SetToSeqs
<1>3. Cardinality(1..k) = k
    <2>1. k \in Int /\ 1 \in Int
        BY <1>1
    <2>2. QED
        BY <1>1, <2>1, FS_Interval
<1> HIDE DEF k
<1>4. Len(rows) = k
    BY <1>1, <1>2
<1>5. rows \in Injection(1..k, S)
    BY <1>2 DEF Injection, IsInjective
<1>6. rows \in Surjection(1..k, S)
    BY <1>3, <1>5, FS_Injection DEF k
<1>7. QED
    BY <1>1, <1>2, <1>4, <1>6 DEF Surjection

-----------------------------------------------------------------------------
(* What bind hands to the sink.                                            *)

\* A table is described by rows of the dictionary: the one meant, its names
\* under their upper case and its types under its names.
Describes(best) ==
    /\ best.table = Meant /\ best.owner = Owner(request)
    /\ \A row \in RowsOf(Meant) : /\ UpperCase[row.column] \in DOMAIN best.names
                                 /\ row.column \in DOMAIN best.types
    /\ \A u \in DOMAIN best.names : \E row \in RowsOf(Meant) :
           UpperCase[row.column] = u /\ row.column = best.names[u]
    /\ \A name \in DOMAIN best.types : \E row \in RowsOf(Meant) :
           row.column = name /\ row.type = best.types[name]

\* What is asked for, and what the dictionary holds.
LEMMA Asked ==
    ASSUME request \in Requests, dictionary \in Dictionaries
    PROVE  /\ request.object \in Identifiers /\ UpperCase[request.object] \in Identifiers
           /\ request.schema \in Identifiers \cup {None}
           /\ request.columns \in Seq(Identifiers)
           /\ request.columns \in [Columns -> Identifiers]
           /\ \A i \in Columns : UpperCase[request.columns[i]] \in Identifiers
           /\ IsFiniteSet(dictionary)
           /\ \A row \in dictionary : /\ row.table \in Identifiers /\ row.column \in Identifiers
                                      /\ UpperCase[row.column] \in Identifiers
<1>1. request \in [schema : Identifiers \cup {None}, object : Identifiers,
                    columns : Seq(Identifiers), current : Identifiers]
    BY WriteAssumption
<1>2. /\ IsFiniteSet(dictionary)
      /\ dictionary \subseteq [owner : Identifiers, table : Identifiers, id : Nat,
                              column : Identifiers, type : STRING]
    BY WriteAssumption
<1>3. UpperCase \in [Identifiers -> Identifiers]
    BY WriteAssumption
<1>4. request.columns \in [Columns -> Identifiers]
    <2>1. request.columns \in Seq(Identifiers)
        BY <1>1
    <2>2. request.columns \in [1..Len(request.columns) -> Identifiers]
        BY <2>1, LenProperties
    <2>3. QED
        BY <2>2 DEF Columns
<1>5. QED
    BY <1>1, <1>2, <1>3, <1>4

\* If a row matches, the loop ends with the table meant.
LEMMA BestDescribes ==
    ASSUME request \in Requests, dictionary \in Dictionaries,
           NEW rows \in SetToSeqs(Matches(request)),
           NEW best, best = BestUpTo(request.object, rows)[Len(rows)]
    PROVE  best = NoTable \/ Describes(best)
<1> DEFINE object == request.object
           owner == Owner(request)
           L == Len(rows)
<1>1. IsFiniteSet(Matches(request))
    BY Asked, FS_Subset DEF Matches
<1>2. /\ Len(rows) \in Nat
      /\ \A i \in 1..Len(rows) : rows[i] \in Matches(request)
      /\ \A s \in Matches(request) : \E i \in 1..Len(rows) : rows[i] = s
    BY <1>1, AllRows
<1>3. object # None /\ \A row \in dictionary : row.table # None
    BY Asked, WriteAssumption
<1>4. RowsOK(object, owner, rows)
    BY <1>2, <1>3 DEF RowsOK, Matches
<1>5. BestOK(object, owner, rows, best, L)
    <2> HIDE DEF object, owner
    <2>1. BestOK(object, owner, rows, BestUpTo(object, rows)[Len(rows)], Len(rows))
        BY <1>3, <1>4, BestHolds
    <2>2. QED
        BY <2>1 DEF object
<1>6. CASE L = 0
    BY <1>5, <1>6 DEF BestOK
<1>7. CASE L # 0
    <2>1. best.owner = owner /\ Listed(rows, best.table, L)
        BY <1>5, <1>7 DEF BestOK
    <2>2. \A row \in dictionary : row.owner = owner /\ row.table = object => row \in Matches(request)
        BY DEF Matches
    <2>3. best.table = Meant
        <3>1. CASE RowsOf(object) # {}
            <4>1. Listed(rows, object, L)
                BY <1>2, <2>2, <3>1 DEF RowsOf, Listed
            <4>2. QED
                BY <1>5, <3>1, <4>1 DEF BestOK, Meant
        <3>2. CASE RowsOf(object) = {}
            <4>1. PICK i \in 1..L : rows[i].table = best.table
                BY <2>1 DEF Listed
            <4>2. /\ rows[i] \in dictionary /\ rows[i].owner = owner
                  /\ rows[i].table \in {object, UpperCase[object]}
                BY <1>2, <4>1 DEF Matches
            <4>3. rows[i].table # object
                BY <3>2, <4>2 DEF RowsOf
            <4>4. QED
                BY <3>2, <4>1, <4>2, <4>3 DEF Meant
        <3>3. QED
            BY <3>1, <3>2
    <2>4. Meant \in {object, UpperCase[object]}
        BY DEF Meant
    <2>5. \A i \in 1..L : rows[i].table = Meant => rows[i] \in RowsOf(Meant)
        BY <1>2 DEF RowsOf, Matches
    <2>6. \A row \in RowsOf(Meant) : \E i \in 1..L : rows[i] = row /\ rows[i].table = Meant
        BY <1>2, <2>4 DEF RowsOf, Matches
    <2>7. /\ MapOK(best.names, UpperKeys(rows), Names(rows), rows, Meant, L)
          /\ MapOK(best.types, Names(rows), Types(rows), rows, Meant, L)
        BY <1>5, <2>3 DEF BestOK
    <2>8. \A i \in 1..L : /\ UpperKeys(rows)[i] = UpperCase[rows[i].column]
                          /\ Names(rows)[i] = rows[i].column /\ Types(rows)[i] = rows[i].type
        BY DEF UpperKeys, Names, Types
    <2> HIDE DEF L, object, owner
    <2>9. \A row \in RowsOf(Meant) : /\ UpperCase[row.column] \in DOMAIN best.names
                                   /\ row.column \in DOMAIN best.types
        BY <2>6, <2>7, <2>8 DEF MapOK
    <2>10. \A u \in DOMAIN best.names : \E row \in RowsOf(Meant) :
               UpperCase[row.column] = u /\ row.column = best.names[u]
        BY <2>5, <2>7, <2>8 DEF MapOK
    <2>11. \A name \in DOMAIN best.types : \E row \in RowsOf(Meant) :
               row.column = name /\ row.type = best.types[name]
        BY <2>5, <2>7, <2>8 DEF MapOK
    <2>12. QED
        BY <2>1, <2>3, <2>9, <2>10, <2>11 DEF Describes, owner
<1>8. QED
    BY <1>6, <1>7

\* A target whose columns are identifiers; one that is described is the table
\* meant, and its columns are those rows of the table that are like them.
Picked(x) ==
    /\ x.columns \in [Columns -> Identifiers] /\ DOMAIN x.types = Columns
    /\ x.described =>
          /\ x.object = Meant
          /\ x.schema = IF request.schema = None THEN Owner(request) ELSE request.schema
          /\ \A i \in Columns : Like(i) # {} =>
                \E row \in Like(i) : row.column = x.columns[i] /\ row.type = x.types[i]

\* The name that a column of a described table gets is one of its rows'.
LEMMA ActualNameDescribes ==
    ASSUME request \in Requests, dictionary \in Dictionaries, NEW best, Describes(best),
           NEW i \in Columns, NEW actual, actual = ActualName(best, request.columns[i])
    PROVE  /\ actual # None => actual \in Identifiers
           /\ Like(i) # {} => actual # None /\ \E row \in Like(i) :
                 row.column = actual /\ row.type = best.types[actual]
<1> DEFINE name == request.columns[i]
<1>1. name \in Identifiers /\ None \notin Identifiers
    BY Asked, WriteAssumption
<1>2. \A row \in RowsOf(Meant) : row.column \in Identifiers
    BY Asked DEF RowsOf
<1>3. CASE UpperCase[name] \in DOMAIN best.names
    <2>1. actual = best.names[UpperCase[name]]
        BY <1>3 DEF ActualName
    <2>2. PICK row \in RowsOf(Meant) : UpperCase[row.column] = UpperCase[name] /\ row.column = actual
        BY <1>3, <2>1 DEF Describes
    <2>3. actual \in Identifiers
        BY <1>2, <2>2
    <2>4. actual \in DOMAIN best.types
        BY <2>2 DEF Describes
    <2>5. PICK twin \in RowsOf(Meant) : twin.column = actual /\ twin.type = best.types[actual]
        BY <2>4 DEF Describes
    <2>6. twin \in Like(i)
        BY <2>2, <2>5 DEF Like
    <2>7. QED
        BY <1>1, <2>3, <2>5, <2>6
<1>4. CASE UpperCase[name] \notin DOMAIN best.names
    <2>1. actual \in {name, None}
        BY <1>4 DEF ActualName
    <2>2. Like(i) = {}
        BY <1>4 DEF Like, Describes
    <2>3. QED
        BY <1>1, <2>1, <2>2
<1>5. QED
    BY <1>3, <1>4

\* What bind makes of the best table.
LEMMA BoundPicked ==
    ASSUME request \in Requests, dictionary \in Dictionaries,
           NEW best, best = NoTable \/ Describes(best)
    PROVE  Picked(Bound(request, best))
<1> DEFINE name(i) == request.columns[i]
           actual == [i \in Columns |-> ActualName(best, name(i))]
           x == Bound(request, best)
<1>1. /\ x.described = (best.table # None)
      /\ x.schema = IF request.schema = None THEN best.owner ELSE request.schema
      /\ x.object = IF best.table = None THEN request.object ELSE best.table
      /\ x.columns = [i \in Columns |-> IF actual[i] = None THEN name(i) ELSE actual[i]]
      /\ x.types = [i \in Columns |-> IF actual[i] = None THEN "VARCHAR2" ELSE best.types[actual[i]]]
    BY DEF Bound, Columns
<1>2. \A i \in Columns : name(i) \in Identifiers
    BY Asked
<1> HIDE DEF x
<1>3. CASE best = NoTable
    <2>1. best.table = None /\ best.names = <<>> /\ best.types = <<>>
        BY <1>3 DEF NoTable
    <2>2. \A i \in Columns : actual[i] = None
        BY <2>1 DEF ActualName
    <2>3. x.columns \in [Columns -> Identifiers] /\ DOMAIN x.types = Columns /\ ~x.described
        <3> HIDE DEF actual
        <3>1. QED
            BY <1>1, <1>2, <2>1, <2>2
    <2>4. QED
        BY <2>3 DEF Picked, x
<1>4. CASE Describes(best)
    <2>0. \A i \in Columns : actual[i] # None => actual[i] \in Identifiers
        BY <1>4, ActualNameDescribes
    <2>1. ASSUME NEW i \in Columns, Like(i) # {}
          PROVE  actual[i] # None /\ \E row \in Like(i) :
                     row.column = actual[i] /\ row.type = best.types[actual[i]]
        BY <1>4, <2>1, ActualNameDescribes
    <2> HIDE DEF actual
    <2>c. x.columns = [i \in Columns |-> IF actual[i] = None THEN name(i) ELSE actual[i]]
        BY <1>1
    <2>t. x.types = [i \in Columns |-> IF actual[i] = None THEN "VARCHAR2" ELSE best.types[actual[i]]]
        BY <1>1
    <2>n. \A i \in Columns : (IF actual[i] = None THEN name(i) ELSE actual[i]) \in Identifiers
        BY <1>2, <2>0
    <2> HIDE DEF name
    <2>2. x.columns \in [Columns -> Identifiers] /\ DOMAIN x.types = Columns
        BY <2>c, <2>t, <2>n
    <2>3. best.table = Meant /\ best.owner = Owner(request)
        BY <1>4 DEF Describes
    <2>4. x.described => x.object = Meant
        BY <1>1, <2>3
    <2>5. x.schema = IF request.schema = None THEN Owner(request) ELSE request.schema
        BY <1>1, <2>3
    <2>6. \A i \in Columns : Like(i) # {} =>
              \E row \in Like(i) : row.column = x.columns[i] /\ row.type = x.types[i]
        <3> TAKE i \in Columns
        <3> HAVE Like(i) # {}
        <3>1. actual[i] # None
            BY <2>1
        <3>2. x.columns[i] = actual[i] /\ x.types[i] = best.types[actual[i]]
            BY <2>c, <2>t, <3>1
        <3>3. QED
            BY <2>1, <3>2
    <2>7. QED
        BY <2>2, <2>4, <2>5, <2>6 DEF Picked, x
<1>5. QED
    BY <1>3, <1>4

-----------------------------------------------------------------------------

\* Bind has picked the target; it does not change afterwards.
BindInv ==
    /\ request \in Requests /\ dictionary \in Dictionaries
    /\ Picked(target)

\* Before bind looks, the target is what the user wrote.
LEMMA InitBindInv == Init => BindInv
    BY BoundPicked DEF Init, BindInv

\* As long as request, dictionary and target stay, so does what was picked.
LEMMA PickedStays ==
    ASSUME NEW x, Picked(x), UNCHANGED <<request, dictionary>>, target' = x
    PROVE  Picked(target)'
    BY DEF Picked, Columns, Meant, RowsOf, Owner, Like

\* Only bind changes the target.
LEMMA NextBindInv == BindInv /\ [Next]_vars => BindInv'
<1> SUFFICES ASSUME BindInv, [Next]_vars PROVE BindInv'
    OBVIOUS
<1>1. UNCHANGED <<request, dictionary>> /\ Picked(target')
    <2>1. CASE OracleWriteBind
        <3>1. UNCHANGED <<request, dictionary>>
            BY <2>1 DEF OracleWriteBind
        <3>2. CASE target' = Bound(request, NoTable)
            BY <3>1, <3>2, BoundPicked DEF BindInv
        <3>3. ASSUME NEW rows \in SetToSeqs(Matches(request)),
                     target' = Bound(request, BestUpTo(request.object, rows)[Len(rows)])
              PROVE  Picked(target')
            <4> DEFINE best == BestUpTo(request.object, rows)[Len(rows)]
            <4>1. best = NoTable \/ Describes(best)
                BY BestDescribes DEF BindInv
            <4> HIDE DEF best
            <4>2. Picked(Bound(request, best))
                BY <4>1, BoundPicked DEF BindInv
            <4>3. QED
                BY <3>3, <4>2 DEF best
        <3>4. QED
            BY <2>1, <3>1, <3>2, <3>3 DEF OracleWriteBind
    <2>2. CASE UNCHANGED <<request, dictionary, target>>
        BY <2>2 DEF BindInv
    <2>3. QED
        BY <2>1, <2>2 DEF Next, vars, Sink, bindVars, Fail, OracleWriteFinalize, Ended
<1>2. Picked(target)'
    BY <1>1, PickedStays
<1>3. QED
    BY <1>1, <1>2 DEF BindInv

\* A table whose name is exactly the one asked for wins over the upper-case
\* one, in whatever order the rows of the dictionary come
\* (oracle_write.cpp:114).
THEOREM ExactTable == Spec => []ExactTableWins
<1>1. BindInv => ExactTableWins
    BY DEF BindInv, Picked, ExactTableWins
<1>2. QED
    BY InitBindInv, NextBindInv, <1>1, PTL DEF Spec

\* Each copied column goes to a column of the table meant that is like it, and
\* is bound and converted as that column's type wants, for any dictionary, any
\* columns that differ in case only and any like-named table in front or
\* behind (oracle_write.cpp:155, 255).
THEOREM ColumnsMatch == Spec => []ColumnsMatchTarget
<1>1. BindInv => ColumnsMatchTarget
    BY DEF BindInv, Picked, ColumnsMatchTarget
<1>2. QED
    BY InitBindInv, NextBindInv, <1>1, PTL DEF Spec

\* The INSERT names table and columns as the dictionary has them
\* (oracle_write.cpp:163).
THEOREM InsertValid == Spec => []DescribedInsertIsValid
<1>1. BindInv => DescribedInsertIsValid
    <2> SUFFICES ASSUME BindInv, target.described,
                        request.schema = None \/ request.schema = UpperCase[request.schema],
                        \A i \in Columns : Like(i) # {},
                        NEW i \in Columns
                 PROVE  \E row \in dictionary :
                            /\ row.owner = (IF target.schema = None THEN request.current
                                            ELSE target.schema)
                            /\ row.table = target.object
                            /\ row.column = target.columns[i]
        BY DEF DescribedInsertIsValid, InsertIsValid
    <2>1. PICK row \in Like(i) : row.column = target.columns[i]
        BY DEF BindInv, Picked
    <2>2. row \in dictionary /\ row.owner = Owner(request) /\ row.table = Meant
        BY DEF Like, RowsOf
    <2>3. /\ target.object = Meant
          /\ target.schema = IF request.schema = None THEN Owner(request) ELSE request.schema
        BY DEF BindInv, Picked
    <2>4. Owner(request) = IF target.schema = None THEN request.current ELSE target.schema
        BY <2>3 DEF Owner
    <2>5. QED
        BY <2>1, <2>2, <2>3, <2>4
<1>2. QED
    BY InitBindInv, NextBindInv, <1>1, PTL DEF Spec

-----------------------------------------------------------------------------

\* Where COPY is, and what the indicator and length arrays hold.
CellsOK ==
    /\ stage \in {"bind", "sink", "done", "failed", "too large"}
    /\ cells \in [Columns -> [1..MaxBatch -> Cells]]

\* The cells of a NULL and of a value.
LEMMA CellTypes ==
    /\ [indicator |-> 0, length |-> 0] \in Cells
    /\ [indicator |-> -1, length |-> 0] \in Cells
    /\ \A n \in Nat : [indicator |-> 0, length |-> n % LengthLimit] \in Cells
<1> DEFINE limit == LengthLimit
<1>1. limit \in Nat /\ limit > 0
    BY DEF LengthLimit
<1>2. Cells = [indicator : {0, -1}, length : 0..(limit - 1)]
    BY DEF Cells
<1> HIDE DEF limit
<1>3. 0 \in 0..(limit - 1) /\ \A n \in Nat : n % limit \in 0..(limit - 1)
    BY <1>1
<1>4. \A l \in 0..(limit - 1) : [indicator |-> 0, length |-> l] \in Cells
                               /\ [indicator |-> -1, length |-> l] \in Cells
    BY <1>2
<1>5. QED
    BY <1>3, <1>4 DEF limit

\* A length has 16 bits, whatever the value.
LEMMA FilledType ==
    ASSUME NEW values \in Values, NEW row, NEW cell \in Cells
    PROVE  Filled(values, row, cell) \in Cells
<1>1. CASE row \notin DOMAIN values
    BY <1>1 DEF Filled
<1>2. CASE row \in DOMAIN values /\ values[row] = Null
    BY <1>2, CellTypes DEF Filled
<1>3. CASE row \in DOMAIN values /\ values[row] # Null
    <2>1. values[row] \in Nat
        BY <1>3, MaxLengthBounds
    <2>2. Filled(values, row, cell) = [indicator |-> 0, length |-> values[row] % LengthLimit]
        BY Zenon, <1>3 DEF Filled
    <2>3. QED
        BY <2>1, <2>2, CellTypes
<1>4. QED
    BY <1>1, <1>2, <1>3

\* The first state.
LEMMA InitCells == Init => CellsOK
<1> SUFFICES ASSUME Init PROVE CellsOK
    OBVIOUS
<1>1. [indicator |-> 0, length |-> 0] \in Cells
    BY CellTypes
<1>2. QED
    BY <1>1 DEF Init, CellsOK

\* A batch overwrites cells with cells.
LEMMA NextCells == CellsOK /\ BindInv /\ [Next]_vars => CellsOK'
<1> SUFFICES ASSUME CellsOK, BindInv, [Next]_vars PROVE CellsOK'
    OBVIOUS
<1>1. ASSUME NEW data \in Chunks, Sink(data) PROVE CellsOK'
    <2>1. Columns' = Columns
        BY <1>1 DEF Sink, bindVars, Columns
    <2>2. cells' = cells \/ cells' = FilledCells(data)
        BY <1>1 DEF Sink
    <2>3. FilledCells(data) \in [Columns -> [1..MaxBatch -> Cells]]
        <3>1. \A c \in Columns : \A r \in 1..MaxBatch :
                  Filled(data[c], r, cells[c][r]) \in Cells
            BY ChunkColumns, FilledType DEF CellsOK
        <3>2. QED
            BY <3>1 DEF FilledCells
    <2>4. stage' \in {stage, "too large", "failed"}
        BY <1>1 DEF Sink
    <2>5. QED
        BY <2>1, <2>2, <2>3, <2>4 DEF CellsOK
<1>2. ASSUME UNCHANGED <<request, cells>>, stage' \in {stage, "sink", "done", "failed"}
      PROVE  CellsOK'
    BY <1>2 DEF CellsOK, Columns
<1>3. QED
    BY <1>1, <1>2 DEF Next, vars, OracleWriteBind, Fail, OracleWriteFinalize, Ended

\* The target, the buffers, the binds and the cells always have one entry per
\* column of the query, of its type: bind never picks a column whose name is
\* missing, and no length or indicator leaves its range
\* (oracle_write.cpp:171, 409).
THEOREM WriteTypeCorrect == Spec => []TypeOK
<1>1. IInv /\ BindInv /\ CellsOK => TypeOK
    BY DEF IInv, BoundOK, BindInv, Picked, CellsOK, TypeOK
<1>2. QED
    BY InitIInv, NextIInv, InitBindInv, NextBindInv, InitCells, NextCells, <1>1, PTL DEF Spec
=============================================================================
