--------------------------- MODULE SettingsProofs ---------------------------
(***************************************************************************)
(* What Config promises of the limit, for every peer.conf and machine.     *)
(***************************************************************************)
EXTENDS Settings, FiniteSetTheorems, TLAPS

\* What is left of a by a division by b is less than b.
LEMMA Division ==
  ASSUME NEW a \in Nat, NEW b \in Nat \ {0}
  PROVE  /\ a \div b \in Nat
         /\ b * (a \div b) <= a
         /\ a < b * (a \div b) + b
  BY Z3

\* Once read, the settings are the quotient and the threads it was made for; before
\* that nothing is loaded.
SplitInv ==
  /\ config \in {"reading", "loaded"} => /\ _threads_count = Threads
                                         /\ _thread_queue_size = Share
                                         /\ conf.queue_size = Absent \/ Threads # 0
  /\ config = "crashed" => Threads = 0

\* The number of threads is a number.
LEMMA ThreadsNat ==
  ASSUME TypeOK
  PROVE  Threads \in Nat /\ (Threads = 0 => hardware = 0)
  BY SettingsAssumption DEF TypeOK, Threads, Conf, Setting, Absent

\* The limit of a thread is a number: the division of the code is that of the natural numbers.
LEMMA ShareNat ==
  ASSUME TypeOK, conf.queue_size = Absent \/ Threads # 0
  PROVE  Share \in Nat
  <1>1. CASE conf.queue_size = Absent BY <1>1 DEF Share
  <1>2. CASE conf.queue_size # Absent
    <2>1. conf.queue_size \in Nat
      BY <1>2, SettingsAssumption DEF TypeOK, Conf, Setting
    <2>2. Threads \in Nat \ {0}
      BY <1>2, ThreadsNat
    <2> QED BY <1>2, <2>1, <2>2, Division DEF Share
  <1> QED BY <1>1, <1>2

\* The types hold at the start.
LEMMA InitTypeOK == Init => TypeOK
  <1> SUFFICES ASSUME Init PROVE TypeOK
    OBVIOUS
  <1>1. lines \in Seq(Line)
    BY DEF Init, BoundedSeq, SeqOf
  <1>2. 0 \in 0..Len(lines)
    BY <1>1
  <1>3. Blank \in Line
    BY DEF Line
  <1> QED BY <1>1, <1>2, <1>3, SettingsAssumption DEF Init, TypeOK

\* Every step keeps them.
LEMMA StepTypeOK ==
  ASSUME TypeOK, [Next]_vars
  PROVE  TypeOK'
  <1>1. CASE LoadConfigFails BY <1>1 DEF LoadConfigFails, TypeOK, files
  <1>2. CASE LoadConfigCrashes BY <1>2 DEF LoadConfigCrashes, TypeOK, files
  <1>3. CASE LoadConfig BY <1>3, ThreadsNat, ShareNat DEF LoadConfig, TypeOK, files
  <1>4. CASE ReadLine
    <2>1. lines[at + 1] \in Line /\ at + 1 \in 0..Len(lines)
      BY <1>4 DEF ReadLine, TypeOK
    <2>2. network' \in Line
      BY <1>4, <2>1 DEF ReadLine, TypeOK
    <2>3. nodes' \in Seq(Address)
      BY <1>4, <2>1 DEF ReadLine, TypeOK
    <2> QED BY <1>4, <2>1, <2>2, <2>3 DEF ReadLine, TypeOK, files
  <1>5. CASE Check BY <1>5 DEF Check, TypeOK, files
  <1>6. CASE UNCHANGED vars BY <1>6 DEF vars, TypeOK
  <1> QED BY <1>1, <1>2, <1>3, <1>4, <1>5, <1>6 DEF Next, Finished

\* Every step keeps what is known of the division.
LEMMA StepSplitInv ==
  ASSUME TypeOK, SplitInv, [Next]_vars
  PROVE  SplitInv'
  <1> USE DEF SplitInv, Threads, Share
  <1>1. CASE LoadConfigFails BY <1>1 DEF LoadConfigFails, files
  <1>2. CASE LoadConfigCrashes BY <1>2 DEF LoadConfigCrashes, files, TypeOK
  <1>3. CASE LoadConfig BY <1>3 DEF LoadConfig, files
  <1>4. CASE ReadLine BY <1>4 DEF ReadLine, files
  <1>5. CASE Check BY <1>5 DEF Check, files
  <1>6. CASE UNCHANGED vars BY <1>6 DEF vars
  <1> QED BY <1>1, <1>2, <1>3, <1>4, <1>5, <1>6 DEF Next, Finished

\* Both together are inductive.
LEMMA SettingsInductive == Spec => [](TypeOK /\ SplitInv)
  <1>1. Init => SplitInv
    BY DEF Init, SplitInv
  <1>2. TypeOK /\ SplitInv /\ [Next]_vars => (TypeOK /\ SplitInv)'
    BY StepTypeOK, StepSplitInv
  <1> QED BY InitTypeOK, <1>1, <1>2, PTL DEF Spec

-----------------------------------------------------------------------------

\* Only addresses become nodes, and no limit is negative.
THEOREM SettingsTypeCorrect == Spec => []TypeOK
  BY SettingsInductive, PTL

\* All threads' limits together fall short of queue_size by less than one each: with
\* one transaction more per thread (Worker's SendQueueBound) the whole peer stays
\* within queue_size plus the number of its threads.
THEOREM LimitIsShared == Spec => []ShareOfLimit
  <1>1. TypeOK /\ SplitInv => ShareOfLimit
    <2> SUFFICES ASSUME TypeOK, SplitInv, config = "loaded", conf.queue_size # Absent
                 PROVE  /\ _threads_count * _thread_queue_size <= conf.queue_size
                        /\ conf.queue_size < _threads_count * _thread_queue_size + _threads_count
      BY DEF ShareOfLimit
    <2>1. conf.queue_size \in Nat
      BY SettingsAssumption DEF TypeOK, Conf, Setting
    <2>2. _threads_count \in Nat \ {0}
      BY ThreadsNat DEF SplitInv
    <2>3. _thread_queue_size = conf.queue_size \div _threads_count
      BY DEF SplitInv, Share
    <2> QED BY <2>1, <2>2, <2>3, Division
  <1> QED BY SettingsInductive, <1>1, PTL

\* threads = 0 is safe wherever the machine knows how many cores it has.
THEOREM NoDivisionByZero == Spec => []CrashesOnlyWithoutCores
  <1>1. TypeOK /\ SplitInv => CrashesOnlyWithoutCores
    BY ThreadsNat DEF SplitInv, CrashesOnlyWithoutCores
  <1> QED BY SettingsInductive, <1>1, PTL

\* For every queue_size, every number of threads and every machine, the division of the
\* limit is the division of natural numbers.
THEOREM LimitIsDivided == Spec => []LimitDivided
  <1>1. ShareOfLimit /\ CrashesOnlyWithoutCores => LimitDivided
    BY DEF LimitDivided
  <1> QED BY LimitIsShared, NoDivisionByZero, <1>1, PTL


-----------------------------------------------------------------------------
(* The network file                                                        *)

\* Nodes holds the addresses behind line k, in the order of the lines read.
NodesOf(k) == /\ Len(nodes) = Cardinality(AddressesIn(k, at))
              /\ \A j \in AddressesIn(k, at) : nodes[Cardinality(AddressesIn(k, j))] = lines[j]

\* Up to the name all lines read are empty; from there on NodesOf.
ReadInv ==
  /\ network = Blank => nodes = << >> /\ \A j \in 1..at : lines[j] = Blank
  /\ network # Blank => \E k \in 1..at : /\ network = lines[k]
                                         /\ \A j \in 1..k - 1 : lines[j] = Blank
                                         /\ NodesOf(k)
  /\ config = "loaded" => at = Len(lines) /\ network # Blank

\* There are finitely many of them.
LEMMA AddressesFinite ==
  ASSUME NEW k \in Nat, NEW n \in Nat
  PROVE  IsFiniteSet(AddressesIn(k, n)) /\ Cardinality(AddressesIn(k, n)) \in Nat
  <1>1. IsFiniteSet(k + 1..n)
    BY FS_Interval
  <1>2. AddressesIn(k, n) \in SUBSET (k + 1..n)
    BY DEF AddressesIn
  <1> QED BY <1>1, <1>2, FS_Subset, FS_CardinalityType

\* One more line read adds its number, or nothing.
LEMMA AddressesGrow ==
  ASSUME NEW k \in Nat, NEW n \in Nat, k <= n
  PROVE  /\ lines[n + 1] \in Address =>
              /\ AddressesIn(k, n + 1) = AddressesIn(k, n) \cup {n + 1}
              /\ Cardinality(AddressesIn(k, n + 1)) = Cardinality(AddressesIn(k, n)) + 1
         /\ lines[n + 1] \notin Address => AddressesIn(k, n + 1) = AddressesIn(k, n)
  <1>1. CASE lines[n + 1] \in Address
    <2>1. AddressesIn(k, n + 1) = AddressesIn(k, n) \cup {n + 1}
      BY <1>1 DEF AddressesIn
    <2>2. n + 1 \notin AddressesIn(k, n)
      BY DEF AddressesIn
    <2>3. Cardinality(AddressesIn(k, n) \cup {n + 1}) = Cardinality(AddressesIn(k, n)) + 1
      BY <2>2, AddressesFinite, FS_AddElement
    <2> QED BY <1>1, <2>1, <2>3
  <1>2. CASE lines[n + 1] \notin Address
    BY <1>2 DEF AddressesIn
  <1> QED BY <1>1, <1>2

\* Behind the last line read nothing is counted.
LEMMA AddressesNone ==
  ASSUME NEW k \in Nat
  PROVE  AddressesIn(k, k) = {} /\ Cardinality(AddressesIn(k, k)) = 0
  <1>1. AddressesIn(k, k) = {}
    BY DEF AddressesIn
  <1> QED BY <1>1, FS_EmptySet

\* The nodes up to a line are as many as its place says, and there is one at least
\* when the line is an address.
LEMMA AddressesRank ==
  ASSUME NEW k \in Nat, NEW n \in Nat, NEW j \in AddressesIn(k, n)
  PROVE  Cardinality(AddressesIn(k, j)) \in 1..Cardinality(AddressesIn(k, n))
  <1>1. j \in Nat /\ k < j /\ j <= n /\ j \in AddressesIn(k, j)
    BY DEF AddressesIn
  <1>2. IsFiniteSet(AddressesIn(k, n)) /\ Cardinality(AddressesIn(k, n)) \in Nat
    BY AddressesFinite
  <1>3. IsFiniteSet(AddressesIn(k, j)) /\ Cardinality(AddressesIn(k, j)) \in Nat
    BY <1>1, AddressesFinite
  <1>4. Cardinality(AddressesIn(k, j)) # 0
    BY <1>1, <1>3, FS_EmptySet
  <1>5. AddressesIn(k, j) \in SUBSET AddressesIn(k, n)
    BY <1>1 DEF AddressesIn
  <1> QED BY <1>2, <1>3, <1>4, <1>5, FS_Subset

\* Every line read keeps the nodes those of the lines read so far.
LEMMA StepReadInv ==
  ASSUME TypeOK, ReadInv, ReadLine
  PROVE  ReadInv'
  <1>1. /\ at \in Nat /\ at < Len(lines) /\ at' = at + 1 /\ config = "reading"
        /\ UNCHANGED <<lines, config>>
    BY DEF ReadLine, TypeOK, files
  <1>2. CASE network = Blank
    <2>1. /\ network' = lines[at + 1] /\ nodes' = nodes
          /\ nodes = << >> /\ \A j \in 1..at : lines[j] = Blank
      BY <1>2 DEF ReadLine, ReadInv
    <2>2. CASE network' = Blank
      <3>1. ASSUME NEW j \in 1..at + 1 PROVE lines[j] = Blank
        <4>1. j \in 1..at \/ j = at + 1
          BY <1>1
        <4> QED BY <2>1, <2>2, <4>1
      <3> QED BY <1>1, <2>1, <2>2, <3>1 DEF ReadInv
    <2>3. CASE network' # Blank
      <3>1. PICK k \in Nat : k = at + 1
        BY <1>1
      <3>2. Len(nodes') = 0 /\ at' = k /\ AddressesIn(k, k) = {} /\ Cardinality(AddressesIn(k, k)) = 0
        BY <1>1, <2>1, <3>1, AddressesNone
      <3>3. AddressesIn(k, k)' = AddressesIn(k, k)
        BY <1>1 DEF AddressesIn
      <3>4. NodesOf(k)'
        BY <3>2, <3>3 DEF NodesOf
      <3>5. k \in 1..at' /\ network' = lines'[k] /\ \A j \in 1..k - 1 : lines'[j] = Blank
        BY <1>1, <2>1, <3>1
      <3> QED BY <1>1, <2>3, <3>4, <3>5 DEF ReadInv
    <2> QED BY <2>2, <2>3
  <1>3. CASE network # Blank
    <2>1. PICK k \in 1..at : /\ network = lines[k]
                             /\ \A j \in 1..k - 1 : lines[j] = Blank
                             /\ NodesOf(k)
      BY <1>3 DEF ReadInv
    <2>2. /\ network' = network
          /\ nodes' = IF lines[at + 1] \in Address THEN Append(nodes, lines[at + 1]) ELSE nodes
      BY <1>3 DEF ReadLine
    <2>3. k \in Nat /\ k <= at
      BY <1>1
    <2>4. nodes \in Seq(Address) /\ Len(nodes) = Cardinality(AddressesIn(k, at)) /\ Len(nodes) \in Nat
      BY <2>1 DEF TypeOK, NodesOf
    <2>5. \A j, n : AddressesIn(j, n)' = AddressesIn(j, n)
      BY <1>1 DEF AddressesIn
    <2>6. CASE lines[at + 1] \in Address
      <3>1. nodes' = Append(nodes, lines[at + 1])
        BY <2>2, <2>6
      <3>2. /\ Len(nodes') = Len(nodes) + 1 /\ nodes'[Len(nodes) + 1] = lines[at + 1]
            /\ \A i \in 1..Len(nodes) : nodes'[i] = nodes[i]
        BY <2>4, <2>6, <3>1
      <3>3. /\ AddressesIn(k, at + 1) = AddressesIn(k, at) \cup {at + 1}
            /\ Cardinality(AddressesIn(k, at + 1)) = Len(nodes) + 1
        BY <1>1, <2>3, <2>4, <2>6, AddressesGrow
      <3>4. ASSUME NEW j \in AddressesIn(k, at)
            PROVE  nodes'[Cardinality(AddressesIn(k, j))] = lines[j]
        <4>1. Cardinality(AddressesIn(k, j)) \in 1..Len(nodes)
          BY <1>1, <2>3, <2>4, AddressesRank
        <4> QED BY <2>1, <3>2, <4>1 DEF NodesOf
      <3>5. NodesOf(k)'
        BY <1>1, <2>5, <3>2, <3>3, <3>4 DEF NodesOf
      <3> QED BY <1>1, <1>3, <2>1, <2>2, <3>5 DEF ReadInv
    <2>7. CASE lines[at + 1] \notin Address
      <3>1. AddressesIn(k, at + 1) = AddressesIn(k, at) /\ nodes' = nodes
        BY <1>1, <2>2, <2>3, <2>7, AddressesGrow
      <3>2. NodesOf(k)'
        BY <1>1, <2>1, <2>5, <3>1 DEF NodesOf
      <3> QED BY <1>1, <1>3, <2>1, <2>2, <3>2 DEF ReadInv
    <2> QED BY <2>6, <2>7
  <1> QED BY <1>2, <1>3

\* The invariant of reading the network file.
LEMMA ReadInductive == Spec => [](TypeOK /\ ReadInv)
  <1>1. Init => ReadInv
    BY DEF Init, ReadInv
  <1>2. TypeOK /\ ReadInv /\ [Next]_vars => (TypeOK /\ ReadInv)'
    <2> SUFFICES ASSUME TypeOK, ReadInv, [Next]_vars PROVE ReadInv'
      BY StepTypeOK
    <2>1. ASSUME UNCHANGED <<lines, at, network, nodes>>, config' = "loaded" => at = Len(lines) /\ network # Blank
          PROVE  ReadInv'
      <3>1. \A k : NodesOf(k)' = NodesOf(k)
        BY <2>1 DEF NodesOf, AddressesIn
      <3> QED BY <2>1, <3>1 DEF ReadInv
    <2>2. CASE LoadConfigFails BY <2>1, <2>2 DEF LoadConfigFails, files
    <2>3. CASE LoadConfigCrashes BY <2>1, <2>3 DEF LoadConfigCrashes, files
    <2>4. CASE LoadConfig BY <2>1, <2>4 DEF LoadConfig, files
    <2>5. CASE ReadLine BY <2>5, StepReadInv
    <2>6. CASE Check BY <2>1, <2>6 DEF Check, files
    <2>7. CASE UNCHANGED vars BY <2>1, <2>7 DEF vars, ReadInv
    <2> QED BY <2>2, <2>3, <2>4, <2>5, <2>6, <2>7 DEF Next, Finished
  <1> QED BY InitTypeOK, <1>1, <1>2, PTL DEF Spec

\* For every file, of any length: the first line that is not empty is the name, and
\* exactly the addresses behind it are the nodes, in the order of the lines.
THEOREM NetworkIsRead == Spec => []NetworkIsTheFile
  <1>1. TypeOK /\ ReadInv => NetworkIsTheFile
    <2> SUFFICES ASSUME TypeOK, ReadInv, config = "loaded"
                 PROVE  /\ network = lines[NameLine]
                        /\ Len(nodes) = Cardinality(AddressesIn(NameLine, Len(lines)))
                        /\ \A j \in AddressesIn(NameLine, Len(lines)) :
                             nodes[Cardinality(AddressesIn(NameLine, j))] = lines[j]
      BY DEF NetworkIsTheFile
    <2>1. at = Len(lines) /\ network # Blank /\ Len(lines) \in Nat
      BY DEF ReadInv, TypeOK
    <2>2. PICK k \in 1..at : /\ network = lines[k]
                             /\ \A j \in 1..k - 1 : lines[j] = Blank
                             /\ NodesOf(k)
      BY <2>1 DEF ReadInv
    <2>3. NameLine = k
      <3>1. k \in Lines /\ \A j \in Lines : k <= j
        BY <2>1, <2>2 DEF Lines
      <3>2. \A i \in Lines : (\A j \in Lines : i <= j) => i = k
        BY <2>1, <3>1 DEF Lines
      <3> QED BY <3>1, <3>2 DEF NameLine
    <2> QED BY <2>1, <2>2, <2>3 DEF NodesOf
  <1> QED BY ReadInductive, <1>1, PTL

=============================================================================
