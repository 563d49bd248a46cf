------------------------------ MODULE Settings ------------------------------
(***************************************************************************)
(* Config: the two files a peer is started with, and what it makes of them.*)
(*                                                                         *)
(* Modelled of peer.conf: threads, queue_size, and whether a statistics    *)
(* url is set.  A setting that is missing, negative or of another type is  *)
(* Absent, as is every setting of a section that is missing (lookupValue   *)
(* of libconfig then returns false).  A network file that cannot be read   *)
(* has no lines: nothing looks at the result of load_file_by_line.         *)
(***************************************************************************)
EXTENDS Integers, Sequences, FiniteSets, SequencesExt

CONSTANTS
  Cores,       \* what std::thread::hardware_concurrency() may return; 0: not computable
  Number,      \* the numbers in peer.conf
  Address,     \* lines of an IP and a port
  Other,       \* lines of something else
  Blank,       \* the empty line
  MaxLines     \* bound on the length of a network file

Absent == -1

ASSUME SettingsAssumption ==
  /\ Cores \subseteq Nat /\ Number \subseteq Nat
  /\ MaxLines \in Nat
  /\ Address \cap Other = {} /\ Blank \notin Address \cup Other

Line == Address \cup Other \cup {Blank}
Setting == Number \cup {Absent}
Conf == [readable : BOOLEAN, threads : Setting, queue_size : Setting, url : BOOLEAN]

VARIABLES
  hardware,            \* the hardware
  conf, lines,         \* the two files
  at,                  \* lines of the network file already read
  _threads_count, _thread_queue_size,
  network, nodes,      \* _network.name(), _network.nodes
  config               \* "loading", "reading", "loaded", "refused" (an exception), "crashed"

files == <<hardware, conf, lines>>
vars == <<hardware, conf, lines, at, _threads_count, _thread_queue_size, network, nodes,
          config>>

Init == /\ hardware \in Cores
        /\ conf \in Conf
        /\ lines \in BoundedSeq(Line, MaxLines)
        /\ at = 0
        /\ _threads_count = hardware
        /\ _thread_queue_size = 0
        /\ network = Blank
        /\ nodes = << >>
        /\ config = "loading"

-----------------------------------------------------------------------------
(* load_config                                                             *)

\* Slip: 0 is not taken as "auto".
Threads_Literal == IF conf.threads = Absent THEN hardware ELSE conf.threads

Threads == IF conf.threads \in {Absent, 0} THEN hardware ELSE conf.threads

\* Slip: rounded up.
Share_RoundedUp == IF conf.queue_size = Absent THEN 0
                   ELSE (conf.queue_size + Threads - 1) \div Threads

\* One thread's part of queue_size; 0 stands for no limit.
Share == IF conf.queue_size = Absent THEN 0 ELSE conf.queue_size \div Threads

LoadConfigFails == /\ config = "loading"
                   /\ ~conf.readable
                   /\ config' = "refused"
                   /\ UNCHANGED <<files, at, _threads_count, _thread_queue_size, network, nodes>>

\* An integer division by zero is SIGFPE, for which main has no handler.
LoadConfigCrashes == /\ config = "loading"
                     /\ conf.readable
                     /\ conf.queue_size # Absent
                     /\ Threads = 0
                     /\ config' = "crashed"
                     /\ UNCHANGED <<files, at, _threads_count, _thread_queue_size, network, nodes>>

LoadConfig == /\ config = "loading"
              /\ conf.readable
              /\ conf.queue_size = Absent \/ Threads # 0
              /\ _threads_count' = Threads
              /\ _thread_queue_size' = Share
              /\ config' = "reading"
              /\ UNCHANGED <<files, at, network, nodes>>

-----------------------------------------------------------------------------
(* load_network and the checks                                             *)

\* Slip: the name is looked at as a node as well.
ReadLine_NameToo ==
  /\ config = "reading"
  /\ at < Len(lines)
  /\ at' = at + 1
  /\ network' = IF network = Blank THEN lines[at + 1] ELSE network
  /\ nodes' = IF lines[at + 1] \in Address THEN Append(nodes, lines[at + 1]) ELSE nodes
  /\ UNCHANGED <<files, _threads_count, _thread_queue_size, config>>

\* Slip: what is not an address is kept.
ReadLine_Lenient ==
  /\ config = "reading"
  /\ at < Len(lines)
  /\ at' = at + 1
  /\ network' = IF network = Blank THEN lines[at + 1] ELSE network
  /\ nodes' = IF network # Blank THEN Append(nodes, lines[at + 1]) ELSE nodes
  /\ UNCHANGED <<files, _threads_count, _thread_queue_size, config>>

\* The first line that is not empty is the name, whatever it looks like; after it,
\* lines that are no address are skipped.
ReadLine ==
  /\ config = "reading"
  /\ at < Len(lines)
  /\ at' = at + 1
  /\ IF network = Blank
       THEN network' = lines[at + 1] /\ UNCHANGED nodes
       ELSE /\ nodes' = IF lines[at + 1] \in Address THEN Append(nodes, lines[at + 1])
                                                     ELSE nodes
            /\ UNCHANGED network
  /\ UNCHANGED <<files, _threads_count, _thread_queue_size, config>>

Check == /\ config = "reading"
         /\ at = Len(lines)
         /\ config' = IF conf.url /\ network # Blank /\ nodes # << >> THEN "loaded"
                                                                      ELSE "refused"
         /\ UNCHANGED <<files, at, _threads_count, _thread_queue_size, network, nodes>>

Finished == config \in {"loaded", "refused", "crashed"} /\ UNCHANGED vars

-----------------------------------------------------------------------------

Next == LoadConfigFails \/ LoadConfigCrashes \/ LoadConfig \/ ReadLine \/ Check \/ Finished

Spec == Init /\ [][Next]_vars

-----------------------------------------------------------------------------
(* Properties                                                              *)

\* Only addresses become nodes.
TypeOK ==
  /\ hardware \in Cores
  /\ conf \in Conf
  /\ lines \in Seq(Line)
  /\ at \in 0..Len(lines)
  /\ _threads_count \in Nat
  /\ _thread_queue_size \in Nat
  /\ network \in Line
  /\ nodes \in Seq(Address)
  /\ config \in {"loading", "reading", "loaded", "refused", "crashed"}

\* The limits of all threads together are queue_size but for less than one transaction
\* per thread, which the division drops; Worker lets each thread exceed its limit by
\* one, so that the peer holds more than queue_size, but no more than queue_size plus
\* the number of threads.
ShareOfLimit ==
  config = "loaded" /\ conf.queue_size # Absent =>
    /\ _threads_count * _thread_queue_size <= conf.queue_size
    /\ conf.queue_size < _threads_count * _thread_queue_size + _threads_count

\* threads = 0, or no threads at all, never divides by zero on a machine that knows
\* its cores.
CrashesOnlyWithoutCores == config = "crashed" => hardware = 0

\* A limit that is divided is divided without a remainder to speak of, and by no zero
\* (load_config).
LimitDivided == ShareOfLimit /\ CrashesOnlyWithoutCores

Lines == {k \in 1..Len(lines) : lines[k] # Blank}
NameLine == CHOOSE k \in Lines : \A j \in Lines : k <= j

\* The lines behind line k with an address, down to line n.
AddressesIn(k, n) == {j \in k + 1..n : lines[j] \in Address}

\* The network file as a whole: the first line with text on it names the network, the
\* addresses behind it are the nodes, in their order.
NetworkIsTheFile ==
  config = "loaded" =>
    /\ network = lines[NameLine]
    /\ Len(nodes) = Cardinality(AddressesIn(NameLine, Len(lines)))
    /\ \A j \in AddressesIn(NameLine, Len(lines)) :
         nodes[Cardinality(AddressesIn(NameLine, j))] = lines[j]

\* install/peer.conf: "Maximum size of send queue. 0 - no limit": any other number is
\* a limit.
NoLimitIsZero ==
  config = "loaded" /\ _thread_queue_size = 0 => conf.queue_size \in {Absent, 0}

=============================================================================
