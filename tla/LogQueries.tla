------------------------------ MODULE LogQueries ------------------------------
(***************************************************************************)
(* How ContractInteractor reads a contract's past events: in pages, with   *)
(* the range split again when the node finds a page too long.  The log     *)
(* grows while a command reads it.  A command is a process with a program  *)
(* counter and its local variables; what it does with the events is in the *)
(* modules that extend this one.                                           *)
(***************************************************************************)
EXTENDS Integers, Sequences, SequencesExt

CONSTANTS
    NodeLimit,   \* external: a node answers with at most so many events
    Lag,         \* external: a node's `latest' is at most so many blocks old
    NoQuery      \* stands for the query of a command that is not asking

ASSUME QueryAssumption == NodeLimit \in Nat \ {0} /\ Lag \in Nat

VARIABLES
    block,  \* external: the latest block's number, and its time
    log,    \* external: the events so far, each in a block of its own
    cmd     \* per command: its kind, options, program counter and variables

NoLimit == 0     \* maxPageSize = Number.MAX_SAFE_INTEGER
Latest  == 0     \* toBlock = 'latest'

Larger(a, b)  == IF a > b THEN a ELSE b
Smaller(a, b) == IF a < b THEN a ELSE b
Ceiling(a, b) == (a + b - 1) \div b

GetLogsPagesForRange(maxPageSize, fromBlock, toBlock) ==
    IF maxPageSize = NoLimit THEN 1
    ELSE Larger(Ceiling(toBlock - fromBlock + 1, maxPageSize), 1)

\* mutant
SplitRangeShort(fromBlock, toBlock, parts) ==
    LET size == Ceiling(toBlock - fromBlock + 1, parts)
    IN  IF parts = 1 THEN <<[fromBlock |-> fromBlock, toBlock |-> toBlock]>>
        ELSE [i \in 1..((toBlock - fromBlock + 1) \div size) |->
                 [fromBlock |-> fromBlock + (i - 1) * size,
                  toBlock   |-> Smaller(toBlock, fromBlock + i * size - 1)]]

\* The pages, none of them empty.  'latest' cannot be split: see CannotSplit.
SplitRange(fromBlock, toBlock, parts) ==
    LET size == Ceiling(toBlock - fromBlock + 1, parts)
    IN  IF parts = 1 THEN <<[fromBlock |-> fromBlock, toBlock |-> toBlock]>>
        ELSE [i \in 1..Ceiling(toBlock - fromBlock + 1, size) |->
                 [fromBlock |-> fromBlock + (i - 1) * size,
                  toBlock   |-> Smaller(toBlock, fromBlock + i * size - 1)]]

\* The answers of eth_blockNumber that getBlockNumber takes, after any number
\* of retries: none older than the last one.
GetBlockNumber(lastBlockNumber) ==
    {b \in (block - Lag)..block : b >= Larger(lastBlockNumber, 1)}

\* A query for the events `names' from block 1 on.  With pages the end of the
\* range is fixed to the block number read first; without, the node decides.
NewQuery(names, maxPageSize, blockNumber) ==
    LET to == IF maxPageSize = NoLimit THEN Latest ELSE Larger(blockNumber, 1)
    IN  [names |-> names, toBlock |-> to, part |-> 1, got |-> <<>>, splits |-> 0,
         pages |-> GetLogsPagesForRange(maxPageSize, 1, to), readAt |-> to]

Parts(q) == SplitRange(1, q.toBlock, q.pages)
Finished(q) == q.part > Len(Parts(q))

\* contract.getPastEvents of one page, answered by a node that knows the blocks
\* up to `known'.
GetPastEvents(q, range, known) ==
    LET last == IF range.toBlock = Latest THEN known ELSE range.toBlock
        InPage(e) == e.event \in q.names /\ range.fromBlock <= e.block /\ e.block <= last
    IN  SelectSeq(log, InPage)

\* The node answers `query returned more than ...', a hundred times.
TooMany(q) == Len(GetPastEvents(q, Parts(q)[q.part], block)) > NodeLimit

Goto(p, pc) == cmd' = [cmd EXCEPT ![p].pc = pc, ![p].q = NoQuery]
Querying(p) == cmd[p].pc = "query" /\ ~Finished(cmd[p].q)

\* mutant
ReadPageAgain(p) ==
    /\ Querying(p) /\ ~TooMany(cmd[p].q)
    /\ \E known \in GetBlockNumber(0) :
          LET q == cmd[p].q IN
          cmd' = [cmd EXCEPT ![p].q.got = GetPastEvents(q, Parts(q)[q.part], known),
                             ![p].q.part = @ + 1,
                             ![p].q.readAt = IF q.toBlock = Latest THEN known ELSE @]
    /\ UNCHANGED <<block, log>>

\* One page is read.
ReadPage(p) ==
    /\ Querying(p) /\ ~TooMany(cmd[p].q)
    /\ \E known \in GetBlockNumber(0) :
          LET q == cmd[p].q IN
          cmd' = [cmd EXCEPT ![p].q.got = @ \o GetPastEvents(q, Parts(q)[q.part], known),
                             ![p].q.part = @ + 1,
                             ![p].q.readAt = IF q.toBlock = Latest THEN known ELSE @]
    /\ UNCHANGED <<block, log>>

\* Every page is made smaller and all are read again; what was read before
\* stays in relayEventParts.  A range that ends in 'latest' cannot be split.
SplitPages(p) ==
    /\ Querying(p) /\ TooMany(cmd[p].q)
    /\ IF cmd[p].q.pages > 16 \/ cmd[p].q.toBlock = Latest
       THEN Goto(p, "unread")
       ELSE cmd' = [cmd EXCEPT ![p].q.pages = @ * 4, ![p].q.part = 1,
                               ![p].q.splits = @ + 1]
    /\ UNCHANGED <<block, log>>

\* A transaction that emits one event, mined in the next block.
Emit(event, subject, object) ==
    /\ block' = block + 1
    /\ log' = Append(log, [block |-> block + 1, event |-> event,
                           subject |-> subject, object |-> object])

\* What a finished query ought to have read.
Expected(q) == GetPastEvents(q, [fromBlock |-> 1, toBlock |-> q.readAt], block)

(***************************************************************************)
(* However the range is split and whatever is mined meanwhile, a finished  *)
(* query has read the events of the whole range up to one block, in order  *)
(* and each once; if the node made it split again, each at least once and  *)
(* the last reading in order at the end.                                   *)
(***************************************************************************)
EveryEventRead ==
    \A p \in DOMAIN cmd :
        LET q == cmd[p].q IN
        cmd[p].pc = "query" /\ Finished(q) =>
            /\ IsSuffix(Expected(q), q.got)
            /\ q.splits = 0 => q.got = Expected(q)
===============================================================================
