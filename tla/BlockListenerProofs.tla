-------------------------- MODULE BlockListenerProofs --------------------------
(***************************************************************************)
(* Proofs about BlockListener, for any number of blocks, calls and events: *)
(* its types, that messages follow rows, that calls which are kept apart   *)
(* give every block one task row and never take the state back, and that   *)
(* no gap is left without a failure.                                       *)
(***************************************************************************)
EXTENDS BlockListener, NaturalsInduction, WellFoundedInduction, TLAPS

-----------------------------------------------------------------------------
(* Chunks.                                                                 *)

\* A nonempty set of natural numbers has a least one.
LEMMA Least ==
    ASSUME NEW S, S \subseteq Nat, S # {}
    PROVE  \E i \in S : \A j \in S : i <= j
<1>1. PICK i \in S : \A j \in S : <<j, i>> \notin OpToRel(<, Nat)
  BY NatLessThanWellFounded, WFMin
<1>2. \A j \in S : j < i => <<j, i>> \in OpToRel(<, Nat)
  BY <1>1 DEF OpToRel
<1>3. ASSUME NEW j \in S PROVE i <= j
  <2>1. ~ (j < i)
    BY <1>1, <1>2
  <2>2. i \in Nat /\ j \in Nat
    OBVIOUS
  <2> QED BY <2>1, <2>2
<1> QED BY <1>3

\* A chunk is not empty, ends with the last block asked for at the latest, and
\* earlier only at a multiple of the chunk size or for a shutdown.
LEMMA ChunkEnds ==
    ASSUME NEW r \in Call, r.next <= r.to
    PROVE  /\ EndOfChunk(r) \in r.next .. r.to
           /\ \/ EndOfChunk(r) % ChunkSize = 0
              \/ EndOfChunk(r) = r.to
              \/ gracefulShutdownFlag
<1> DEFINE ends == {i \in r.next .. r.to : i % ChunkSize = 0 \/ i = r.to \/ gracefulShutdownFlag}
<1>1. r.next \in Nat /\ r.to \in Nat
  BY ListenerAssumption DEF Call, Block
<1>2. r.to \in ends /\ ends \subseteq Nat
  BY <1>1
<1>3. \E i \in ends : \A j \in ends : i <= j
  <2> HIDE DEF ends
  <2> QED BY <1>2, Least
<1>4. EndOfChunk(r) \in ends
  <2>1. EndOfChunk(r) = CHOOSE i \in ends : \A j \in ends : i <= j
    BY DEF EndOfChunk
  <2> HIDE DEF ends
  <2> QED BY <1>3, <2>1
<1> QED BY <1>4

-----------------------------------------------------------------------------
(***************************************************************************)
(* Type correctness.  A call that waits has work left, and an open chunk   *)
(* lies within the blocks its call was asked for.                          *)
(***************************************************************************)
Sensible(r, flag) ==
    /\ r.pc = "paused" => r.next <= r.to
    /\ r.pc \in {"begin", "trx"} =>
          /\ r.last \in r.next .. r.to
          /\ r.last % ChunkSize = 0 \/ r.last = r.to \/ flag

CallsSensible == \A c \in Calls : Sensible(call[c], gracefulShutdownFlag)

TInv == TypeOK /\ CallsSensible

\* A call is replaced by one that makes sense, while the flag is not lowered.
LEMMA ReplaceCall ==
    ASSUME TInv, NEW c \in Calls, NEW r \in Call, Sensible(r, gracefulShutdownFlag),
           call' = [call EXCEPT ![c] = r],
           gracefulShutdownFlag' = gracefulShutdownFlag
    PROVE  call' \in [Calls -> Call] /\ CallsSensible'
<1>1. call \in [Calls -> Call] /\ \A d \in Calls : Sensible(call[d], gracefulShutdownFlag)
  BY DEF TInv, TypeOK, CallsSensible
<1>2. call' \in [Calls -> Call]
  BY <1>1
<1>3. \A d \in Calls : call'[d] = IF d = c THEN r ELSE call[d]
  BY <1>1
<1>4. \A d \in Calls : Sensible(call'[d], gracefulShutdownFlag')
  BY <1>1, <1>3
<1> QED BY <1>2, <1>4 DEF CallsSensible

LEMMA IdleCall == Idle \in Call /\ Idle.pc = "idle"
  BY ListenerAssumption DEF Idle, Call, Block, NoBlock

\* The loop of ingestPreloadTasks, from any point of it.
LEMMA CollectType ==
    ASSUME TInv, NEW c \in Calls, NEW r \in Call, r.next <= r.to, Collect(c, r),
           gracefulShutdownFlag' = gracefulShutdownFlag
    PROVE  /\ call' \in [Calls -> Call] /\ CallsSensible'
           /\ messagesBeingProcessed' \in BOOLEAN /\ subscribed' \in BOOLEAN
<1>1. messagesBeingProcessed' \in BOOLEAN /\ subscribed' \in BOOLEAN
  BY DEF TInv, TypeOK, Collect
<1>2. PICK i : i = EndOfChunk(r)
  OBVIOUS
<1>3. PICK s : s = [r EXCEPT !.pc = "begin", !.last = i]
  OBVIOUS
<1>4. /\ i \in r.next .. r.to
      /\ i % ChunkSize = 0 \/ i = r.to \/ gracefulShutdownFlag
  BY <1>2, ChunkEnds
<1>5. i \in Block
  BY <1>4, ListenerAssumption DEF Call, Block
<1>6. s \in Call
  BY <1>3, <1>5 DEF Call
<1>7. s.next = r.next /\ s.to = r.to /\ s.last = i /\ s.pc = "begin"
  BY <1>3 DEF Call
<1>8. Sensible(s, gracefulShutdownFlag)
  BY <1>4, <1>7 DEF Sensible
<1>9. call' = [call EXCEPT ![c] = s]
  BY <1>2, <1>3 DEF Collect
<1> QED BY <1>1, <1>6, <1>8, <1>9, ReplaceCall

LEMMA ReturnType ==
    ASSUME TInv, NEW c \in Calls, Return(c), gracefulShutdownFlag' = gracefulShutdownFlag
    PROVE  /\ call' \in [Calls -> Call] /\ CallsSensible'
           /\ messagesBeingProcessed' \in BOOLEAN /\ subscribed' \in BOOLEAN
<1>1. Sensible(Idle, gracefulShutdownFlag)
  BY IdleCall DEF Sensible
<1>2. call' \in [Calls -> Call] /\ CallsSensible'
  BY <1>1, IdleCall, ReplaceCall DEF Return
<1>3. messagesBeingProcessed' \in BOOLEAN /\ subscribed' \in BOOLEAN
  BY DEF TInv, TypeOK, Return
<1> QED BY <1>2, <1>3

LEMMA IngestType ==
    ASSUME TInv, NEW c \in Calls, NEW r \in Call, Ingest(c, r),
           gracefulShutdownFlag' = gracefulShutdownFlag
    PROVE  /\ call' \in [Calls -> Call] /\ CallsSensible'
           /\ messagesBeingProcessed' \in BOOLEAN /\ subscribed' \in BOOLEAN
<1>1. CASE Return(c)
  BY <1>1, ReturnType
<1>2. CASE /\ r.next <= r.to
           /\ call' = [call EXCEPT ![c] = [r EXCEPT !.pc = "paused"]]
           /\ UNCHANGED <<messagesBeingProcessed, subscribed>>
  <2>1. PICK s : s = [r EXCEPT !.pc = "paused"]
    OBVIOUS
  <2>2. s \in Call /\ s.pc = "paused" /\ s.next = r.next /\ s.to = r.to
    BY <2>1 DEF Call
  <2>3. Sensible(s, gracefulShutdownFlag)
    BY <1>2, <2>2 DEF Sensible
  <2>4. call' = [call EXCEPT ![c] = s]
    BY <1>2, <2>1
  <2>5. call' \in [Calls -> Call] /\ CallsSensible'
    BY <2>2, <2>3, <2>4, ReplaceCall
  <2> QED BY <1>2, <2>5 DEF TInv, TypeOK
<1>3. CASE r.next <= r.to /\ Collect(c, r)
  BY <1>3, CollectType
<1> QED BY <1>1, <1>2, <1>3 DEF Ingest

\* A chunk ends, with or without its rows.
LEMMA AfterChunkType ==
    ASSUME TInv, NEW c \in Calls, call[c].pc \in {"begin", "trx"}, AfterChunk(c),
           gracefulShutdownFlag' = gracefulShutdownFlag
    PROVE  /\ call' \in [Calls -> Call] /\ CallsSensible'
           /\ messagesBeingProcessed' \in BOOLEAN /\ subscribed' \in BOOLEAN
<1>1. PICK r : r = call[c]
  OBVIOUS
<1>2. r \in Call /\ Sensible(r, gracefulShutdownFlag) /\ r.pc \in {"begin", "trx"}
  BY <1>1 DEF TInv, TypeOK, CallsSensible
<1>3. CASE /\ call' = [call EXCEPT ![c].pc = "loop", ![c].next = call[c].last + 1]
           /\ UNCHANGED <<messagesBeingProcessed, subscribed>>
  <2>1. r.last + 1 \in 0 .. Horizon + 1
    BY <1>2, ListenerAssumption DEF Sensible, Call, Block
  <2>2. PICK s : s = [r EXCEPT !.pc = "loop", !.next = r.last + 1]
    OBVIOUS
  <2>3. s \in Call /\ s.pc = "loop"
    BY <1>2, <2>1, <2>2 DEF Call
  <2>4. Sensible(s, gracefulShutdownFlag)
    BY <2>3 DEF Sensible
  <2>5. call' = [call EXCEPT ![c] = s]
    BY <1>1, <1>3, <2>2 DEF TInv, TypeOK
  <2>6. call' \in [Calls -> Call] /\ CallsSensible'
    BY <2>3, <2>4, <2>5, ReplaceCall
  <2> QED BY <1>3, <2>6 DEF TInv, TypeOK
<1>4. CASE Return(c)
  BY <1>4, ReturnType
<1> QED BY <1>3, <1>4 DEF AfterChunk

\* A call goes on to a point where nothing is asked of it.
LEMMA GoOnTo ==
    ASSUME TInv, NEW c \in Calls, NEW r \in Call, r.pc \notin {"paused", "begin", "trx"},
           call' = [call EXCEPT ![c] = r], gracefulShutdownFlag' = gracefulShutdownFlag
    PROVE  call' \in [Calls -> Call] /\ CallsSensible'
<1>1. Sensible(r, gracefulShutdownFlag)
  BY DEF Sensible
<1> QED BY <1>1, ReplaceCall

LEMMA StartType ==
    ASSUME NEW c \in Calls, call' = StartWith(c)
    PROVE  call' \in [Calls -> Call] /\ CallsSensible'
<1>1. PICK r : r = [Idle EXCEPT !.pc = "read"]
  OBVIOUS
<1>2. r \in Call /\ r.pc = "read"
  BY <1>1, IdleCall DEF Call
<1>3. \A d \in Calls : call'[d] = IF d = c THEN r ELSE Idle
  BY <1>1 DEF StartWith
<1>4. \A d \in Calls : Sensible(call'[d], gracefulShutdownFlag')
  BY <1>2, <1>3, IdleCall DEF Sensible
<1> QED BY <1>1, <1>2, <1>4, IdleCall DEF StartWith, CallsSensible

\* Chunks are made of blocks.
LEMMA ChunkOfBlocks ==
    ASSUME TInv, NEW c \in Calls, call[c].pc \in {"begin", "trx"}
    PROVE  Chunk(c) \subseteq Block /\ call[c].last \in Block
<1>1. PICK r : r = call[c]
  OBVIOUS
<1>2. r \in Call /\ Sensible(r, gracefulShutdownFlag) /\ r.pc \in {"begin", "trx"}
  BY <1>1 DEF TInv, TypeOK, CallsSensible
<1>3. r.next .. r.last \subseteq Block /\ r.last \in Block
  BY <1>2, ListenerAssumption DEF Sensible, Call, Block
<1> QED BY <1>1, <1>3 DEF Chunk
LEMMA TInvInit == Init => TInv
<1> SUFFICES ASSUME Init PROVE TInv
  OBVIOUS
<1>1. PICK c \in Calls : call = StartWith(c)
  BY DEF Init
<1>2. PICK r : r = [Idle EXCEPT !.pc = "read"]
  OBVIOUS
<1>3. r \in Call /\ r.pc = "read"
  BY <1>2, IdleCall DEF Call
<1>4. call = [d \in Calls |-> IF d = c THEN r ELSE Idle]
  BY <1>1, <1>2 DEF StartWith
<1>5. call \in [Calls -> Call] /\ CallsSensible
  BY <1>3, <1>4, IdleCall DEF CallsSensible, Sensible
<1>6. /\ head \in Block /\ lastBlockId \in Block \union {NoBlock}
      /\ processing_state \in Block \union {NoBlock}
  BY ListenerAssumption DEF Init, Block, NoBlock
<1>7. /\ rows \in [Block -> Nat] /\ due \in [Block -> Nat] /\ sent \in [Block -> Nat]
      /\ events \in [Event -> Nat]
  BY DEF Init
<1>8. /\ messagesBeingProcessed \in BOOLEAN /\ isPaused \in BOOLEAN
      /\ gracefulShutdownFlag \in BOOLEAN /\ subscribed \in BOOLEAN
  BY DEF Init
<1> QED BY <1>5, <1>6, <1>7, <1>8 DEF TInv, TypeOK

\* An event is counted.
LEMMA HappensType ==
    ASSUME events \in [Event -> Nat], NEW k \in Event, Happens(k)
    PROVE  events' \in [Event -> Nat]
  BY DEF Happens

\* The parts of the type that a step of the listener's calls leaves alone.
Rest == <<head, database, isPaused, gracefulShutdownFlag, messages, events>>

LEMMA CallStepType ==
    ASSUME TInv, UNCHANGED Rest, lastBlockId' \in Block \union {NoBlock},
           call' \in [Calls -> Call], CallsSensible',
           messagesBeingProcessed' \in BOOLEAN, subscribed' \in BOOLEAN
    PROVE  TInv'
  BY DEF TInv, TypeOK, Rest, database, messages, Block

\* A step of a call in progress.
LEMMA StepType ==
    ASSUME TInv, NEW c \in Calls, Step(c)
    PROVE  TInv'
<1> DEFINE Same == UNCHANGED Rest
<1>0. PICK r : r = call[c]
  OBVIOUS
<1>1. r \in Call /\ Sensible(r, gracefulShutdownFlag)
  BY <1>0 DEF TInv, TypeOK, CallsSensible
<1>2. lastBlockId \in Block \union {NoBlock} /\ messagesBeingProcessed \in BOOLEAN
      /\ subscribed \in BOOLEAN
  BY DEF TInv, TypeOK
<1>3. CASE ReadState(c)
  <2>1. Same /\ UNCHANGED <<lastBlockId, messagesBeingProcessed, subscribed>>
    BY <1>3 DEF ReadState, Rest, database, messages, flags
  <2>2. PICK s : s = [r EXCEPT !.pc = "assign", !.last = processing_state]
    OBVIOUS
  <2>3. s \in Call /\ s.pc = "assign"
    BY <1>1, <2>2 DEF Call, TInv, TypeOK
  <2>4. call' = [call EXCEPT ![c] = s]
    BY <1>0, <1>3, <2>2 DEF ReadState, TInv, TypeOK
  <2>5. call' \in [Calls -> Call] /\ CallsSensible'
    BY <2>1, <2>3, <2>4, GoOnTo DEF Rest
  <2> QED BY <1>2, <2>1, <2>5, CallStepType
<1>4. CASE Assign(c)
  <2>1. Same /\ lastBlockId' = r.last
    BY <1>0, <1>4 DEF Assign, Rest, database, messages, flags
  <2>2. r.last \in Block \union {NoBlock}
    BY <1>1 DEF Call
  <2>3. CASE /\ call' = [call EXCEPT ![c].pc = "head"]
             /\ UNCHANGED <<messagesBeingProcessed, subscribed>>
    <3>1. PICK s : s = [r EXCEPT !.pc = "head"]
      OBVIOUS
    <3>2. s \in Call /\ s.pc = "head"
      BY <1>1, <3>1 DEF Call
    <3>3. call' = [call EXCEPT ![c] = s]
      BY <1>0, <2>3, <3>1 DEF TInv, TypeOK
    <3>4. call' \in [Calls -> Call] /\ CallsSensible'
      BY <2>1, <3>2, <3>3, GoOnTo DEF Rest
    <3> QED BY <1>2, <2>1, <2>2, <2>3, <3>4, CallStepType
  <2>4. CASE Ingest(c, [call[c] EXCEPT !.next = call[c].last + 1])
    <3>1. r.last + 1 \in 0 .. Horizon + 1
      BY <2>2, ListenerAssumption DEF Block, NoBlock
    <3>2. PICK s : s = [r EXCEPT !.next = r.last + 1]
      OBVIOUS
    <3>3. s \in Call /\ Ingest(c, s)
      BY <1>0, <1>1, <2>4, <3>1, <3>2 DEF Call
    <3>4. /\ call' \in [Calls -> Call] /\ CallsSensible'
          /\ messagesBeingProcessed' \in BOOLEAN /\ subscribed' \in BOOLEAN
      BY <2>1, <3>3, IngestType DEF Rest
    <3> QED BY <2>1, <2>2, <3>4, CallStepType
  <2> QED BY <1>4, <2>3, <2>4 DEF Assign
<1>5. CASE AskHead(c)
  <2>1. Same /\ UNCHANGED <<lastBlockId, messagesBeingProcessed, subscribed>>
    BY <1>5 DEF AskHead, Rest, database, messages, flags
  <2>2. PICK s : s = [r EXCEPT !.pc = "start", !.to = head]
    OBVIOUS
  <2>3. s \in Call /\ s.pc = "start"
    BY <1>1, <2>2 DEF Call, TInv, TypeOK
  <2>4. call' = [call EXCEPT ![c] = s]
    BY <1>0, <1>5, <2>2 DEF AskHead, TInv, TypeOK
  <2>5. call' \in [Calls -> Call] /\ CallsSensible'
    BY <2>1, <2>3, <2>4, GoOnTo DEF Rest
  <2> QED BY <1>2, <2>1, <2>5, CallStepType
<1>6. CASE StartIngest(c)
  <2>1. Same /\ UNCHANGED lastBlockId
    BY <1>6 DEF StartIngest, Rest, database, messages, flags
  <2>2. lastBlockId + 1 \in 0 .. Horizon + 1
    BY <1>2, ListenerAssumption DEF Block, NoBlock
  <2>3. PICK s : s = FromLast(r)
    OBVIOUS
  <2>4. s \in Call /\ Ingest(c, s)
    BY <1>0, <1>1, <1>6, <2>2, <2>3 DEF Call, FromLast, StartIngest
  <2>5. /\ call' \in [Calls -> Call] /\ CallsSensible'
        /\ messagesBeingProcessed' \in BOOLEAN /\ subscribed' \in BOOLEAN
    BY <2>1, <2>4, IngestType DEF Rest
  <2> QED BY <1>2, <2>1, <2>5, CallStepType
<1>7. CASE EndSleep(c)
  <2>1. Same /\ UNCHANGED lastBlockId
    BY <1>7 DEF EndSleep, Rest, database, messages, flags
  <2>2. /\ call' \in [Calls -> Call] /\ CallsSensible'
        /\ messagesBeingProcessed' \in BOOLEAN /\ subscribed' \in BOOLEAN
    BY <1>0, <1>1, <1>7, <2>1, IngestType DEF EndSleep, Rest
  <2> QED BY <1>2, <2>1, <2>2, CallStepType
<1>8. CASE GoOn(c)
  <2>1. Same /\ UNCHANGED lastBlockId /\ r.pc = "paused" /\ Collect(c, r)
    BY <1>0, <1>8 DEF GoOn, Rest, database, messages, flags
  <2>2. r.next <= r.to
    BY <1>1, <2>1 DEF Sensible
  <2>3. /\ call' \in [Calls -> Call] /\ CallsSensible'
        /\ messagesBeingProcessed' \in BOOLEAN /\ subscribed' \in BOOLEAN
    BY <1>1, <2>1, <2>2, CollectType DEF Rest
  <2> QED BY <1>2, <2>1, <2>3, CallStepType
<1>9. CASE Begin(c)
  <2>1. Same /\ UNCHANGED <<messagesBeingProcessed, subscribed>> /\ r.pc = "begin"
        /\ lastBlockId' = r.last
    BY <1>0, <1>9 DEF Begin, Rest, database, messages, flags
  <2>2. PICK s : s = [r EXCEPT !.pc = "trx"]
    OBVIOUS
  <2>3. s \in Call /\ s.pc = "trx" /\ s.next = r.next /\ s.last = r.last /\ s.to = r.to
    BY <1>1, <2>2 DEF Call
  <2>4. Sensible(s, gracefulShutdownFlag)
    BY <1>1, <2>1, <2>3 DEF Sensible
  <2>5. call' = [call EXCEPT ![c] = s]
    BY <1>0, <1>9, <2>2 DEF Begin, TInv, TypeOK
  <2>6. call' \in [Calls -> Call] /\ CallsSensible'
    BY <2>1, <2>3, <2>4, <2>5, ReplaceCall DEF Rest
  <2>7. lastBlockId' \in Block \union {NoBlock}
    BY <1>0, <2>1, ChunkOfBlocks
  <2> QED BY <1>2, <2>1, <2>6, <2>7, CallStepType
<1>10. CASE Commit(c)
  <2>1. /\ UNCHANGED <<head, lastBlockId, isPaused, gracefulShutdownFlag, sent, events>>
        /\ call[c].pc = "trx" /\ AfterChunk(c) /\ processing_state' = call[c].last
        /\ rows' = [b \in Block |-> rows[b] + (IF b \in Chunk(c) THEN 1 ELSE 0)]
        /\ due' = [b \in Block |-> due[b] + (IF b \in Chunk(c) THEN 1 ELSE 0)]
    BY <1>10 DEF Commit, flags
  <2>2. /\ call' \in [Calls -> Call] /\ CallsSensible'
        /\ messagesBeingProcessed' \in BOOLEAN /\ subscribed' \in BOOLEAN
    BY <2>1, AfterChunkType
  <2>3. processing_state' \in Block \union {NoBlock}
    BY <2>1, ChunkOfBlocks
  <2>4. rows' \in [Block -> Nat] /\ due' \in [Block -> Nat]
    BY <2>1 DEF TInv, TypeOK
  <2> QED BY <2>1, <2>2, <2>3, <2>4 DEF TInv, TypeOK, Block
<1> QED BY <1>3, <1>4, <1>5, <1>6, <1>7, <1>8, <1>9, <1>10 DEF Step
\* Every step of the listener or of the world keeps the types.
LEMMA TInvStep ==
    ASSUME TInv, [Next]_vars
    PROVE  TInv'
<1>1. ASSUME NEW c \in Calls, Step(c) PROVE TInv'
  BY <1>1, StepType
<1>2. ASSUME NEW c \in Calls, FailChunk(c) PROVE TInv'
  <2>1. /\ UNCHANGED <<head, database, lastBlockId, flags, messages>> /\ Happens("failure")
        /\ call[c].pc \in {"begin", "trx"} /\ AfterChunk(c)
    BY <1>2 DEF FailChunk
  <2>2. /\ call' \in [Calls -> Call] /\ CallsSensible'
        /\ messagesBeingProcessed' \in BOOLEAN /\ subscribed' \in BOOLEAN
    BY <2>1, AfterChunkType DEF flags
  <2>3. events' \in [Event -> Nat]
    BY <2>1, HappensType DEF Event, TInv, TypeOK
  <2> QED BY <2>1, <2>2, <2>3 DEF TInv, TypeOK, Block, flags, messages, database
<1>3. ASSUME NEW c \in Calls, RestPreload(c) PROVE TInv'
  <2>1. /\ UNCHANGED <<head, database, lastBlockId, messagesBeingProcessed, flags, subscribed,
                       messages>>
        /\ Happens("preload")
    BY <1>3 DEF RestPreload
  <2>2. PICK r : r = [Idle EXCEPT !.pc = IF lastBlockId = 0 THEN "read" ELSE "head"]
    OBVIOUS
  <2>3. r \in Call /\ r.pc \in {"read", "head"} /\ call' = [call EXCEPT ![c] = r]
    BY <1>3, <2>2, IdleCall DEF Call, RestPreload
  <2>4. call' \in [Calls -> Call] /\ CallsSensible'
    BY <2>1, <2>3, GoOnTo DEF flags
  <2>5. events' \in [Event -> Nat]
    BY <2>1, HappensType DEF Event, TInv, TypeOK
  <2> QED BY <2>1, <2>4, <2>5 DEF TInv, TypeOK, Block, flags, messages, database
<1>4. ASSUME NEW c \in Calls, NEW h \in 1..head, Header(c, h) PROVE TInv'
  <2>1. UNCHANGED Rest /\ UNCHANGED lastBlockId
    BY <1>4 DEF Header, Rest, database, messages, flags
  <2>2. PICK r : r = [Idle EXCEPT !.kind = "newBlock", !.to = h]
    OBVIOUS
  <2>3. h \in Block /\ lastBlockId \in Block \union {NoBlock}
    BY ListenerAssumption DEF TInv, TypeOK, Block
  <2>4. r \in Call
    BY <2>2, <2>3, IdleCall DEF Call
  <2>5. CASE /\ call' = [call EXCEPT ![c] = [r EXCEPT !.pc = "read"]]
             /\ UNCHANGED <<messagesBeingProcessed, subscribed>>
    <3>1. PICK s : s = [r EXCEPT !.pc = "read"]
      OBVIOUS
    <3>2. s \in Call /\ s.pc = "read" /\ call' = [call EXCEPT ![c] = s]
      BY <2>4, <2>5, <3>1 DEF Call
    <3>3. call' \in [Calls -> Call] /\ CallsSensible'
      BY <2>1, <3>2, GoOnTo DEF Rest
    <3>4. messagesBeingProcessed' \in BOOLEAN /\ subscribed' \in BOOLEAN
      BY <2>5 DEF TInv, TypeOK
    <3> QED BY <2>1, <2>3, <3>3, <3>4, CallStepType
  <2>6. CASE Ingest(c, FromLast(r))
    <3>1. lastBlockId + 1 \in 0 .. Horizon + 1
      BY <2>3, ListenerAssumption DEF Block, NoBlock
    <3>2. PICK s : s = FromLast(r)
      OBVIOUS
    <3>3. s \in Call /\ Ingest(c, s)
      BY <2>4, <2>6, <3>1, <3>2 DEF Call, FromLast
    <3>4. /\ call' \in [Calls -> Call] /\ CallsSensible'
          /\ messagesBeingProcessed' \in BOOLEAN /\ subscribed' \in BOOLEAN
      BY <2>1, <3>3, IngestType DEF Rest
    <3> QED BY <2>1, <2>3, <3>4, CallStepType
  <2> QED BY <1>4, <2>2, <2>5, <2>6 DEF Header
<1>5. CASE SendDue
  BY <1>5 DEF SendDue, TInv, TypeOK, CallsSensible, Block, database, flags
<1>6. CASE NewHead
  <2>1. head' \in Block
    BY <1>6, ListenerAssumption DEF NewHead, TInv, TypeOK, Block
  <2> QED BY <1>6, <2>1 DEF NewHead, TInv, TypeOK, CallsSensible, Block, database, flags, messages
<1>7. CASE Pause
  <2>1. events' \in [Event -> Nat]
    BY <1>7, HappensType DEF Pause, Event, TInv, TypeOK
  <2> QED BY <1>7, <2>1 DEF Pause, TInv, TypeOK, CallsSensible, Block, database, messages
<1>8. CASE Resume
  BY <1>8 DEF Resume, TInv, TypeOK, CallsSensible, Block, database, messages
<1>9. CASE Stop
  <2>1. events' \in [Event -> Nat]
    BY <1>9, HappensType DEF Stop, Event, TInv, TypeOK
  <2>2. CallsSensible'
    BY <1>9 DEF Stop, TInv, CallsSensible, Sensible
  <2> QED BY <1>9, <2>1, <2>2 DEF Stop, TInv, TypeOK, Block, database, messages
<1>10. ASSUME Restart, events' \in [Event -> Nat] PROVE TInv'
  <2>1. PICK c \in Calls : call' = StartWith(c)
    BY <1>10 DEF Restart
  <2>2. call' \in [Calls -> Call] /\ CallsSensible'
    BY <2>1, StartType
  <2>3. lastBlockId' \in Block \union {NoBlock} /\ due' \in [Block -> Nat]
    BY <1>10, ListenerAssumption DEF Restart, Block
  <2>4. /\ messagesBeingProcessed' \in BOOLEAN /\ isPaused' \in BOOLEAN
        /\ gracefulShutdownFlag' \in BOOLEAN /\ subscribed' \in BOOLEAN
    BY <1>10 DEF Restart
  <2> QED BY <1>10, <2>2, <2>3, <2>4 DEF Restart, TInv, TypeOK, Block, database
<1>11. CASE Crash
  BY <1>10, <1>11, HappensType DEF Crash, Event, TInv, TypeOK
<1>12. CASE Exit
  BY <1>10, <1>12 DEF Exit, TInv, TypeOK
<1>13. CASE UNCHANGED vars
  BY <1>13 DEF vars, TInv, TypeOK, CallsSensible, Block, database, flags, messages
<1> QED BY <1>1, <1>2, <1>3, <1>4, <1>5, <1>6, <1>7, <1>8, <1>9, <1>11, <1>12, <1>13 DEF Next

THEOREM ListenerInv == Spec => []TInv
<1> QED BY TInvInit, TInvStep, PTL DEF Spec

\* Every reachable state of the listener has its type: no chunk reaches beyond the
\* blocks its call was asked for, however calls overlap and whatever fails.
THEOREM ListenerTypeCorrect == Spec => []TypeOK
<1>1. TInv => TypeOK
  BY DEF TInv
<1> QED BY <1>1, ListenerInv, PTL
-----------------------------------------------------------------------------
(***************************************************************************)
(* Messages.  Besides the property itself, a raised flag tells of a stop:  *)
(* Exit loses messages, and needs the flag.                                *)
(***************************************************************************)
StopRaisesFlag == gracefulShutdownFlag => events["stop"] > 0

MessageInv == MessagesFollowRows /\ StopRaisesFlag

\* Events are never taken back.
LEMMA EventsGrow ==
    ASSUME TInv, [Next]_vars
    PROVE  \A k \in Event : events'[k] >= events[k]
<1>1. \A k \in Event : events[k] \in Nat
  BY DEF TInv, TypeOK
<1>2. ASSUME NEW k \in Event, Happens(k)
      PROVE  \A j \in Event : events'[j] >= events[j]
  BY <1>1, <1>2 DEF Happens, TInv, TypeOK
<1>3. ASSUME UNCHANGED events PROVE \A j \in Event : events'[j] >= events[j]
  BY <1>1, <1>3
<1>4. UNCHANGED events \/ \E k \in Event : Happens(k)
  BY DEF Next, vars, Step, ReadState, Assign, AskHead, StartIngest, EndSleep, GoOn, Begin, Commit,
         FailChunk, RestPreload, Header, SendDue, NewHead, Pause, Resume, Stop, Crash, Exit, Event
<1> QED BY <1>2, <1>3, <1>4

LEMMA EndedStays ==
    ASSUME TInv, [Next]_vars
    PROVE  Ended => Ended'
<1>1. /\ events["crash"] \in Nat /\ events["stop"] \in Nat
      /\ events'["crash"] \in Nat /\ events'["stop"] \in Nat
  BY TInvStep DEF TInv, TypeOK, Event
<1>2. events'["crash"] >= events["crash"] /\ events'["stop"] >= events["stop"]
  BY EventsGrow DEF Event
<1> QED BY <1>1, <1>2 DEF Ended

LEMMA MessageInit == Init => MessageInv
<1> SUFFICES ASSUME Init PROVE MessageInv
  OBVIOUS
<1>1. \A b \in Block : rows[b] = 0 /\ due[b] = 0 /\ sent[b] = 0
  BY DEF Init
<1>2. MessagesFollowRows
  BY <1>1 DEF MessagesFollowRows
<1>3. StopRaisesFlag
  BY DEF Init, StopRaisesFlag
<1> QED BY <1>2, <1>3 DEF MessageInv

LEMMA MessageStep ==
    ASSUME TInv, MessageInv, [Next]_vars
    PROVE  MessageInv'
<1>1. /\ \A b \in Block : rows[b] \in Nat /\ due[b] \in Nat /\ sent[b] \in Nat
      /\ \A k \in Event : events[k] \in Nat /\ events'[k] \in Nat
  BY TInvStep DEF TInv, TypeOK
<1>2. ASSUME UNCHANGED <<rows, due, sent>> PROVE MessagesFollowRows'
  BY <1>2, EndedStays DEF MessageInv, MessagesFollowRows
<1>3. ASSUME NEW c \in Calls, Commit(c) PROVE MessagesFollowRows'
  <2>1. ASSUME NEW b \in Block
        PROVE  /\ due'[b] + sent'[b] <= rows'[b]
               /\ ~ Ended => due'[b] + sent'[b] = rows'[b]
    <3> DEFINE n == IF b \in Chunk(c) THEN 1 ELSE 0
    <3>1. rows'[b] = rows[b] + n /\ due'[b] = due[b] + n /\ sent'[b] = sent[b]
      BY <1>3 DEF Commit
    <3>2. due[b] + sent[b] <= rows[b] /\ (~ Ended => due[b] + sent[b] = rows[b])
      BY DEF MessageInv, MessagesFollowRows
    <3> QED BY <1>1, <3>1, <3>2
  <2> QED BY <2>1, EndedStays DEF MessagesFollowRows
<1>4. ASSUME SendDue PROVE MessagesFollowRows'
  <2>1. ASSUME NEW b \in Block PROVE due'[b] = 0 /\ sent'[b] = sent[b] + due[b] /\ rows'[b] = rows[b]
    BY <1>4 DEF SendDue, database
  <2> QED BY <1>1, <2>1, EndedStays DEF MessageInv, MessagesFollowRows
<1>5. ASSUME Restart, Ended' PROVE MessagesFollowRows'
  <2>1. ASSUME NEW b \in Block PROVE due'[b] = 0 /\ sent'[b] = sent[b] /\ rows'[b] = rows[b]
    BY <1>5 DEF Restart, database
  <2> QED BY <1>1, <1>5, <2>1 DEF MessageInv, MessagesFollowRows
<1>6. Crash => Restart /\ Ended'
  <2> SUFFICES ASSUME Crash PROVE Restart /\ Ended'
    OBVIOUS
  <2>1. events'["crash"] = events["crash"] + 1 /\ "crash" \in Event /\ "stop" \in Event
    BY DEF Crash, Happens, Event, TInv, TypeOK
  <2>2. Ended'
    BY <1>1, <2>1 DEF Ended
  <2> QED BY <2>2 DEF Crash
<1>7. Exit => Restart /\ Ended'
  <2> SUFFICES ASSUME Exit PROVE Restart /\ Ended'
    OBVIOUS
  <2>1. events["stop"] > 0 /\ events["crash"] \in Nat /\ events["stop"] \in Nat
    BY <1>1 DEF Exit, MessageInv, StopRaisesFlag, Event
  <2>2. events' = events
    BY DEF Exit
  <2>3. Ended'
    BY <2>1, <2>2 DEF Ended
  <2> QED BY <2>3 DEF Exit
<1>8. MessagesFollowRows'
  <2>1. \/ UNCHANGED <<rows, due, sent>>
        \/ \E c \in Calls : Commit(c)
        \/ SendDue \/ Crash \/ Exit
    BY DEF Next, vars, Step, ReadState, Assign, AskHead, StartIngest, EndSleep, GoOn, Begin,
           FailChunk, RestPreload, Header, NewHead, Pause, Resume, Stop, database, messages
  <2> QED BY <1>2, <1>3, <1>4, <1>5, <1>6, <1>7, <2>1
<1>9. StopRaisesFlag'
  <2>1. CASE Stop
    <3>1. events'["stop"] = events["stop"] + 1 /\ "stop" \in Event
      BY <2>1 DEF Stop, Happens, Event, TInv, TypeOK
    <3> QED BY <1>1, <3>1 DEF StopRaisesFlag
  <2>2. CASE ~ Stop
    <3>1. UNCHANGED gracefulShutdownFlag \/ ~ gracefulShutdownFlag'
      BY <2>2 DEF Next, vars, Step, ReadState, Assign, AskHead, StartIngest, EndSleep, GoOn, Begin,
           Commit, FailChunk, RestPreload, Header, SendDue, NewHead, Pause, Resume, Crash, Exit,
           Restart, flags
    <3>2. events'["stop"] >= events["stop"] /\ "stop" \in Event
      BY EventsGrow DEF Event
    <3>3. gracefulShutdownFlag => events["stop"] > 0
      BY DEF MessageInv, StopRaisesFlag
    <3>4. gracefulShutdownFlag' => gracefulShutdownFlag
      BY <3>1
    <3>5. events["stop"] > 0 => events'["stop"] > 0
      BY <1>1, <3>2
    <3> QED BY <3>3, <3>4, <3>5 DEF StopRaisesFlag
  <2> QED BY <2>1, <2>2
<1> QED BY <1>8, <1>9 DEF MessageInv

\* No message is sent, or due, for a row that is not in the database, and a message
\* is lost only when the process ends: the timers are set after the transaction.
THEOREM MessagesOnlyForRows == Spec => []MessagesFollowRows
<1>1. Init => MessageInv
  BY MessageInit
<1>2. TInv /\ MessageInv /\ [Next]_vars => MessageInv'
  BY MessageStep
<1>3. MessageInv => MessagesFollowRows
  BY DEF MessageInv
<1> QED BY <1>1, <1>2, <1>3, ListenerInv, PTL DEF Spec
-----------------------------------------------------------------------------
(***************************************************************************)
(* Calls kept apart.  Either at most one call is in progress, and what it  *)
(* and the memory know of processing_state is so (Solo); or the process is *)
(* stopping, and headers ask the database in vain (Quiet).                 *)
(***************************************************************************)
Ingesting == {"paused", "begin", "trx", "loop"}

OthersIdle(c) == \A d \in Calls \ {c} : call[d].pc = "idle"

\* What the call and the memory know of processing_state.
Knows(c) ==
    /\ call[c].pc = "trx" =>
          call[c].next = processing_state + 1 /\ lastBlockId = call[c].last
    /\ call[c].pc # "trx" =>
          \/ lastBlockId = processing_state
          \/ lastBlockId = 0 /\ ~ subscribed /\ call[c].pc \in {"read", "assign"}
    /\ call[c].pc = "assign" => call[c].last = processing_state
    /\ call[c].pc \in Ingesting \ {"trx"} => call[c].next = processing_state + 1
    /\ call[c].pc \in Ingesting \union {"start"} => call[c].to >= 1

\* Until heads are subscribed to it is preload, and afterwards newBlock, which
\* ingests only with the flag raised and a height in memory.
IsExpected(c) ==
    /\ ~ subscribed => call[c].pc # "idle" /\ call[c].kind = "preload"
    /\ subscribed =>
          /\ call[c].pc # "idle" =>
                call[c].pc \in Ingesting /\ call[c].kind = "newBlock" /\ messagesBeingProcessed
          /\ gracefulShutdownFlag \/ lastBlockId >= 1

Solo(c) == OthersIdle(c) /\ Knows(c) /\ IsExpected(c)

AsksInVain(c) ==
    \/ call[c].pc = "idle"
    \/ call[c].kind = "newBlock" /\ call[c].pc = "read"
    \/ call[c].kind = "newBlock" /\ call[c].pc = "assign" /\ call[c].last = processing_state

Quiet ==
    /\ subscribed /\ gracefulShutdownFlag
    /\ lastBlockId = processing_state
    /\ \A c \in Calls : AsksInVain(c)

RowsUpToState == \A b \in Block : rows[b] = IF b <= processing_state THEN 1 ELSE 0

ApartInv == /\ RowsUpToState
            /\ head >= FirstHead
            /\ (\E c \in Calls : Solo(c)) \/ Quiet

\* What is known of the types, for the steps below.
LEMMA Known ==
    ASSUME TInv, NEW c \in Calls
    PROVE  /\ processing_state \in Int /\ lastBlockId \in Int /\ head \in Nat
           /\ subscribed \in BOOLEAN /\ gracefulShutdownFlag \in BOOLEAN
           /\ call[c] \in Call
           /\ call[c].next \in Nat /\ call[c].to \in Nat /\ call[c].last \in Int
           /\ call[c].kind \in {"preload", "newBlock"}
           /\ Sensible(call[c], gracefulShutdownFlag)
  BY ListenerAssumption DEF TInv, TypeOK, CallsSensible, Call, Block, NoBlock

LEMMA OnlyOneChanges ==
    ASSUME TInv, NEW c \in Calls, NEW r, call' = [call EXCEPT ![c] = r]
    PROVE  /\ call'[c] = r
           /\ \A d \in Calls \ {c} : call'[d] = call[d]
           /\ OthersIdle(c) => OthersIdle(c)'
  BY DEF TInv, TypeOK, OthersIdle

\* The call that goes on ends: heads are subscribed to from here on.
LEMMA SoloReturn ==
    ASSUME TInv, NEW c \in Calls, OthersIdle(c), Return(c),
           subscribed \/ call[c].kind = "preload",
           UNCHANGED gracefulShutdownFlag,
           lastBlockId' = processing_state',
           gracefulShutdownFlag \/ lastBlockId' >= 1
    PROVE  Solo(c)'
<1>1. call' = [call EXCEPT ![c] = Idle] /\ subscribed'
  BY DEF Return
<1>2. OthersIdle(c)' /\ call'[c].pc = "idle"
  BY <1>1, OnlyOneChanges, IdleCall
<1> QED BY <1>1, <1>2 DEF Solo, Knows, IsExpected, Ingesting

\* The loop of ingestPreloadTasks, from the block after processing_state on.
LEMMA SoloIngest ==
    ASSUME TInv, NEW c \in Calls, NEW r \in Call, OthersIdle(c), Ingest(c, r),
           r.kind = IF subscribed THEN "newBlock" ELSE "preload",
           subscribed \/ call[c].kind = "preload",
           subscribed => messagesBeingProcessed \/ ~ isPaused,
           subscribed => gracefulShutdownFlag \/ lastBlockId' >= 1,
           r.next = processing_state + 1, r.to >= 1,
           UNCHANGED <<gracefulShutdownFlag, processing_state>>,
           lastBlockId' = processing_state
    PROVE  Solo(c)'
<1>1. /\ processing_state \in Int /\ r.next \in Nat /\ r.to \in Nat
      /\ subscribed \in BOOLEAN /\ gracefulShutdownFlag \in BOOLEAN
  BY Known, ListenerAssumption DEF Call, Block
<1>2. CASE Return(c) /\ (r.next > r.to \/ gracefulShutdownFlag)
  <2>1. gracefulShutdownFlag \/ lastBlockId' >= 1
    BY <1>1, <1>2
  <2> QED BY <1>2, <2>1, SoloReturn
<1>3. CASE /\ isPaused /\ UNCHANGED <<messagesBeingProcessed, subscribed>>
           /\ call' = [call EXCEPT ![c] = [r EXCEPT !.pc = "paused"]]
  <2>1. PICK s : s = [r EXCEPT !.pc = "paused"]
    OBVIOUS
  <2>2. s.pc = "paused" /\ s.next = r.next /\ s.to = r.to /\ s.kind = r.kind
    BY <2>1 DEF Call
  <2>3. call'[c] = s /\ OthersIdle(c)'
    BY <1>3, <2>1, OnlyOneChanges
  <2>4. Knows(c)'
    BY <2>2, <2>3 DEF Knows, Ingesting
  <2>5. IsExpected(c)'
    BY <1>3, <2>2, <2>3 DEF IsExpected, Ingesting
  <2> QED BY <2>3, <2>4, <2>5 DEF Solo
<1>4. CASE Collect(c, r)
  <2>1. PICK i : i = EndOfChunk(r)
    OBVIOUS
  <2>2. PICK s : s = [r EXCEPT !.pc = "begin", !.last = i]
    OBVIOUS
  <2>3. s.pc = "begin" /\ s.next = r.next /\ s.to = r.to /\ s.kind = r.kind
    BY <2>2 DEF Call
  <2>4. call'[c] = s /\ OthersIdle(c)'
    BY <1>4, <2>1, <2>2, OnlyOneChanges DEF Collect
  <2>5. UNCHANGED subscribed /\ messagesBeingProcessed'
    BY <1>4 DEF Collect
  <2>6. Knows(c)'
    BY <2>3, <2>4 DEF Knows, Ingesting
  <2>7. IsExpected(c)'
    BY <2>3, <2>4, <2>5 DEF IsExpected, Ingesting
  <2> QED BY <2>4, <2>6, <2>7 DEF Solo
<1> QED BY <1>2, <1>3, <1>4 DEF Ingest
\* What the steps of a call but Commit leave alone.
Kept == UNCHANGED <<processing_state, rows, head, gracefulShutdownFlag>>

\* Before heads are subscribed to, a call of preload asks for the database's state
\* and the head.
LEMMA SoloAsks ==
    ASSUME TInv, FirstHead > 0, head >= FirstHead, NEW c \in Calls, Solo(c),
           ReadState(c) \/ Assign(c) \/ AskHead(c) \/ StartIngest(c)
    PROVE  Solo(c)' /\ Kept
<1> USE DEF Kept
<1>0. OthersIdle(c) /\ Knows(c) /\ IsExpected(c)
  BY DEF Solo
<1>1. PICK r : r = call[c]
  OBVIOUS
<1>2. /\ r \in Call /\ r.next \in Nat /\ r.to \in Nat /\ r.last \in Int
      /\ processing_state \in Int /\ lastBlockId \in Int /\ head \in Nat
      /\ call \in [Calls -> Call]
  BY <1>1, Known DEF TInv, TypeOK
<1>3. r.pc \in {"read", "assign", "head", "start"}
  BY <1>1 DEF ReadState, Assign, AskHead, StartIngest
<1>4. ~ subscribed /\ r.kind = "preload"
  BY <1>0, <1>1, <1>3 DEF IsExpected, Ingesting
<1>5. head >= 1
  BY <1>2, ListenerAssumption
<1>6. CASE ReadState(c)
  <2>1. Kept /\ UNCHANGED <<lastBlockId, messagesBeingProcessed, subscribed>> /\ r.pc = "read"
    BY <1>1, <1>6 DEF ReadState, database, flags
  <2>2. PICK s : s = [r EXCEPT !.pc = "assign", !.last = processing_state]
    OBVIOUS
  <2>3. s.pc = "assign" /\ s.kind = r.kind /\ s.to = r.to /\ s.last = processing_state
    BY <1>2, <2>2 DEF Call
  <2>4. call' = [call EXCEPT ![c] = s]
    BY <1>1, <1>2, <1>6, <2>2 DEF ReadState
  <2>5. call'[c] = s /\ OthersIdle(c)'
    BY <1>0, <2>4, OnlyOneChanges
  <2>6. Knows(c)'
    BY <1>0, <1>1, <2>1, <2>3, <2>5 DEF Knows, Ingesting
  <2>7. IsExpected(c)'
    BY <1>4, <2>1, <2>3, <2>5 DEF IsExpected
  <2> QED BY <2>1, <2>5, <2>6, <2>7 DEF Solo
<1>7. CASE Assign(c)
  <2>1. Kept /\ lastBlockId' = r.last /\ r.pc = "assign"
    BY <1>1, <1>7 DEF Assign, database, flags
  <2>2. r.last = processing_state
    BY <1>0, <1>1, <2>1 DEF Knows
  <2>3. /\ call' = [call EXCEPT ![c].pc = "head"]
        /\ UNCHANGED <<messagesBeingProcessed, subscribed>>
    BY <1>1, <1>4, <1>7 DEF Assign
  <2>4. PICK s : s = [r EXCEPT !.pc = "head"]
    OBVIOUS
  <2>5. s.pc = "head" /\ s.kind = r.kind /\ call' = [call EXCEPT ![c] = s]
    BY <1>1, <1>2, <2>3, <2>4 DEF Call
  <2>6. call'[c] = s /\ OthersIdle(c)'
    BY <1>0, <2>5, OnlyOneChanges
  <2>7. Knows(c)'
    BY <2>1, <2>2, <2>5, <2>6 DEF Knows, Ingesting
  <2>8. IsExpected(c)'
    BY <1>4, <2>3, <2>5, <2>6 DEF IsExpected
  <2> QED BY <2>1, <2>6, <2>7, <2>8 DEF Solo
<1>8. CASE AskHead(c)
  <2>1. /\ Kept /\ UNCHANGED <<lastBlockId, messagesBeingProcessed, subscribed>>
        /\ call[c].pc = "head"
    BY <1>8 DEF AskHead, database, flags
  <2>2. PICK s : s = [r EXCEPT !.pc = "start", !.to = head]
    OBVIOUS
  <2>3. s.pc = "start" /\ s.kind = r.kind /\ s.to = head
    BY <1>2, <2>2 DEF Call
  <2>4. call' = [call EXCEPT ![c] = s]
    BY <1>1, <1>2, <1>8, <2>2 DEF AskHead
  <2>5. call'[c] = s /\ OthersIdle(c)'
    BY <1>0, <2>4, OnlyOneChanges
  <2>6. Knows(c)'
    BY <1>0, <1>5, <2>1, <2>3, <2>5 DEF Knows, Ingesting
  <2>7. IsExpected(c)'
    BY <1>4, <2>1, <2>3, <2>5 DEF IsExpected
  <2> QED BY <2>1, <2>5, <2>6, <2>7 DEF Solo
<1>9. CASE StartIngest(c)
  <2>1. Kept /\ UNCHANGED lastBlockId /\ r.pc = "start"
    BY <1>1, <1>9 DEF StartIngest, database, flags
  <2>2. lastBlockId = processing_state /\ r.to >= 1
    BY <1>0, <1>1, <1>4, <2>1 DEF Knows, Ingesting
  <2>3. PICK s : s = [r EXCEPT !.next = lastBlockId + 1]
    OBVIOUS
  <2>4. s.kind = "preload" /\ s.to = r.to /\ s.next = processing_state + 1
    BY <1>2, <1>4, <2>2, <2>3 DEF Call
  <2>5. s \in Call
    <3>1. processing_state \in Block \union {NoBlock}
      BY DEF TInv, TypeOK
    <3>2. processing_state + 1 \in 0 .. Horizon + 1
      BY <3>1, ListenerAssumption DEF Block, NoBlock
    <3> QED BY <1>2, <2>2, <2>3, <3>2 DEF Call
  <2>6. Ingest(c, s)
    BY <1>1, <1>9, <2>3 DEF StartIngest, FromLast
  <2>7. Solo(c)'
    BY <1>0, <1>1, <1>4, <2>1, <2>2, <2>4, <2>5, <2>6, SoloIngest
  <2> QED BY <2>1, <2>7
<1> QED BY <1>6, <1>7, <1>8, <1>9
\* The call that ingests goes on to its next chunk, and begins its transaction.
LEMMA SoloIngests ==
    ASSUME TInv, NEW c \in Calls, Solo(c), EndSleep(c) \/ GoOn(c) \/ Begin(c)
    PROVE  Solo(c)' /\ Kept
<1> USE DEF Kept
<1>0. OthersIdle(c) /\ Knows(c) /\ IsExpected(c)
  BY DEF Solo
<1>1. PICK r : r = call[c]
  OBVIOUS
<1>2. /\ r \in Call /\ r.next \in Nat /\ r.to \in Nat /\ r.last \in Int
      /\ r.kind \in {"preload", "newBlock"}
      /\ processing_state \in Int /\ lastBlockId \in Int
      /\ call \in [Calls -> Call] /\ subscribed \in BOOLEAN
      /\ Sensible(r, gracefulShutdownFlag)
  BY <1>1, Known DEF TInv, TypeOK
<1>3. r.pc \in {"loop", "paused", "begin"}
  BY <1>1 DEF EndSleep, GoOn, Begin
<1>4. r.next = processing_state + 1 /\ r.to >= 1 /\ lastBlockId = processing_state
  BY <1>0, <1>1, <1>3 DEF Knows, Ingesting
<1>5. /\ subscribed => r.kind = "newBlock" /\ messagesBeingProcessed
      /\ ~ subscribed => r.kind = "preload"
      /\ subscribed => gracefulShutdownFlag \/ lastBlockId >= 1
  BY <1>0, <1>1, <1>3 DEF IsExpected
<1>6. CASE EndSleep(c)
  <2>1. Kept /\ UNCHANGED lastBlockId /\ Ingest(c, r)
    BY <1>1, <1>6 DEF EndSleep, database, flags
  <2> QED BY <1>0, <1>1, <1>2, <1>4, <1>5, <2>1, SoloIngest
<1>7. CASE GoOn(c)
  <2>1. Kept /\ UNCHANGED lastBlockId /\ Collect(c, r)
    BY <1>1, <1>7 DEF GoOn, database, flags
  <2>2. PICK i : i = EndOfChunk(r)
    OBVIOUS
  <2>3. PICK s : s = [r EXCEPT !.pc = "begin", !.last = i]
    OBVIOUS
  <2>4. s.pc = "begin" /\ s.next = r.next /\ s.to = r.to /\ s.kind = r.kind
    BY <1>2, <2>3 DEF Call
  <2>5. call'[c] = s /\ OthersIdle(c)'
    BY <1>0, <2>1, <2>2, <2>3, OnlyOneChanges DEF Collect
  <2>6. UNCHANGED subscribed /\ messagesBeingProcessed'
    BY <2>1 DEF Collect
  <2>7. Knows(c)'
    BY <1>4, <2>1, <2>4, <2>5 DEF Knows, Ingesting
  <2>8. IsExpected(c)'
    BY <1>5, <2>1, <2>4, <2>5, <2>6 DEF IsExpected, Ingesting
  <2> QED BY <2>1, <2>5, <2>7, <2>8 DEF Solo
<1>8. CASE Begin(c)
  <2>1. /\ Kept /\ UNCHANGED <<messagesBeingProcessed, subscribed>>
        /\ lastBlockId' = r.last /\ r.pc = "begin"
    BY <1>1, <1>8 DEF Begin, database, flags
  <2>2. PICK s : s = [r EXCEPT !.pc = "trx"]
    OBVIOUS
  <2>3. s.pc = "trx" /\ s.next = r.next /\ s.to = r.to /\ s.last = r.last /\ s.kind = r.kind
    BY <1>2, <2>2 DEF Call
  <2>4. call' = [call EXCEPT ![c] = s]
    BY <1>1, <1>2, <1>8, <2>2 DEF Begin
  <2>5. call'[c] = s /\ OthersIdle(c)'
    BY <1>0, <2>4, OnlyOneChanges
  <2>6. Knows(c)'
    BY <1>4, <2>1, <2>3, <2>5 DEF Knows, Ingesting
  <2>7. r.last >= r.next
    BY <1>2, <2>1 DEF Sensible
  <2>8. processing_state >= 1 => r.last >= 1
    BY <1>2, <1>4, <2>7
  <2>9. subscribed' => gracefulShutdownFlag' \/ lastBlockId' >= 1
    BY <1>4, <1>5, <2>1, <2>8
  <2>10. IsExpected(c)'
    BY <1>5, <2>1, <2>3, <2>5, <2>9 DEF IsExpected, Ingesting
  <2> QED BY <2>1, <2>5, <2>6, <2>10 DEF Solo
<1> QED BY <1>6, <1>7, <1>8

\* The transaction of a chunk ends where the next chunk begins.
LEMMA SoloCommit ==
    ASSUME TInv, NEW c \in Calls, Solo(c), Commit(c), RowsUpToState
    PROVE  Solo(c)' /\ RowsUpToState' /\ head' = head /\ processing_state' > processing_state
<1>0. OthersIdle(c) /\ Knows(c) /\ IsExpected(c)
  BY DEF Solo
<1>1. PICK r : r = call[c]
  OBVIOUS
<1>2. /\ r \in Call /\ r.next \in Nat /\ r.to \in Nat /\ r.last \in Int
      /\ r.kind \in {"preload", "newBlock"}
      /\ processing_state \in Int /\ lastBlockId \in Int
      /\ call \in [Calls -> Call] /\ subscribed \in BOOLEAN
      /\ Sensible(r, gracefulShutdownFlag)
  BY <1>1, Known DEF TInv, TypeOK
<1>3. /\ r.pc = "trx" /\ processing_state' = r.last /\ AfterChunk(c)
      /\ UNCHANGED <<head, lastBlockId, gracefulShutdownFlag>>
  BY <1>1 DEF Commit, flags
<1>4. r.next = processing_state + 1 /\ r.to >= 1 /\ lastBlockId = r.last
  BY <1>0, <1>1, <1>3 DEF Knows, Ingesting
<1>5. r.last >= r.next /\ r.last \in Nat
  BY <1>2, <1>3 DEF Sensible
<1>6. RowsUpToState'
  <2>1. ASSUME NEW b \in Block PROVE rows'[b] = IF b <= processing_state' THEN 1 ELSE 0
    <3>1. rows[b] = IF b <= processing_state THEN 1 ELSE 0
      BY DEF RowsUpToState
    <3>2. rows'[b] = rows[b] + (IF b \in r.next .. r.last THEN 1 ELSE 0)
      BY <1>1 DEF Commit, Chunk
    <3>3. b \in Nat
      BY ListenerAssumption DEF Block
    <3> QED BY <1>2, <1>3, <1>4, <1>5, <3>1, <3>2, <3>3
  <2> QED BY <2>1 DEF RowsUpToState
<1>7. processing_state' > processing_state
  BY <1>2, <1>3, <1>4, <1>5
<1>8. /\ subscribed => r.kind = "newBlock" /\ messagesBeingProcessed
      /\ ~ subscribed => r.kind = "preload"
      /\ subscribed => gracefulShutdownFlag \/ lastBlockId >= 1
  BY <1>0, <1>1, <1>3 DEF IsExpected
<1>9. CASE /\ call' = [call EXCEPT ![c].pc = "loop", ![c].next = call[c].last + 1]
           /\ UNCHANGED <<messagesBeingProcessed, subscribed>>
  <2>1. PICK s : s = [r EXCEPT !.pc = "loop", !.next = r.last + 1]
    OBVIOUS
  <2>2. s.pc = "loop" /\ s.next = r.last + 1 /\ s.to = r.to /\ s.kind = r.kind
    BY <1>2, <2>1 DEF Call
  <2>3. call' = [call EXCEPT ![c] = s]
    BY <1>1, <1>2, <1>9, <2>1
  <2>4. call'[c] = s /\ OthersIdle(c)'
    BY <1>0, <2>3, OnlyOneChanges
  <2>5. Knows(c)'
    BY <1>3, <1>4, <2>2, <2>4 DEF Knows, Ingesting
  <2>6. IsExpected(c)'
    BY <1>3, <1>8, <1>9, <2>2, <2>4 DEF IsExpected, Ingesting
  <2>7. Solo(c)'
    BY <2>4, <2>5, <2>6 DEF Solo
  <2> QED BY <1>3, <1>6, <1>7, <2>7
<1>10. CASE r.last % ChunkSize # 0 /\ Return(c)
  <2>1. r.last # 0
    BY <1>10, ListenerAssumption
  <2>2. lastBlockId' >= 1 /\ lastBlockId' = processing_state'
    BY <1>3, <1>4, <1>5, <2>1
  <2>3. Solo(c)'
    BY <1>0, <1>1, <1>3, <1>8, <1>10, <2>2, SoloReturn
  <2> QED BY <1>3, <1>6, <1>7, <2>3
<1> QED BY <1>1, <1>3, <1>9, <1>10 DEF AfterChunk
\* When heads are subscribed to and the listener takes one, no call ingests.
LEMMA HeadersComeAlone ==
    ASSUME TInv, NEW c \in Calls, Solo(c), subscribed, Accepts
    PROVE  /\ \A d \in Calls : call[d].pc = "idle"
           /\ lastBlockId = processing_state
           /\ gracefulShutdownFlag \/ lastBlockId >= 1
<1>1. call[c].pc = "idle"
  BY DEF Solo, IsExpected, Accepts
<1> QED BY <1>1 DEF Solo, OthersIdle, Knows, IsExpected

\* With all calls idle, a header is ingested; or, during a shutdown, the call asks
\* the database for the height.
LEMMA HeaderAlone ==
    ASSUME TInv, NEW w \in Calls, Solo(w), NEW c \in Calls, NEW h \in 1..head, Header(c, h)
    PROVE  (Solo(c)' \/ Quiet') /\ Kept
<1> USE DEF Kept
<1>1. /\ \A d \in Calls : call[d].pc = "idle"
      /\ lastBlockId = processing_state
      /\ gracefulShutdownFlag \/ lastBlockId >= 1
  BY HeadersComeAlone DEF Header
<1>2. Kept /\ UNCHANGED lastBlockId /\ subscribed /\ Accepts
  BY DEF Header, database, flags
<1>3. OthersIdle(c)
  BY <1>1 DEF OthersIdle
<1>4. PICK r : r = [Idle EXCEPT !.kind = "newBlock", !.to = h]
  OBVIOUS
<1>5. h \in Block /\ h >= 1 /\ lastBlockId \in Block \union {NoBlock}
  BY ListenerAssumption DEF TInv, TypeOK, Block
<1>6. r \in Call /\ r.kind = "newBlock" /\ r.to = h
  BY <1>4, <1>5, IdleCall DEF Call
<1>7. CASE /\ lastBlockId = 0 /\ call' = [call EXCEPT ![c] = [r EXCEPT !.pc = "read"]]
           /\ UNCHANGED <<messagesBeingProcessed, subscribed>>
  <2>1. PICK s : s = [r EXCEPT !.pc = "read"]
    OBVIOUS
  <2>2. s.pc = "read" /\ s.kind = "newBlock"
    BY <1>6, <2>1 DEF Call
  <2>3. call'[c] = s /\ \A d \in Calls \ {c} : call'[d] = call[d]
    BY <1>7, <2>1, OnlyOneChanges
  <2>4. \A d \in Calls : AsksInVain(d)'
    BY <1>1, <2>2, <2>3 DEF AsksInVain
  <2>5. gracefulShutdownFlag
    BY <1>1, <1>7
  <2> QED BY <1>1, <1>2, <1>7, <2>4, <2>5 DEF Quiet
<1>8. CASE Ingest(c, FromLast(r))
  <2>1. PICK s : s = FromLast(r)
    OBVIOUS
  <2>2. lastBlockId + 1 \in 0 .. Horizon + 1
    BY <1>5, ListenerAssumption DEF Block, NoBlock
  <2>3. s \in Call /\ s.kind = "newBlock" /\ s.to >= 1 /\ s.next = processing_state + 1
    BY <1>1, <1>5, <1>6, <2>1, <2>2 DEF Call, FromLast
  <2>4. Solo(c)'
    BY <1>1, <1>2, <1>3, <1>8, <2>1, <2>3, SoloIngest DEF Accepts
  <2> QED BY <1>2, <2>4
<1> QED BY <1>4, <1>7, <1>8 DEF Header

\* During a shutdown calls that have asked the database end without a chunk.
LEMMA QuietIngest ==
    ASSUME TInv, Quiet, NEW c \in Calls, NEW r, Ingest(c, r),
           UNCHANGED <<gracefulShutdownFlag, processing_state>>,
           lastBlockId' = processing_state
    PROVE  Quiet'
<1>1. Return(c)
  BY DEF Quiet, Ingest
<1>2. call' = [call EXCEPT ![c] = Idle] /\ subscribed'
  BY <1>1 DEF Return, Quiet
<1>3. call'[c] = Idle /\ \A d \in Calls \ {c} : call'[d] = call[d]
  BY <1>2, OnlyOneChanges
<1>4. \A d \in Calls : AsksInVain(d)'
  BY <1>3, IdleCall DEF Quiet, AsksInVain
<1> QED BY <1>2, <1>4 DEF Quiet

LEMMA QuietStep ==
    ASSUME TInv, Quiet, NEW c \in Calls,
           Step(c) \/ \E h \in 1..head : Header(c, h)
    PROVE  Quiet' /\ Kept
<1> USE DEF Kept
<1>1. AsksInVain(c) /\ call \in [Calls -> Call]
  BY DEF Quiet, TInv, TypeOK
<1>2. CASE ReadState(c)
  <2>1. Kept /\ UNCHANGED <<lastBlockId, subscribed>> /\ call[c].pc = "read"
    BY <1>2 DEF ReadState, database, flags
  <2>2. PICK r : r = call[c]
    OBVIOUS
  <2>3. PICK s : s = [r EXCEPT !.pc = "assign", !.last = processing_state]
    OBVIOUS
  <2>4. r \in Call /\ r.kind = "newBlock"
    BY <1>1, <2>1, <2>2 DEF AsksInVain
  <2>5. s.pc = "assign" /\ s.kind = "newBlock" /\ s.last = processing_state
    BY <2>3, <2>4 DEF Call
  <2>6. call' = [call EXCEPT ![c] = s]
    BY <1>1, <1>2, <2>2, <2>3 DEF ReadState
  <2>7. call'[c] = s /\ \A d \in Calls \ {c} : call'[d] = call[d]
    BY <2>6, OnlyOneChanges
  <2>8. ASSUME NEW d \in Calls PROVE AsksInVain(d)'
    <3>1. CASE d = c
      BY <2>1, <2>5, <2>7, <3>1 DEF AsksInVain
    <3>2. CASE d # c
      BY <2>1, <2>7, <3>2 DEF AsksInVain, Quiet
    <3> QED BY <3>1, <3>2
  <2> QED BY <2>1, <2>8 DEF Quiet
<1>3. CASE Assign(c)
  <2>1. Kept /\ call[c].pc = "assign" /\ lastBlockId' = call[c].last
    BY <1>3 DEF Assign, database, flags
  <2>2. call[c].kind = "newBlock" /\ call[c].last = processing_state
    BY <1>1, <2>1 DEF AsksInVain
  <2>3. Ingest(c, [call[c] EXCEPT !.next = call[c].last + 1])
    BY <1>3, <2>2 DEF Assign
  <2>4. PICK r : r = [call[c] EXCEPT !.next = call[c].last + 1]
    OBVIOUS
  <2>5. Ingest(c, r)
    BY <2>3, <2>4
  <2>6. Quiet'
    BY <2>1, <2>2, <2>5, QuietIngest
  <2> QED BY <2>1, <2>6
<1>4. ASSUME NEW h \in 1..head, Header(c, h) PROVE Quiet' /\ Kept
  <2>1. Kept /\ UNCHANGED lastBlockId
    BY <1>4 DEF Header, database, flags
  <2>2. PICK r : r = [Idle EXCEPT !.kind = "newBlock", !.to = h]
    OBVIOUS
  <2>3. CASE call' = [call EXCEPT ![c] = [r EXCEPT !.pc = "read"]] /\ UNCHANGED subscribed
    <3>1. h \in Block
      BY ListenerAssumption DEF TInv, TypeOK, Block
    <3>2. r \in Call /\ r.kind = "newBlock"
      BY <2>2, <3>1, IdleCall DEF Call
    <3>3. PICK s : s = [r EXCEPT !.pc = "read"]
      OBVIOUS
    <3>4. s.pc = "read" /\ s.kind = "newBlock"
      BY <3>2, <3>3 DEF Call
    <3>5. call'[c] = s /\ \A d \in Calls \ {c} : call'[d] = call[d]
      BY <2>3, <3>3, OnlyOneChanges
    <3>6. \A d \in Calls : AsksInVain(d)'
      BY <2>1, <3>4, <3>5 DEF AsksInVain, Quiet
    <3> QED BY <2>1, <2>3, <3>6 DEF Quiet
  <2>4. CASE Ingest(c, FromLast(r))
    <3>1. PICK s : s = FromLast(r)
      OBVIOUS
    <3>2. Quiet'
      BY <2>1, <2>4, <3>1, QuietIngest DEF Quiet
    <3> QED BY <2>1, <3>2
  <2> QED BY <1>4, <2>2, <2>3, <2>4 DEF Header
<1>5. ~ (AskHead(c) \/ StartIngest(c) \/ EndSleep(c) \/ GoOn(c) \/ Begin(c) \/ Commit(c))
  BY <1>1 DEF AsksInVain, AskHead, StartIngest, EndSleep, GoOn, Begin, Commit
<1> QED BY <1>2, <1>3, <1>4, <1>5 DEF Step
LEMMA StartsSolo ==
    ASSUME NEW c \in Calls, call = StartWith(c), ~ subscribed,
           lastBlockId = 0
    PROVE  Solo(c)
<1>1. PICK r : r = [Idle EXCEPT !.pc = "read"]
  OBVIOUS
<1>2. r.pc = "read" /\ r.kind = "preload"
  BY <1>1 DEF Idle
<1>3. call = [d \in Calls |-> IF d = c THEN r ELSE Idle]
  BY <1>1 DEF StartWith
<1>4. call[c] = r /\ OthersIdle(c)
  BY <1>3, IdleCall DEF OthersIdle
<1> QED BY <1>2, <1>4 DEF Solo, Knows, IsExpected, Ingesting

LEMMA RestartsSolo ==
    ASSUME Restart
    PROVE  \E c \in Calls : Solo(c)'
<1>1. PICK c \in Calls : call' = StartWith(c)
  BY DEF Restart
<1>2. PICK r : r = [Idle EXCEPT !.pc = "read"]
  OBVIOUS
<1>3. r.pc = "read" /\ r.kind = "preload"
  BY <1>2 DEF Idle
<1>4. call' = [d \in Calls |-> IF d = c THEN r ELSE Idle]
  BY <1>1, <1>2 DEF StartWith
<1>5. call'[c] = r /\ OthersIdle(c)'
  BY <1>4, IdleCall DEF OthersIdle
<1>6. ~ subscribed' /\ lastBlockId' = 0
  BY DEF Restart
<1> QED BY <1>3, <1>5, <1>6 DEF Solo, Knows, IsExpected, Ingesting

LEMMA ApartInit == Init => ApartInv
<1> SUFFICES ASSUME Init PROVE ApartInv
  OBVIOUS
<1>1. PICK c \in Calls : call = StartWith(c)
  BY DEF Init
<1>2. Solo(c)
  BY <1>1, StartsSolo DEF Init
<1>3. RowsUpToState
  BY ListenerAssumption DEF Init, RowsUpToState, Block, NoBlock
<1>4. head >= FirstHead
  BY ListenerAssumption DEF Init
<1> QED BY <1>2, <1>3, <1>4 DEF ApartInv

\* Calls that are kept apart have been kept apart before.
LEMMA KeptApartBefore ==
    ASSUME TInv, [Next]_vars, KeptApart'
    PROVE  /\ KeptApart
           /\ ~ Happens("preload") /\ ~ Happens("failure")
<1>1. /\ \A k \in Event : events[k] \in Nat /\ events'[k] \in Nat
      /\ "preload" \in Event /\ "failure" \in Event
  BY TInvStep DEF TInv, TypeOK, Event
<1>2. \A k \in Event : events'[k] >= events[k]
  BY EventsGrow
<1>3. ~ (events'["preload"] > 0) /\ ~ (events'["failure"] > 0) /\ FirstHead > 0
  BY ListenerAssumption DEF KeptApart, SideBySide, Overlap, Failed
<1>4. ~ (events["preload"] > 0) /\ ~ (events["failure"] > 0)
  BY <1>1, <1>2, <1>3
<1>5. ASSUME NEW k \in {"preload", "failure"}, Happens(k) PROVE FALSE
  <2>1. events'[k] = events[k] + 1
    BY <1>1, <1>5 DEF Happens, TInv, TypeOK
  <2> QED BY <1>1, <1>3, <2>1
<1> QED BY <1>3, <1>4, <1>5 DEF KeptApart, SideBySide, Overlap, Failed

LEMMA ApartStep ==
    ASSUME TInv, KeptApart => ApartInv, [Next]_vars, KeptApart'
    PROVE  ApartInv' /\ processing_state' >= processing_state
<1>1. KeptApart /\ ~ Happens("preload") /\ ~ Happens("failure")
  BY KeptApartBefore
<1>2. ApartInv /\ FirstHead > 0 /\ processing_state \in Int /\ head \in Nat /\ FirstHead \in Nat
  BY <1>1, ListenerAssumption DEF KeptApart, SideBySide, TInv, TypeOK, Block, NoBlock
<1>3. ASSUME Kept, (\E c \in Calls : Solo(c)') \/ Quiet'
      PROVE  ApartInv' /\ processing_state' >= processing_state
  BY <1>2, <1>3 DEF Kept, ApartInv, RowsUpToState
<1>4. ASSUME NEW c \in Calls, Step(c)
      PROVE  ApartInv' /\ processing_state' >= processing_state
  <2>1. CASE Quiet
    BY <1>3, <1>4, <2>1, QuietStep
  <2>2. ASSUME NEW w \in Calls, Solo(w)
        PROVE  ApartInv' /\ processing_state' >= processing_state
    <3>1. call[c].pc # "idle"
      BY <1>4 DEF Step, ReadState, Assign, AskHead, StartIngest, EndSleep, GoOn, Begin, Commit
    <3>2. c = w
      BY <2>2, <3>1 DEF Solo, OthersIdle
    <3>3. CASE ReadState(c) \/ Assign(c) \/ AskHead(c) \/ StartIngest(c)
      BY <1>2, <1>3, <2>2, <3>2, <3>3, SoloAsks DEF ApartInv
    <3>4. CASE EndSleep(c) \/ GoOn(c) \/ Begin(c)
      BY <1>3, <2>2, <3>2, <3>4, SoloIngests
    <3>5. CASE Commit(c)
      <4>1. /\ Solo(c)' /\ RowsUpToState' /\ head' = head
            /\ processing_state' > processing_state
        BY <1>2, <2>2, <3>2, <3>5, SoloCommit DEF ApartInv
      <4>2. processing_state' \in Int
        <5>1. TInv'
          BY TInvStep
        <5>2. processing_state' \in Block \union {NoBlock}
          BY <5>1 DEF TInv, TypeOK
        <5> QED BY <5>2, ListenerAssumption DEF Block, NoBlock
      <4> QED BY <1>2, <4>1, <4>2 DEF ApartInv
    <3> QED BY <1>4, <3>3, <3>4, <3>5 DEF Step
  <2> QED BY <1>2, <2>1, <2>2 DEF ApartInv
<1>5. ASSUME NEW c \in Calls, NEW h \in 1..head, Header(c, h)
      PROVE  ApartInv' /\ processing_state' >= processing_state
  <2>1. CASE Quiet
    BY <1>3, <1>5, <2>1, QuietStep
  <2>2. ASSUME NEW w \in Calls, Solo(w)
        PROVE  ApartInv' /\ processing_state' >= processing_state
    BY <1>3, <1>5, <2>2, HeaderAlone
  <2> QED BY <1>2, <2>1, <2>2 DEF ApartInv
<1>6. ASSUME UNCHANGED <<processing_state, rows, lastBlockId, subscribed, call,
                         messagesBeingProcessed>>,
             head' >= head, gracefulShutdownFlag => gracefulShutdownFlag'
      PROVE  ApartInv' /\ processing_state' >= processing_state
  <2>1. RowsUpToState'
    BY <1>2, <1>6 DEF ApartInv, RowsUpToState
  <2>2. Quiet => Quiet'
    BY <1>6 DEF Quiet, AsksInVain
  <2>3. ASSUME NEW c \in Calls, Solo(c) PROVE Solo(c)'
    BY <1>6, <2>3 DEF Solo, OthersIdle, Knows, IsExpected
  <2>4. head' >= FirstHead /\ processing_state' >= processing_state
    <3>1. head' \in Nat
      <4>1. TypeOK'
        BY TInvStep DEF TInv
      <4>2. head' \in 0..Horizon
        BY <4>1 DEF TypeOK, Block
      <4> QED BY <4>2, ListenerAssumption
    <3>2. head >= FirstHead /\ head' >= head /\ processing_state' = processing_state
      BY <1>2, <1>6 DEF ApartInv
    <3>3. processing_state \in Int /\ head \in Nat /\ FirstHead \in Nat
      BY <1>2
    <3> QED BY <3>1, <3>2, <3>3
  <2> QED BY <1>2, <2>1, <2>2, <2>3, <2>4 DEF ApartInv
<1>7. CASE SendDue \/ Pause \/ Resume \/ UNCHANGED vars
  <2>1. UNCHANGED <<processing_state, rows, lastBlockId, subscribed, call,
                    messagesBeingProcessed, head, gracefulShutdownFlag>>
    BY <1>7 DEF SendDue, Pause, Resume, vars, database, flags
  <2>2. head' >= head
    BY <1>2, <2>1
  <2> QED BY <1>6, <2>1, <2>2
<1>8. CASE NewHead
  <2>1. /\ UNCHANGED <<processing_state, rows, lastBlockId, subscribed, call,
                       messagesBeingProcessed, gracefulShutdownFlag>>
        /\ head' = head + 1
    BY <1>8 DEF NewHead, database, flags
  <2>2. head' >= head
    BY <1>2, <2>1
  <2> QED BY <1>6, <2>1, <2>2
<1>9. CASE Stop
  <2>1. /\ UNCHANGED <<processing_state, rows, lastBlockId, subscribed, call,
                       messagesBeingProcessed, head>>
        /\ gracefulShutdownFlag'
    BY <1>9 DEF Stop, database
  <2>2. head' >= head
    BY <1>2, <2>1
  <2> QED BY <1>6, <2>1, <2>2
<1>10. CASE Restart
  <2>1. \E c \in Calls : Solo(c)'
    BY <1>10, RestartsSolo
  <2>2. UNCHANGED <<processing_state, rows, head>>
    BY <1>10 DEF Restart, database
  <2> QED BY <1>2, <2>1, <2>2 DEF ApartInv, RowsUpToState
<1> QED BY <1>1, <1>4, <1>5, <1>7, <1>8, <1>9, <1>10 DEF Next, FailChunk, RestPreload, Crash, Exit

THEOREM CallsApart == Spec => [](KeptApart => ApartInv)
<1>1. Init => (KeptApart => ApartInv)
  BY ApartInit
<1>2. TInv /\ (KeptApart => ApartInv) /\ [Next]_vars => (KeptApart => ApartInv)'
  BY ApartStep
<1> QED BY <1>1, <1>2, ListenerInv, PTL DEF Spec

\* Unless GET /preload is used or a chunk fails, a block never gets a second task row,
\* however headers, pauses, shutdowns, crashes and restarts come between the calls.
THEOREM TasksAreUnique == Spec => []OneTaskPerBlock
<1>1. TInv /\ (KeptApart => ApartInv) => OneTaskPerBlock
  BY DEF TInv, TypeOK, ApartInv, RowsUpToState, OneTaskPerBlock
<1> QED BY <1>1, ListenerInv, CallsApart, PTL

\* Under the same condition the height in processing_state never goes back.
THEOREM StateOnlyGrows == Spec => StateNeverGoesBack
<1>1. TInv /\ (KeptApart => ApartInv) /\ [Next]_vars
      => [KeptApart' => processing_state' >= processing_state]_vars
  BY ApartStep
<1> QED BY <1>1, ListenerInv, CallsApart, PTL DEF Spec, StateNeverGoesBack
-----------------------------------------------------------------------------
(***************************************************************************)
(* No gaps.  Calls that are kept apart leave none, by what is proved above.*)
(* When calls run side by side, a block up to the height in the database,  *)
(* or in memory, or before the chunk of a call, is in the table or in a    *)
(* transaction that is open: which only a failure or the end of the        *)
(* process takes away.  The height in memory is 0 also before it is known, *)
(* and is not used then.                                                   *)
(***************************************************************************)
Covered(b) == rows[b] > 0 \/ \E c \in Calls : call[c].pc = "trx" /\ b \in Chunk(c)

CoveredTo(n) == \A b \in 0..n : Covered(b)

Unread == lastBlockId = 0 /\ \A c \in Calls : call[c].pc \in {"idle", "read", "assign"}

CoversCall(r) ==
    /\ r.pc = "assign" => CoveredTo(r.last)
    /\ r.pc \in Ingesting => CoveredTo(r.next - 1)

Gapless ==
    /\ CoveredTo(processing_state)
    /\ Unread \/ CoveredTo(lastBlockId)
    /\ \A c \in Calls : CoversCall(call[c])

GapInv == ~ Failed /\ ~ Ended => Gapless

LEMMA FailedStays ==
    ASSUME TInv, [Next]_vars
    PROVE  Failed => Failed'
<1>1. events["failure"] \in Nat /\ events'["failure"] \in Nat
  BY TInvStep DEF TInv, TypeOK, Event
<1>2. events'["failure"] >= events["failure"]
  BY EventsGrow DEF Event
<1> QED BY <1>1, <1>2 DEF Failed

\* With the same rows and the same open transactions, the same blocks are covered.
LEMMA StillCovered ==
    ASSUME rows' = rows, NEW c \in Calls, \A d \in Calls \ {c} : call'[d] = call[d],
           call[c].pc # "trx"
    PROVE  \A b : Covered(b) => Covered(b)'
BY DEF Covered, Chunk

\* The loop of ingestPreloadTasks, from a block before which all are covered.
LEMMA GapIngest ==
    ASSUME TInv, NEW c \in Calls, NEW r \in Call, Ingest(c, r) \/ (Collect(c, r) /\ r.next <= r.to)
    PROVE  /\ \A d \in Calls \ {c} : call'[d] = call[d]
           /\ call'[c].pc \in {"idle", "paused", "begin"}
           /\ call'[c].pc # "idle" => call'[c].next = r.next
<1>1. CASE Return(c)
  BY <1>1, OnlyOneChanges, IdleCall DEF Return
<1>2. CASE call' = [call EXCEPT ![c] = [r EXCEPT !.pc = "paused"]]
  <2>1. PICK s : s = [r EXCEPT !.pc = "paused"]
    OBVIOUS
  <2>2. s.pc = "paused" /\ s.next = r.next
    BY <2>1 DEF Call
  <2>3. call' = [call EXCEPT ![c] = s]
    BY <1>2, <2>1
  <2> QED BY <2>2, <2>3, OnlyOneChanges
<1>3. CASE Collect(c, r)
  <2>1. PICK i : i = EndOfChunk(r)
    OBVIOUS
  <2>2. PICK s : s = [r EXCEPT !.pc = "begin", !.last = i]
    OBVIOUS
  <2>3. s.pc = "begin" /\ s.next = r.next
    BY <2>2 DEF Call
  <2>4. call' = [call EXCEPT ![c] = s]
    BY <1>3, <2>1, <2>2 DEF Collect
  <2> QED BY <2>3, <2>4, OnlyOneChanges
<1> QED BY <1>1, <1>2, <1>3 DEF Ingest

\* A step of a call that neither begins nor ends a transaction.
GapStays(c) ==
    /\ UNCHANGED <<rows, processing_state>>
    /\ call[c].pc # "trx" /\ \A d \in Calls \ {c} : call'[d] = call[d]
    /\ CoversCall(call'[c])
    /\ \/ lastBlockId' = 0 /\ Unread /\ call'[c].pc \in {"idle", "read", "assign"}
       \/ CoveredTo(lastBlockId')

LEMMA GapStaysKeeps ==
    ASSUME Gapless, NEW c \in Calls, GapStays(c)
    PROVE  Gapless'
<1>1. \A b : Covered(b) => Covered(b)'
  BY StillCovered DEF GapStays
<1>2. CoveredTo(processing_state)'
  BY <1>1 DEF GapStays, Gapless, CoveredTo
<1>3. (Unread \/ CoveredTo(lastBlockId))'
  <2>1. CASE CoveredTo(lastBlockId')
    BY <1>1, <2>1 DEF CoveredTo
  <2>2. CASE lastBlockId' = 0 /\ Unread /\ call'[c].pc \in {"idle", "read", "assign"}
    BY <2>2 DEF GapStays, Unread
  <2> QED BY <2>1, <2>2 DEF GapStays
<1>4. ASSUME NEW d \in Calls PROVE CoversCall(call[d])'
  <2>1. CoversCall(call'[d])
    BY DEF GapStays, Gapless
  <2> QED BY <1>1, <2>1 DEF CoversCall, CoveredTo
<1> QED BY <1>2, <1>3, <1>4 DEF Gapless

\* The steps of a call, but for the beginning and the commit of its transaction.
LEMMA GapCallStep ==
    ASSUME TInv, Gapless, NEW c \in Calls,
           \/ ReadState(c) \/ Assign(c) \/ AskHead(c) \/ StartIngest(c) \/ EndSleep(c) \/ GoOn(c)
           \/ RestPreload(c) \/ \E h \in 1..head : Header(c, h)
    PROVE  GapStays(c)
<1>1. PICK r \in Call : r = call[c]
  BY DEF TInv, TypeOK
<1>2. /\ processing_state \in Int /\ lastBlockId \in Int /\ r.last \in Int /\ r.next \in Nat
      /\ lastBlockId + 1 >= 0 /\ r.last + 1 >= 0
  <2>1. /\ processing_state \in Block \union {NoBlock} /\ lastBlockId \in Block \union {NoBlock}
        /\ r.last \in Block \union {NoBlock} /\ r.next \in Nat
    BY <1>1 DEF TInv, TypeOK, Call, Block
  <2> QED BY <2>1, ListenerAssumption DEF Block, NoBlock
<1>3. CoversCall(r) /\ (Unread \/ CoveredTo(lastBlockId)) /\ CoveredTo(processing_state)
  BY <1>1 DEF Gapless
<1>4. ASSUME NEW t \in Call, call' = [call EXCEPT ![c] = t], t.pc \notin Ingesting
      PROVE  /\ \A d \in Calls \ {c} : call'[d] = call[d]
             /\ call'[c] = t
             /\ t.pc # "assign" => CoversCall(call'[c])
  BY <1>4, OnlyOneChanges DEF CoversCall
<1>5. ASSUME NEW t \in Call, Ingest(c, t) \/ (Collect(c, t) /\ t.next <= t.to), CoveredTo(t.next - 1)
      PROVE  CoversCall(call'[c]) /\ \A d \in Calls \ {c} : call'[d] = call[d]
  BY <1>5, GapIngest DEF CoversCall, Ingesting
<1>6. CASE ReadState(c)
  <2>1. PICK t : t = [r EXCEPT !.pc = "assign", !.last = processing_state]
    OBVIOUS
  <2>2. t \in Call /\ t.pc = "assign" /\ t.last = processing_state
    BY <2>1 DEF TInv, TypeOK, Call
  <2>3. call' = [call EXCEPT ![c] = t]
    BY <1>1, <1>6, <2>1 DEF ReadState, TInv, TypeOK
  <2>4. UNCHANGED <<rows, processing_state, lastBlockId>> /\ call[c].pc = "read"
    BY <1>6 DEF ReadState, database
  <2>5. CoversCall(call'[c])
    BY <1>3, <1>4, <2>2, <2>3 DEF CoversCall, Ingesting
  <2> QED BY <1>3, <1>4, <2>2, <2>3, <2>4, <2>5 DEF GapStays, Ingesting, Unread
<1>7. CASE Assign(c)
  <2>1. r.pc = "assign" /\ lastBlockId' = r.last /\ UNCHANGED <<rows, processing_state>>
    BY <1>1, <1>7 DEF Assign, database
  <2>2. CoveredTo(r.last)
    BY <1>3, <2>1 DEF CoversCall
  <2>3. CASE call' = [call EXCEPT ![c].pc = "head"]
    <3>1. PICK t : t = [r EXCEPT !.pc = "head"]
      OBVIOUS
    <3>2. t \in Call /\ t.pc = "head" /\ call' = [call EXCEPT ![c] = t]
      BY <1>1, <2>3, <3>1 DEF Call, TInv, TypeOK
    <3> QED BY <1>1, <1>4, <2>1, <2>2, <3>2 DEF GapStays, Ingesting
  <2>4. CASE Ingest(c, [call[c] EXCEPT !.next = call[c].last + 1])
    <3>1. r.last + 1 \in 0..Horizon + 1
      BY <1>2, ListenerAssumption DEF Call, Block, NoBlock
    <3>2. PICK t : t = [r EXCEPT !.next = r.last + 1]
      OBVIOUS
    <3>3. t \in Call /\ t.next = r.last + 1
      BY <3>1, <3>2 DEF Call
    <3>4. t.next - 1 = r.last
      BY <1>2, <3>3
    <3>5. Ingest(c, t) /\ CoveredTo(t.next - 1)
      BY <1>1, <2>2, <2>4, <3>2, <3>4
    <3> QED BY <1>1, <1>5, <2>1, <2>2, <3>3, <3>5 DEF GapStays
  <2> QED BY <1>7, <2>3, <2>4 DEF Assign
<1>8. CASE AskHead(c)
  <2>1. PICK t : t = [r EXCEPT !.pc = "start", !.to = head]
    OBVIOUS
  <2>2. t \in Call /\ t.pc = "start"
    BY <2>1 DEF TInv, TypeOK, Call
  <2>3. call' = [call EXCEPT ![c] = t]
    BY <1>1, <1>8, <2>1 DEF AskHead, TInv, TypeOK
  <2>4. UNCHANGED <<rows, processing_state, lastBlockId>> /\ call[c].pc = "head"
    BY <1>8 DEF AskHead, database
  <2>5. CoveredTo(lastBlockId)
    BY <1>3, <2>4 DEF Unread
  <2> QED BY <1>4, <2>2, <2>3, <2>4, <2>5 DEF GapStays, Ingesting
<1>9. ASSUME NEW t \in Call, Ingest(c, FromLast(t)), UNCHANGED <<rows, processing_state, lastBlockId>>,
             call[c].pc # "trx", CoveredTo(lastBlockId)
      PROVE  GapStays(c)
  <2>1. lastBlockId + 1 \in 0..Horizon + 1
    BY ListenerAssumption DEF TInv, TypeOK, Block, NoBlock
  <2>2. PICK f : f = FromLast(t)
    OBVIOUS
  <2>3. f \in Call /\ f.next = lastBlockId + 1
    BY <2>1, <2>2 DEF FromLast, Call
  <2>4. f.next - 1 = lastBlockId
    BY <1>2, <2>3
  <2>5. Ingest(c, f) /\ CoveredTo(f.next - 1)
    BY <1>9, <2>2, <2>4
  <2> QED BY <1>5, <1>9, <2>3, <2>5 DEF GapStays
<1>10. CASE StartIngest(c)
  <2>1. /\ Ingest(c, FromLast(r)) /\ UNCHANGED <<rows, processing_state, lastBlockId>>
        /\ call[c].pc = "start"
    BY <1>1, <1>10 DEF StartIngest, database
  <2>2. CoveredTo(lastBlockId)
    BY <1>3, <2>1 DEF Unread
  <2> QED BY <1>9, <2>1, <2>2
<1>11. CASE EndSleep(c) \/ GoOn(c)
  <2>1. /\ Ingest(c, r) \/ (Collect(c, r) /\ r.next <= r.to)
        /\ UNCHANGED <<rows, processing_state, lastBlockId>>
        /\ call[c].pc \in {"loop", "paused"}
    BY <1>1, <1>11 DEF EndSleep, GoOn, database, TInv, CallsSensible, Sensible
  <2>2. CoveredTo(r.next - 1)
    BY <1>1, <1>3, <2>1 DEF CoversCall, Ingesting
  <2>3. CoveredTo(lastBlockId)
    BY <1>3, <2>1 DEF Unread
  <2> QED BY <1>5, <2>1, <2>2, <2>3 DEF GapStays
<1>12. CASE RestPreload(c)
  <2>1. PICK k \in {"read", "head"} :
           /\ call' = [call EXCEPT ![c] = [Idle EXCEPT !.pc = k]]
           /\ k = "head" => lastBlockId # 0
    BY <1>12 DEF RestPreload
  <2>2. PICK t : t = [Idle EXCEPT !.pc = k]
    OBVIOUS
  <2>3. t \in Call /\ t.pc = k /\ call' = [call EXCEPT ![c] = t]
    BY <2>1, <2>2, IdleCall DEF Call
  <2>4. UNCHANGED <<rows, processing_state, lastBlockId>> /\ call[c].pc = "idle"
    BY <1>12 DEF RestPreload, database
  <2> QED BY <1>3, <1>4, <2>1, <2>3, <2>4 DEF GapStays, Ingesting, Unread
<1>13. ASSUME NEW h \in 1..head, Header(c, h) PROVE GapStays(c)
  <2>1. h \in Block
    BY ListenerAssumption DEF TInv, TypeOK, Block
  <2>2. PICK t : t = [Idle EXCEPT !.kind = "newBlock", !.to = h]
    OBVIOUS
  <2>3. t \in Call
    BY <2>1, <2>2, IdleCall DEF Call
  <2>4. UNCHANGED <<rows, processing_state, lastBlockId>> /\ call[c].pc = "idle"
    BY <1>13 DEF Header, database
  <2>5. CASE lastBlockId = 0 /\ call' = [call EXCEPT ![c] = [t EXCEPT !.pc = "read"]]
    <3>1. PICK q : q = [t EXCEPT !.pc = "read"]
      OBVIOUS
    <3>2. q \in Call /\ q.pc = "read" /\ call' = [call EXCEPT ![c] = q]
      BY <2>3, <2>5, <3>1 DEF Call
    <3> QED BY <1>3, <1>4, <2>4, <2>5, <3>2 DEF GapStays, Ingesting, Unread
  <2>6. CASE lastBlockId # 0 /\ Ingest(c, FromLast(t))
    <3>1. CoveredTo(lastBlockId)
      BY <1>3, <2>6 DEF Unread
    <3> QED BY <1>9, <2>3, <2>4, <2>6, <3>1
  <2> QED BY <1>13, <2>2, <2>5, <2>6 DEF Header
<1> QED BY <1>6, <1>7, <1>8, <1>10, <1>11, <1>12, <1>13

\* Replacing the call of a transaction leaves what is covered by rows and by other calls.
LEMMA GapBegin ==
    ASSUME TInv, Gapless, NEW c \in Calls, Begin(c)
    PROVE  Gapless'
<1>1. PICK r \in Call : r = call[c]
  BY DEF TInv, TypeOK
<1>2. PICK t : t = [r EXCEPT !.pc = "trx"]
  OBVIOUS
<1>3. t \in Call /\ t.pc = "trx" /\ t.next = r.next /\ t.last = r.last
  BY <1>2 DEF Call
<1>4. /\ r.pc = "begin" /\ call' = [call EXCEPT ![c] = t]
      /\ lastBlockId' = r.last /\ rows' = rows /\ processing_state' = processing_state
  BY <1>1, <1>2 DEF Begin, database, TInv, TypeOK
<1>5. call'[c] = t /\ \A d \in Calls \ {c} : call'[d] = call[d]
  BY <1>4, OnlyOneChanges
<1>6. \A b : Covered(b) => Covered(b)'
  BY <1>1, <1>4, <1>5, StillCovered
<1>7. CoveredTo(r.next - 1)
  BY <1>1, <1>4 DEF Gapless, CoversCall, Ingesting
<1>8. CoveredTo(lastBlockId)'
  <2>1. ASSUME NEW b \in 0..r.last PROVE Covered(b)'
    <3>1. r.next \in Nat /\ r.last \in Int
      BY ListenerAssumption DEF Call, Block, NoBlock
    <3>2. CASE b \in 0..r.next - 1
      BY <1>6, <1>7, <3>2 DEF CoveredTo
    <3>3. CASE b \in r.next..r.last
      BY <1>3, <1>5, <3>3 DEF Covered, Chunk
    <3> QED BY <3>1, <3>2, <3>3
  <2> QED BY <1>4, <2>1 DEF CoveredTo
<1>9. CoveredTo(processing_state)'
  BY <1>4, <1>6 DEF Gapless, CoveredTo
<1>10. ASSUME NEW d \in Calls PROVE CoversCall(call[d])'
  <2>1. CoversCall(call'[d])
    BY <1>1, <1>3, <1>4, <1>5 DEF Gapless, CoversCall, Ingesting
  <2> QED BY <1>6, <2>1 DEF CoversCall, CoveredTo
<1> QED BY <1>8, <1>9, <1>10 DEF Gapless

\* What the transaction covered is in the table.
LEMMA GapCommit ==
    ASSUME TInv, Gapless, NEW c \in Calls, Commit(c)
    PROVE  Gapless'
<1>1. PICK r \in Call : r = call[c]
  BY DEF TInv, TypeOK
<1>2. r.pc = "trx" /\ processing_state' = r.last /\ lastBlockId' = lastBlockId /\ AfterChunk(c)
  BY <1>1 DEF Commit
<1>3. r.last \in Block /\ r.next \in Nat /\ Horizon \in Nat /\ Chunk(c) = r.next..r.last
  BY <1>1, <1>2, ChunkOfBlocks, ListenerAssumption DEF Call, Chunk
<1>4. PICK s : s = [r EXCEPT !.pc = "loop", !.next = r.last + 1]
  OBVIOUS
<1>5. s.pc = "loop" /\ s.next = r.last + 1
  BY <1>4 DEF Call
<1>6. call' = [call EXCEPT ![c] = s] \/ call' = [call EXCEPT ![c] = Idle]
  BY <1>1, <1>2, <1>4 DEF AfterChunk, Return, TInv, TypeOK
<1>7. (call'[c] = s \/ call'[c] = Idle) /\ \A d \in Calls \ {c} : call'[d] = call[d]
  BY <1>6, OnlyOneChanges
<1>8. ASSUME NEW b \in Block
      PROVE  /\ rows[b] > 0 => rows'[b] > 0
             /\ b \in Chunk(c) => rows'[b] > 0
  <2>1. rows'[b] = rows[b] + (IF b \in Chunk(c) THEN 1 ELSE 0) /\ rows[b] \in Nat
    BY DEF Commit, TInv, TypeOK
  <2> QED BY <2>1
<1>9. ASSUME NEW b \in Block, Covered(b) PROVE Covered(b)'
  BY <1>7, <1>8, <1>9 DEF Covered, Chunk
<1>10. ASSUME NEW n \in Block \union {NoBlock}, CoveredTo(n) PROVE CoveredTo(n)'
  <2>1. 0..n \subseteq Block
    BY <1>3 DEF Block, NoBlock
  <2> QED BY <1>9, <1>10, <2>1 DEF CoveredTo
<1>11. CoveredTo(r.last)'
  <2>1. CoveredTo(r.next - 1)
    BY <1>1, <1>2 DEF Gapless, CoversCall, Ingesting
  <2>2. ASSUME NEW b \in 0..r.last PROVE Covered(b)'
    <3>1. b \in Block
      BY <1>3 DEF Block
    <3>2. CASE b \in 0..r.next - 1
      BY <1>9, <2>1, <3>1, <3>2 DEF CoveredTo
    <3>3. CASE b \in r.next..r.last
      BY <1>3, <1>8, <3>1, <3>3 DEF Covered
    <3> QED BY <1>3, <3>2, <3>3 DEF Block
  <2> QED BY <2>2 DEF CoveredTo
<1>12. CoveredTo(processing_state)'
  BY <1>2, <1>11
<1>13. CoveredTo(lastBlockId)'
  <2>1. CoveredTo(lastBlockId) /\ lastBlockId \in Block \union {NoBlock}
    BY <1>1, <1>2 DEF Gapless, Unread, TInv, TypeOK
  <2> QED BY <1>2, <1>10, <2>1
<1>14. ASSUME NEW d \in Calls PROVE CoversCall(call[d])'
  <2>1. CASE d = c
    <3>1. s.next - 1 = r.last
      BY <1>3, <1>5 DEF Block
    <3> QED BY <1>5, <1>7, <1>11, <2>1, <3>1, IdleCall DEF CoversCall, Ingesting
  <2>2. CASE d # c
    <3>1. PICK q \in Call : q = call[d]
      BY DEF TInv, TypeOK
    <3>2. q.next - 1 \in Block \union {NoBlock} /\ q.last \in Block \union {NoBlock}
      BY <1>3, <3>1 DEF Call, Block, NoBlock
    <3>3. CoversCall(q)
      BY <3>1 DEF Gapless
    <3>4. CoversCall(q)'
      BY <1>10, <3>2, <3>3 DEF CoversCall
    <3> QED BY <1>7, <2>2, <3>1, <3>4
  <2> QED BY <2>1, <2>2
<1> QED BY <1>12, <1>13, <1>14 DEF Gapless

\* What starts the process again is counted: the events tell of it.
LEMMA RestartsAreCounted ==
    ASSUME TInv, MessageInv, [Next]_vars, Crash \/ Exit
    PROVE  Ended'
<1>1. \A k \in Event : events[k] \in Nat /\ events'[k] \in Nat
  BY TInvStep DEF TInv, TypeOK
<1>2. CASE Crash
  <2>1. events'["crash"] = events["crash"] + 1 /\ "crash" \in Event /\ "stop" \in Event
    BY <1>2 DEF Crash, Happens, Event, TInv, TypeOK
  <2> QED BY <1>1, <2>1 DEF Ended
<1>3. CASE Exit
  <2>1. events["stop"] > 0 /\ events["crash"] \in Nat /\ events["stop"] \in Nat
    BY <1>1, <1>3 DEF Exit, MessageInv, StopRaisesFlag, Event
  <2>2. events' = events
    BY <1>3 DEF Exit
  <2> QED BY <2>1, <2>2 DEF Ended
<1> QED BY <1>2, <1>3

LEMMA FailuresAreCounted ==
    ASSUME TInv, NEW c \in Calls, FailChunk(c)
    PROVE  Failed'
<1>1. events["failure"] \in Nat /\ "failure" \in Event
  BY DEF TInv, TypeOK, Event
<1>2. events'["failure"] = events["failure"] + 1
  BY <1>1 DEF FailChunk, Happens, TInv, TypeOK
<1> QED BY <1>1, <1>2 DEF Failed

LEMMA GapStep ==
    ASSUME TInv, MessageInv, GapInv, [Next]_vars
    PROVE  GapInv'
<1> SUFFICES ASSUME ~ Failed', ~ Ended' PROVE Gapless'
  BY DEF GapInv
<1>1. Gapless
  BY FailedStays, EndedStays DEF GapInv
<1>2. ASSUME NEW c \in Calls,
             \/ ReadState(c) \/ Assign(c) \/ AskHead(c) \/ StartIngest(c) \/ EndSleep(c) \/ GoOn(c)
             \/ RestPreload(c) \/ \E h \in 1..head : Header(c, h)
      PROVE  Gapless'
  <2>1. GapStays(c)
    BY <1>1, <1>2, GapCallStep
  <2> QED BY <1>1, <2>1, GapStaysKeeps
<1>3. ASSUME NEW c \in Calls, Begin(c) \/ Commit(c) PROVE Gapless'
  BY <1>1, <1>3, GapBegin, GapCommit
<1>4. ASSUME UNCHANGED <<rows, processing_state, lastBlockId, call>> PROVE Gapless'
  BY <1>1, <1>4 DEF Gapless, CoveredTo, Covered, Chunk, Unread, CoversCall
<1>5. CASE SendDue \/ NewHead \/ Pause \/ Resume \/ Stop \/ UNCHANGED vars
  BY <1>4, <1>5 DEF SendDue, NewHead, Pause, Resume, Stop, vars, database
<1>6. ASSUME NEW c \in Calls, FailChunk(c) PROVE FALSE
  BY <1>6, FailuresAreCounted
<1>7. ~ Crash /\ ~ Exit
  BY RestartsAreCounted
<1> QED BY <1>2, <1>3, <1>5, <1>6, <1>7 DEF Next, Step

LEMMA GapInit == Init => GapInv
<1> SUFFICES ASSUME Init PROVE Gapless
  BY DEF GapInv
<1>1. PICK c \in Calls : call = StartWith(c)
  BY DEF Init
<1>2. PICK r : r = [Idle EXCEPT !.pc = "read"]
  OBVIOUS
<1>3. r.pc = "read"
  BY <1>2 DEF Idle
<1>4. call = [d \in Calls |-> IF d = c THEN r ELSE Idle]
  BY <1>1, <1>2 DEF StartWith
<1>5. \A d \in Calls : call[d].pc \in {"idle", "read"}
  BY <1>3, <1>4, IdleCall
<1>6. Unread /\ \A d \in Calls : CoversCall(call[d])
  BY <1>5 DEF Init, Unread, CoversCall, Ingesting
<1>7. processing_state = -1
  BY DEF Init, NoBlock
<1>8. CoveredTo(processing_state)
  BY <1>7 DEF CoveredTo
<1> QED BY <1>6, <1>8 DEF Gapless

\* Up to the height in processing_state every block has its task row, unless a chunk
\* failed; when calls run side by side, some may still be in an open transaction, and
\* only the end of the process leaves them out for good.
THEOREM NoGaps == Spec => []NoGapWithoutFailure
<1>1. Init => MessageInv /\ GapInv
  BY MessageInit, GapInit
<1>2. TInv /\ MessageInv /\ GapInv /\ [Next]_vars => MessageInv' /\ GapInv'
  BY MessageStep, GapStep
<1>3. TInv /\ GapInv /\ (KeptApart => ApartInv) => NoGapWithoutFailure
  <2> SUFFICES ASSUME TInv, GapInv, KeptApart => ApartInv, ~ Failed, NEW b \in 0..processing_state
               PROVE  \/ rows[b] > 0
                      \/ SideBySide /\ (Ended \/ \E c \in Calls : call[c].pc = "trx" /\ b \in Chunk(c))
    BY DEF NoGapWithoutFailure
  <2>1. CASE SideBySide
    BY <2>1 DEF GapInv, Gapless, CoveredTo, Covered
  <2>2. CASE ~ SideBySide
    <3>1. RowsUpToState
      BY <2>2 DEF KeptApart, ApartInv
    <3>2. b \in Block /\ b <= processing_state
      BY ListenerAssumption DEF TInv, TypeOK, Block, NoBlock
    <3>3. rows[b] = 1
      BY <3>1, <3>2 DEF RowsUpToState
    <3> QED BY <3>3
  <2> QED BY <2>1, <2>2
<1> QED BY <1>1, <1>2, <1>3, ListenerInv, CallsApart, PTL DEF Spec
=============================================================================
