---------------------------- MODULE GemServerProofs ----------------------------
(***************************************************************************)
(* The safety of the server's loop for any number of channels, any set of  *)
(* applications and any number of connections.                             *)
(*                                                                         *)
(* What the run checks of requests is not inductive: that no piece of a    *)
(* request is counted twice rests on a process having at most one place in *)
(* the server (a channel or the backlog), on its keeping that place until  *)
(* the server gives it up, and on a channel that is about to be read       *)
(* having something to read.  IInv says so.                                *)
(***************************************************************************)
EXTENDS GemServer, FiniteSetTheorems, SequenceTheorems, TLAPS

\* There is a generation left for every connection on its way in.
GenerationsFit ==
    /\ nextGen + Len(backlog) <= MaxGeneration + 1
    /\ pc = "accept" => backlog # <<>>

\* A process has one channel, or one place in the backlog, or none.
OnePlace ==
    /\ \A c, d \in Channels :
          client[c].peer = client[d].peer /\ client[c].peer # NONE => c = d
    /\ \A c \in Channels : \A i \in 1 .. Len(backlog) : client[c].peer # backlog[i]
    /\ \A i, j \in 1 .. Len(backlog) : backlog[i] = backlog[j] => i = j

\* The process has a connection, or has died with one.
Attached(p) ==
    \/ link[p] = "open"
    \/ link[p] = "off" /\ proc[p] \notin {"none", "run"}

\* Whoever has a place is attached; nobody else has pieces on their way to
\* the server, and who is not connected has nothing unfinished at all.
PlacesAreAttached ==
    /\ \A c \in Channels : client[c].peer # NONE => Attached(client[c].peer)
    /\ \A i \in 1 .. Len(backlog) : Attached(backlog[i])
    /\ \A p \in Procs : up[p] # 0 => Attached(p)
    /\ \A p \in Procs : link[p] = "off" => wrote[p] = 0 /\ down[p] = 0
    /\ \A p \in Procs : link[p] = "open" => proc[p] = "run" \/ pc = "ended"

ClosedIsEmpty == \A c \in Channels : client[c].peer = NONE => client[c] = Closed

\* What the server keeps of the request on channel c.
Kept(c) == client[c].received + (IF client[c].waiting THEN FramePieces ELSE 0)

\* The account of RequestsAreAccountedFor, with the channel named.
Books ==
    \A p \in Procs : link[p] = "open" =>
        /\ \A c \in Channels : client[c].peer = p =>
              up[p] + FramePieces * down[p] + Kept(c) = wrote[p]
        /\ (\A c \in Channels : client[c].peer # p) =>
              up[p] + FramePieces * down[p] = wrote[p]

\* A channel that select found readable stays so until it is read.
ReadersAreReadable ==
    pc \in {"accept", "serve"} => \A c \in readers : Readable(c)

IInv ==
    /\ TypeOK
    /\ GenerationsFit
    /\ OnePlace
    /\ PlacesAreAttached
    /\ ClosedIsEmpty
    /\ HeldForConnection
    /\ Books
    /\ ReadersAreReadable
CallTable ==
    [Channels -> [state : {"none", "held", "ready"}, gen : 0 .. MaxGeneration]]

\* The same calls are there, whether finished or not.
SameCall(old, new) == new.gen = old.gen /\ (new.state = "none" <=> old.state = "none")

\* The types of what the loop keeps besides clients and calls.
LoopTypes ==
    /\ pc \in {"loop", "rearm", "reply", "reap", "reaping", "reaped", "wait",
               "accept", "serve", "stopping", "ended"}
    /\ readers \subseteq Channels
    /\ stop \in BOOLEAN /\ children \in BOOLEAN
    /\ tick \in BOOLEAN /\ armed \in BOOLEAN

----------------------------------------------------------------------------
(* Operators *)

\* Least names a member of the set it is asked for.
LEMMA LeastIsMember ==
    ASSUME NEW S \in SUBSET Nat, IsFiniteSet(S), S # {}
    PROVE  Least(S) \in S
<1> DEFINE Below(x) == {y \in S : y < x}
           Cuts == {Below(x) : x \in S}
<1>1. IsWellFoundedOn(StrictSubsetOrdering(S), SUBSET S)
  BY FS_StrictSubsetOrderingWellFounded, FS_FiniteSubsetsOfFinite
<1>2. Cuts \subseteq SUBSET S /\ Cuts # {}
  OBVIOUS
<1>3. \E D \in Cuts : \A B \in Cuts : ~(<<B, D>> \in StrictSubsetOrdering(S))
  BY <1>1, <1>2, WFMin
<1>4. PICK x \in S : \A B \in Cuts : ~(<<B, Below(x)>> \in StrictSubsetOrdering(S))
  BY <1>3
<1>5. ASSUME NEW y \in S PROVE x <= y
  <2>1. SUFFICES ASSUME y < x PROVE FALSE
    OBVIOUS
  <2>2. Below(y) \subseteq Below(x) /\ Below(y) # Below(x) /\ Below(y) \in Cuts
    <3>1. \A z \in S : z < y => z < x
      BY <2>1
    <3>2. y \in Below(x) /\ y \notin Below(y)
      BY <2>1
    <3> QED BY <3>1, <3>2
  <2>3. <<Below(y), Below(x)>> \in StrictSubsetOrdering(S)
    BY <1>2, <2>2 DEF StrictSubsetOrdering
  <2> QED BY <1>4, <2>2, <2>3
<1> QED BY <1>5 DEF Least

\* The least of some channels is one of them.
LEMMA LeastChannel ==
    ASSUME NEW S \in SUBSET Channels, S # {}
    PROVE  Least(S) \in S
<1>1. Channels \subseteq 0 .. ChannelCount /\ IsFiniteSet(0 .. ChannelCount)
  BY ServerAssumption, FS_Interval DEF Channels, DesktopChannel, FirstApp
<1>2. S \subseteq 0 .. ChannelCount
  BY <1>1
<1>3. IsFiniteSet(S)
  BY <1>1, <1>2, FS_Subset
<1>4. S \in SUBSET Nat
  BY <1>2, ServerAssumption
<1> QED BY <1>3, <1>4, LeastIsMember

\* Finishing held calls neither makes nor ends a call.
LEMMA FinishingKeepsCalls ==
    ASSUME NEW calls \in CallTable, NEW new \in Finishing(calls)
    PROVE  /\ new \in CallTable
           /\ \A c \in Channels : SameCall(calls[c], new[c])
<1> DEFINE held == {c \in Channels : calls[c].state = "held"}
<1>1. PICK done \in SUBSET held :
         new = [c \in Channels |-> IF c \in done THEN [calls[c] EXCEPT !.state = "ready"]
                                   ELSE calls[c]]
  BY DEF Finishing
<1>2. \A c \in Channels : new[c] \in [state : {"none", "held", "ready"}, gen : 0 .. MaxGeneration]
  BY <1>1 DEF CallTable
<1>3. new \in CallTable
  BY <1>1, <1>2 DEF CallTable
<1>4. \A c \in Channels : SameCall(calls[c], new[c])
  BY <1>1 DEF CallTable, SameCall
<1> QED BY <1>3, <1>4

\* The exit of a connection ends no call but its own.
LEMMA AesExitKeepsOthers ==
    ASSUME NEW calls \in CallTable, NEW c \in Channels, NEW k \in ClientRecord,
           NEW new \in AesExit(calls, c, k)
    PROVE  /\ new \in CallTable
           /\ \A d \in Channels \ {c} : SameCall(calls[d], new[d])
           /\ calls[c].state = "none" => new[c].state = "none"
           /\ k.identified /\ calls[c].gen = k.gen => new[c].state = "none"
<1>1. CASE ~k.identified
  BY <1>1 DEF AesExit, SameCall
<1>2. CASE k.identified
  <2> DEFINE left == IF calls[c].gen = k.gen THEN [calls EXCEPT ![c] = NoCall] ELSE calls
  <2>1. left \in CallTable
    BY ServerAssumption DEF CallTable, NoCall
  <2>2. new \in Finishing(left)
    BY <1>2 DEF AesExit
  <2>3. /\ \A d \in Channels \ {c} : left[d] = calls[d]
        /\ calls[c].state = "none" => left[c].state = "none"
        /\ calls[c].gen = k.gen => left[c].state = "none"
    BY DEF CallTable, NoCall
  <2> HIDE DEF left
  <2>4. new \in CallTable /\ \A d \in Channels : SameCall(left[d], new[d])
    BY <2>1, <2>2, FinishingKeepsCalls
  <2> QED BY <2>3, <2>4 DEF SameCall
<1> QED BY <1>1, <1>2
----------------------------------------------------------------------------
(* Steps *)

\* A step of the loop or a signal that leaves clients, connections and the
\* set of calls alone.
LEMMA LoopStepKeeps ==
    ASSUME IInv, UNCHANGED <<clientVars, client, nextGen>>, LoopTypes',
           call' \in CallTable, \A c \in Channels : SameCall(call[c], call'[c]),
           pc = "ended" => pc' = "ended",
           \/ pc' \notin {"accept", "serve"}
           \/ UNCHANGED <<pc, readers>>
    PROVE  IInv'
<1> USE DEF clientVars
<1>1. TypeOK'
  BY DEF IInv, TypeOK, LoopTypes, CallTable
<1>2. GenerationsFit'
  BY DEF IInv, GenerationsFit
<1>3. OnePlace' /\ ClosedIsEmpty'
  BY DEF IInv, OnePlace, ClosedIsEmpty
<1>4. PlacesAreAttached'
  BY DEF IInv, PlacesAreAttached, Attached
<1>5. HeldForConnection'
  BY DEF IInv, HeldForConnection, SameCall
<1>6. Books'
  BY DEF IInv, Books, Kept
<1>7. ReadersAreReadable'
  BY DEF IInv, ReadersAreReadable, Readable
<1> QED BY <1>1, <1>2, <1>3, <1>4, <1>5, <1>6, <1>7 DEF IInv

\* What the middle of a step may have made of the connection on channel c, of
\* the calls and of the processes by the time it drops the connection.
Droppable(c, k, calls, procs) ==
    /\ client[c].peer # NONE
    /\ k \in ClientRecord /\ k.peer = client[c].peer /\ k.gen = client[c].gen
    /\ client[c].waiting => k.identified
    /\ calls \in CallTable
    /\ \A d \in Channels \ {c} : SameCall(call[d], calls[d])
    /\ calls[c].state = "none" \/ SameCall(call[c], calls[c])
    /\ procs \in [Procs -> {"none", "run", "exiting", "zombie", "gone"}]
    /\ \A p \in Procs \ {k.peer} :
          \/ procs[p] = proc[p]
          \/ proc[p] = "none" /\ procs[p] = "run"

\* Dropping a connection keeps the invariant, wherever in the loop it happens.
LEMMA DropKeeps ==
    ASSUME IInv, NEW c \in Channels, NEW k, NEW calls, NEW procs,
           Droppable(c, k, calls, procs), Drop(c, k, calls, procs),
           UNCHANGED <<wrote, down, backlog, nextGen>>, LoopTypes',
           pc = "ended" => pc' = "ended",
           \/ pc' \notin {"accept", "serve"}
           \/ pc = "serve" /\ pc' = "serve" /\ readers' \subseteq readers \ {c}
    PROVE  IInv'
<1> DEFINE p == k.peer
<1> USE DEF Droppable
<1>00. \A i \in 1 .. Len(backlog) : backlog[i] \in Procs
  BY ElementOfSeq DEF IInv, TypeOK
<1>0. p \in Procs /\ p # NONE /\ k.identified \in BOOLEAN
  BY ServerAssumption DEF ClientRecord
<1>1. /\ link' = [link EXCEPT ![p] = IF @ = "open" THEN "cut" ELSE @]
      /\ up' = [up EXCEPT ![p] = 0]
      /\ client' = [client EXCEPT ![c] = Closed]
      /\ proc' = IF k.identified THEN [procs EXCEPT ![p] = "gone"] ELSE procs
      /\ call' \in AesExit(calls, c, k)
  BY DEF Drop
<1>2. /\ link'[p] # "open" /\ (link'[p] = "off" => link[p] = "off")
      /\ up'[p] = 0
      /\ \A q \in Procs \ {p} : /\ link'[q] = link[q] /\ up'[q] = up[q]
                                /\ \/ proc'[q] = proc[q]
                                   \/ proc[q] = "none" /\ proc'[q] = "run"
      /\ client'[c] = Closed
      /\ \A d \in Channels \ {c} : client'[d] = client[d] /\ client'[d].peer # p
  BY <1>0, <1>1 DEF IInv, TypeOK, OnePlace
<1>3. /\ call' \in CallTable
      /\ \A d \in Channels \ {c} : SameCall(call[d], call'[d])
      /\ call'[c].state = "none"
  <2>1. /\ call' \in CallTable
        /\ \A d \in Channels \ {c} : SameCall(calls[d], call'[d])
        /\ calls[c].state = "none" => call'[c].state = "none"
        /\ k.identified /\ calls[c].gen = k.gen => call'[c].state = "none"
    <3>1. calls \in CallTable /\ k \in ClientRecord /\ call' \in AesExit(calls, c, k)
      BY <1>1
    <3> HIDE DEF Droppable
    <3> QED BY <3>1, AesExitKeepsOthers
  <2>2. calls[c].state = "none" \/ (k.identified /\ calls[c].gen = k.gen)
    BY DEF IInv, HeldForConnection, SameCall
  <2> QED BY <2>1, <2>2 DEF SameCall
<1>4. Closed \in ClientRecord /\ Closed.peer = NONE /\ ~Closed.waiting
  <2>1. 0 \in 0 .. MaxGeneration /\ 0 \in 0 .. FramePieces - 1
    BY ServerAssumption DEF FramePieces
  <2> QED BY <2>1 DEF Closed, ClientRecord
<1>5. TypeOK'
  <2>1. client' \in [Channels -> ClientRecord]
    <3>1. client \in [Channels -> ClientRecord]
      BY DEF IInv, TypeOK
    <3> QED BY <1>1, <1>4, <3>1
  <2>2. link' \in [Procs -> {"off", "open", "cut"}]
    BY <1>0, <1>1 DEF IInv, TypeOK
  <2>3. up' \in [Procs -> 0 .. FramePieces]
    BY <1>0, <1>1 DEF IInv, TypeOK, FramePieces
  <2>4. proc' \in [Procs -> {"none", "run", "exiting", "zombie", "gone"}]
    BY <1>0, <1>1
  <2> QED BY <1>3, <2>1, <2>2, <2>3, <2>4 DEF IInv, TypeOK, LoopTypes, CallTable
<1>6. GenerationsFit'
  BY DEF IInv, GenerationsFit
<1>7. OnePlace'
  <2>1. \A d, e \in Channels :
           client'[d].peer = client'[e].peer /\ client'[d].peer # NONE => d = e
    BY <1>2, <1>4 DEF IInv, OnePlace
  <2>2. \A i \in 1 .. Len(backlog) : backlog[i] # NONE
    BY <1>00, ServerAssumption
  <2>3. \A d \in Channels : \A i \in 1 .. Len(backlog) : client'[d].peer # backlog[i]
    BY <1>2, <1>4, <2>2 DEF IInv, OnePlace
  <2> QED BY <2>1, <2>3 DEF IInv, OnePlace
<1>8. PlacesAreAttached'
  <2>1. \A i \in 1 .. Len(backlog) : backlog[i] \in Procs \ {p}
    BY <1>00 DEF IInv, OnePlace
  <2>2. \A d \in Channels \ {c} : client[d].peer \in Procs \cup {NONE}
    BY DEF IInv, TypeOK, ClientRecord
  <2>3. ASSUME NEW q \in Procs \ {p}, Attached(q) PROVE Attached(q)'
    BY <1>2, <2>3 DEF Attached
  <2>4. \A d \in Channels : client'[d].peer # NONE => Attached(client[d].peer)' /\ d # c
    BY <1>2, <1>4, <2>2, <2>3 DEF IInv, PlacesAreAttached
  <2>5. \A i \in 1 .. Len(backlog') : Attached(backlog[i])'
    BY <2>1, <2>3 DEF IInv, PlacesAreAttached
  <2>6. \A q \in Procs : up'[q] # 0 => Attached(q)'
    BY <1>2, <2>3 DEF IInv, PlacesAreAttached
  <2>7. \A q \in Procs : link'[q] = "off" => wrote'[q] = 0 /\ down'[q] = 0
    BY <1>2 DEF IInv, PlacesAreAttached
  <2>8. \A q \in Procs : link'[q] = "open" => proc'[q] = "run" \/ pc' = "ended"
    BY <1>2 DEF IInv, PlacesAreAttached
  <2> QED BY <1>2, <2>4, <2>5, <2>6, <2>7, <2>8 DEF PlacesAreAttached, Attached
<1>9. ClosedIsEmpty'
  BY <1>2 DEF IInv, ClosedIsEmpty
<1>10. HeldForConnection'
  BY <1>2, <1>3, <1>4 DEF IInv, HeldForConnection, SameCall
<1>11. Books'
  <2> SUFFICES ASSUME NEW q \in Procs, link'[q] = "open"
               PROVE  /\ \A d \in Channels : client'[d].peer = q =>
                            up'[q] + FramePieces * down'[q] + Kept(d)' = wrote'[q]
                      /\ (\A d \in Channels : client'[d].peer # q) =>
                            up'[q] + FramePieces * down'[q] = wrote'[q]
    BY DEF Books
  <2>1. q # p /\ link[q] = "open" /\ up'[q] = up[q]
    BY <1>2
  <2>2. \A d \in Channels : client'[d].peer = q <=> client[d].peer = q
    BY <1>0, <1>2, <1>4, <2>1, ServerAssumption
  <2>3. \A d \in Channels : client'[d].peer = q => Kept(d)' = Kept(d)
    BY <1>2, <1>4, ServerAssumption DEF Kept
  <2> QED BY <2>1, <2>2, <2>3 DEF IInv, Books
<1>12. ReadersAreReadable'
  <2>1. ASSUME NEW d \in Channels \ {c}, Readable(d) PROVE Readable(d)'
    BY <1>2, <2>1 DEF IInv, TypeOK, ClientRecord, Readable
  <2> QED BY <2>1 DEF IInv, TypeOK, ReadersAreReadable
<1> QED BY <1>5, <1>6, <1>7, <1>8, <1>9, <1>10, <1>11, <1>12 DEF IInv
\* The steps of the loop that only move its place, its flags and the AES.
LEMMA QuietLoopKeeps ==
    ASSUME IInv,
           \/ LoopTop \/ Rearm \/ RepliesDone \/ ReapBegin \/ ReapNone \/ ReapEnd
           \/ Alarm \/ Terminate
    PROVE  IInv'
<1>1. call \in CallTable /\ \A c \in Channels : SameCall(call[c], call[c])
  BY DEF IInv, TypeOK, CallTable, SameCall
<1>2. LoopTypes
  BY DEF IInv, TypeOK, LoopTypes
<1> USE <1>1, <1>2, LoopStepKeeps DEF LoopTypes, Go, signalVars
<1>3. CASE LoopTop
  BY <1>3 DEF LoopTop
<1>4. CASE Rearm
  <2>1. call' \in CallTable /\ \A c \in Channels : SameCall(call[c], call'[c])
    BY <1>4, FinishingKeepsCalls DEF Rearm
  <2> QED BY <1>4, <2>1 DEF Rearm
<1>5. CASE RepliesDone
  BY <1>5 DEF RepliesDone
<1>6. CASE ReapBegin
  BY <1>6 DEF ReapBegin
<1>7. CASE ReapNone
  BY <1>7 DEF ReapNone
<1>8. CASE ReapEnd
  BY <1>8 DEF ReapEnd
<1>9. CASE Alarm
  BY <1>9 DEF Alarm
<1>10. CASE Terminate
  BY <1>10 DEF Terminate
<1> QED BY <1>3, <1>4, <1>5, <1>6, <1>7, <1>8, <1>9, <1>10

\* A connection that is dropped as it is, from the calls as they are.
LEMMA DropClientKeeps ==
    ASSUME IInv, NEW c \in Channels, client[c].peer # NONE, DropClient(c),
           UNCHANGED <<wrote, down, backlog, nextGen>>, LoopTypes',
           pc = "ended" => pc' = "ended",
           \/ pc' \notin {"accept", "serve"}
           \/ pc = "serve" /\ pc' = "serve" /\ readers' \subseteq readers \ {c}
    PROVE  IInv'
<1>1. /\ client[c] \in ClientRecord /\ call \in CallTable
      /\ proc \in [Procs -> {"none", "run", "exiting", "zombie", "gone"}]
      /\ \A d \in Channels : SameCall(call[d], call[d])
      /\ client[c].waiting => client[c].identified
  BY DEF IInv, TypeOK, CallTable, SameCall, HeldForConnection
<1>2. Drop(c, client[c], call, proc) /\ Droppable(c, client[c], call, proc)
  BY <1>1 DEF DropClient, Droppable
<1> QED BY <1>2, DropKeeps

\* select and the end of the loop: every reader the loop is about to serve is
\* readable.
LEMMA SelectKeeps ==
    ASSUME IInv, Select
    PROVE  IInv'
<1> USE DEF Select, clientVars, signalVars
<1>1. TypeOK' /\ GenerationsFit'
  BY DEF IInv, TypeOK, GenerationsFit
<1>2. OnePlace' /\ ClosedIsEmpty' /\ HeldForConnection'
  BY DEF IInv, OnePlace, ClosedIsEmpty, HeldForConnection
<1>3. PlacesAreAttached' /\ Books'
  BY DEF IInv, PlacesAreAttached, Attached, Books, Kept
<1>4. ReadersAreReadable'
  BY DEF ReadersAreReadable, Readable
<1> QED BY <1>1, <1>2, <1>3, <1>4 DEF IInv

\* The reads that drop their client, and the end.
LEMMA ReadDropsKeep ==
    ASSUME IInv, NEW c \in Channels, ReadEnd(c) \/ ReadRefused(c)
    PROVE  IInv'
<1>1. pc = "serve" /\ c \in readers /\ readers \subseteq Channels
  <2>1. pc = "serve" /\ readers # {} /\ c = Least(readers)
    BY DEF ReadEnd, ReadRefused, CanRead, Serving
  <2>2. readers \subseteq Channels
    BY DEF IInv, TypeOK
  <2> QED BY <2>1, <2>2, LeastChannel
<1>2. client[c].peer # NONE
  BY <1>1 DEF IInv, ReadersAreReadable, Readable
<1>3. /\ DropClient(c) /\ Served(c)
      /\ UNCHANGED <<wrote, down, backlog, stop, tick, armed, nextGen>>
  BY DEF ReadEnd, ReadRefused
<1>4. LoopTypes'
  <2>1. LoopTypes /\ proc \in [Procs -> {"none", "run", "exiting", "zombie", "gone"}]
    BY DEF IInv, TypeOK, LoopTypes
  <2>2. children' \in BOOLEAN
    BY <1>3, <2>1 DEF DropClient, Drop, LoopTypes
  <2> QED BY <1>3, <2>1, <2>2 DEF LoopTypes, Served
<1> QED BY <1>1, <1>2, <1>3, <1>4, DropClientKeeps DEF Served

\* The next client that the end of the server drops.
LEMMA StopOneKeeps ==
    ASSUME IInv, StopOne
    PROVE  IInv'
<1> DEFINE c == Least(StopOrder)
<1>1. c \in StopOrder
  BY LeastChannel DEF StopOne, StopOrder
<1>2. c \in Channels /\ client[c].peer # NONE
  BY <1>1 DEF StopOrder
<1> HIDE DEF c
<1>3. DropClient(c)
  BY DEF StopOne, c
<1>4. LoopTypes'
  <2>1. children' \in BOOLEAN
    BY <1>3 DEF DropClient, Drop, IInv, TypeOK
  <2> QED BY <2>1 DEF StopOne, LoopTypes, IInv, TypeOK
<1> QED BY <1>2, <1>3, <1>4, DropClientKeeps DEF StopOne
\* A finished call that is answered, or whose client is dropped.
LEMMA ReplyReadyKeeps ==
    ASSUME IInv, ReplyReady
    PROVE  IInv'
<1> DEFINE K(c) == client[c]
           Taken(c) == [call EXCEPT ![c] = NoCall]
<1>1. PICK c \in Channels :
         /\ call[c].state = "ready"
         /\ IF K(c).peer = NONE
            THEN call' = Taken(c) /\ UNCHANGED <<proc, link, up, down, client, children>>
            ELSE IF CanReply(c, K(c), call[c].gen)
            THEN /\ Reply(K(c).peer)
                 /\ call' = Taken(c)
                 /\ client' = [client EXCEPT ![c] = Answered(K(c))]
                 /\ UNCHANGED <<proc, link, up, children>>
            ELSE Drop(c, K(c), Taken(c), proc) /\ UNCHANGED down
  BY DEF ReplyReady
<1>2. /\ UNCHANGED <<wrote, backlog, pc, readers, stop, tick, armed, nextGen>>
      /\ pc = "reply"
  BY DEF ReplyReady
<1>3. client[c].waiting /\ client[c].peer # NONE
  BY <1>1 DEF IInv, HeldForConnection, ClosedIsEmpty, Closed
<1>4. /\ Taken(c) \in CallTable /\ Taken(c)[c].state = "none"
      /\ \A d \in Channels \ {c} : Taken(c)[d] = call[d]
  <2>1. NoCall \in [state : {"none", "held", "ready"}, gen : 0 .. MaxGeneration]
    BY ServerAssumption DEF NoCall
  <2>2. call \in CallTable
    BY DEF IInv, TypeOK, CallTable
  <2> QED BY <2>1, <2>2 DEF CallTable, NoCall
<1> HIDE DEF Taken
<1>5. CASE CanReply(c, client[c], call[c].gen)
  <2> DEFINE p == client[c].peer
  <2>1. p \in Procs /\ link[p] = "open"
    BY <1>3, <1>5 DEF IInv, TypeOK, ClientRecord, CanReply
  <2>2. /\ down' = [down EXCEPT ![p] = @ + 1]
        /\ call' = Taken(c)
        /\ client' = [client EXCEPT ![c].waiting = FALSE]
        /\ UNCHANGED <<proc, link, up, children>>
    BY <1>1, <1>3, <1>5 DEF Reply, Answered
  <2>3. up[p] + FramePieces * down[p] + Kept(c) = wrote[p]
    BY <2>1 DEF IInv, Books
  <2>4. /\ up[p] \in Nat /\ down[p] \in 0 .. 1 /\ wrote[p] \in 0 .. 2
        /\ client[c].received \in Nat
    <3>1. /\ up \in [Procs -> 0 .. 2] /\ down \in [Procs -> 0 .. 1]
          /\ wrote \in [Procs -> 0 .. 2] /\ client[c] \in ClientRecord
      BY DEF IInv, TypeOK, FramePieces
    <3>2. client[c].received \in 0 .. 1
      BY <3>1 DEF ClientRecord, FramePieces
    <3> QED BY <2>1, <3>1, <3>2
  <2>5. down[p] = 0 /\ up[p] = 0 /\ client[c].received = 0 /\ wrote[p] = 2
    BY <1>3, <2>3, <2>4 DEF Kept, FramePieces
  <2>6. /\ client'[c].peer = client[c].peer /\ client'[c].gen = client[c].gen
        /\ client'[c].received = 0 /\ client'[c].waiting = FALSE
        /\ \A d \in Channels \ {c} : client'[d] = client[d]
        /\ client' \in [Channels -> ClientRecord]
    BY <2>2, <2>5 DEF IInv, TypeOK, ClientRecord
  <2>7. down'[p] = 1 /\ \A q \in Procs \ {p} : down'[q] = down[q]
    BY <2>1, <2>2, <2>5 DEF IInv, TypeOK
  <2>8. TypeOK'
    <3>1. down' \in [Procs -> 0 .. 1]
      BY <2>1, <2>2, <2>5 DEF IInv, TypeOK
    <3> QED BY <1>2, <1>4, <2>2, <2>6, <3>1 DEF IInv, TypeOK, CallTable
  <2>9. GenerationsFit' /\ ReadersAreReadable'
    BY <1>2 DEF IInv, GenerationsFit, ReadersAreReadable
  <2>10. OnePlace' /\ ClosedIsEmpty'
    BY <1>2, <1>3, <2>6 DEF IInv, OnePlace, ClosedIsEmpty
  <2>11. PlacesAreAttached'
    BY <1>2, <2>1, <2>2, <2>6, <2>7 DEF IInv, PlacesAreAttached, Attached
  <2>12. HeldForConnection'
    BY <1>4, <2>2, <2>6 DEF IInv, HeldForConnection
  <2>13. Books'
    <3> SUFFICES ASSUME NEW q \in Procs, link'[q] = "open"
                 PROVE  /\ \A d \in Channels : client'[d].peer = q =>
                              up'[q] + FramePieces * down'[q] + Kept(d)' = wrote'[q]
                        /\ (\A d \in Channels : client'[d].peer # q) =>
                              up'[q] + FramePieces * down'[q] = wrote'[q]
      BY DEF Books
    <3>1. CASE q = p
      <4>1. \A d \in Channels : client'[d].peer = q => d = c
        BY <1>3, <2>6, <3>1 DEF IInv, OnePlace
      <4> QED BY <1>2, <2>2, <2>5, <2>6, <2>7, <3>1, <4>1 DEF Kept, FramePieces
    <3>2. CASE q # p
      BY <1>2, <2>2, <2>6, <2>7, <3>2 DEF IInv, Books, Kept
    <3> QED BY <3>1, <3>2
  <2> QED BY <2>8, <2>9, <2>10, <2>11, <2>12, <2>13 DEF IInv
<1>6. CASE ~CanReply(c, client[c], call[c].gen)
  <2>1. Drop(c, client[c], Taken(c), proc) /\ UNCHANGED down
    BY <1>1, <1>3, <1>6
  <2>2. LoopTypes'
    BY <1>2, <2>1 DEF Drop, LoopTypes, IInv, TypeOK
  <2>3. /\ client[c] \in ClientRecord
        /\ proc \in [Procs -> {"none", "run", "exiting", "zombie", "gone"}]
        /\ \A d \in Channels \ {c} : SameCall(call[d], Taken(c)[d])
        /\ client[c].waiting => client[c].identified
    BY <1>4 DEF IInv, TypeOK, SameCall, HeldForConnection
  <2>4. Droppable(c, client[c], Taken(c), proc)
    BY <1>3, <1>4, <2>3 DEF Droppable
  <2> QED BY <1>2, <2>1, <2>2, <2>4, DropKeeps
<1> QED BY <1>5, <1>6

\* A dead child whose connection is dropped, or that had none.
LEMMA ReapOneKeeps ==
    ASSUME IInv, ReapOne
    PROVE  IInv'
<1> DEFINE Mine(p) == {c \in Channels : client[c].identified /\ client[c].peer = p}
           Without(p) == [proc EXCEPT ![p] = "gone"]
<1>1. PICK p \in Procs :
         /\ proc[p] = "zombie"
         /\ stop' = (stop \/ p = Desktop)
         /\ IF Mine(p) = {}
            THEN proc' = Without(p) /\ UNCHANGED <<call, link, up, client, children>>
            ELSE Drop(Least(Mine(p)), client[Least(Mine(p))], call, Without(p))
  BY DEF ReapOne
<1>2. /\ UNCHANGED <<wrote, down, backlog, pc, readers, tick, armed, nextGen>>
      /\ pc = "reaping"
  BY DEF ReapOne
<1>3. /\ Without(p) \in [Procs -> {"none", "run", "exiting", "zombie", "gone"}]
      /\ Without(p)[p] = "gone"
      /\ \A q \in Procs \ {p} : Without(p)[q] = proc[q]
  BY DEF IInv, TypeOK
<1> HIDE DEF Without
<1>4. CASE Mine(p) = {}
  <2> USE <1>1, <1>2, <1>3, <1>4
  <2>1. TypeOK'
    BY DEF IInv, TypeOK
  <2>2. GenerationsFit' /\ OnePlace' /\ ClosedIsEmpty'
    BY DEF IInv, GenerationsFit, OnePlace, ClosedIsEmpty
  <2>3. HeldForConnection' /\ Books' /\ ReadersAreReadable'
    BY DEF IInv, HeldForConnection, Books, Kept, ReadersAreReadable
  <2>4. link[p] # "open"
    BY DEF IInv, PlacesAreAttached
  <2>5. \A q \in Procs : Attached(q) => Attached(q)'
    BY DEF Attached
  <2>6. PlacesAreAttached'
    <3>1. /\ \A c \in Channels : client[c].peer \in Procs \cup {NONE}
          /\ \A i \in 1 .. Len(backlog) : backlog[i] \in Procs
      BY ElementOfSeq DEF IInv, TypeOK, ClientRecord
    <3> QED BY <2>4, <2>5, <3>1 DEF IInv, PlacesAreAttached
  <2> QED BY <2>1, <2>2, <2>3, <2>6 DEF IInv
<1>5. CASE Mine(p) # {}
  <2> DEFINE c == Least(Mine(p))
  <2>1. c \in Channels /\ client[c].peer = p /\ p # NONE
    BY <1>5, LeastChannel, ServerAssumption
  <2>2. Drop(c, client[c], call, Without(p))
    BY <1>1, <1>5
  <2> HIDE DEF c
  <2>3. LoopTypes'
    BY <1>1, <1>2, <2>2 DEF Drop, LoopTypes, IInv, TypeOK
  <2>4. /\ client[c] \in ClientRecord /\ call \in CallTable
        /\ \A d \in Channels : SameCall(call[d], call[d])
        /\ client[c].waiting => client[c].identified
    BY <2>1 DEF IInv, TypeOK, CallTable, SameCall, HeldForConnection
  <2>5. Droppable(c, client[c], call, Without(p))
    BY <1>3, <2>1, <2>4 DEF Droppable
  <2> QED BY <1>2, <2>1, <2>2, <2>3, <2>5, DropKeeps
<1> QED BY <1>4, <1>5
\* A connection from the backlog gets a channel, or is closed.
LEMMA AcceptKeeps ==
    ASSUME IInv, Accept
    PROVE  IInv'
<1> DEFINE p == Head(backlog)
           free == {c \in Channels : client[c].peer = NONE}
<1>1. /\ pc = "accept" /\ pc' \in {"serve", "loop"}
      /\ backlog' = Tail(backlog)
      /\ UNCHANGED <<proc, wrote, down, readers, signalVars, call>>
  BY DEF Accept
<1>2. /\ backlog \in Seq(Procs) /\ backlog # <<>>
      /\ p \in Procs /\ p # NONE /\ p = backlog[1]
      /\ Len(backlog) \in Nat /\ 1 \in 1 .. Len(backlog)
  <2>1. backlog \in Seq(Procs) /\ backlog # <<>>
    BY <1>1 DEF IInv, TypeOK, GenerationsFit
  <2> QED BY <2>1, ServerAssumption, HeadTailProperties, EmptySeq, LenProperties
<1>3. /\ backlog' \in Seq(Procs) /\ Len(backlog') = Len(backlog) - 1
      /\ \A i \in 1 .. Len(backlog') :
            backlog'[i] = backlog[i + 1] /\ i + 1 \in 1 .. Len(backlog)
  BY <1>1, <1>2, HeadTailProperties
<1>4. \A i \in 1 .. Len(backlog') : backlog'[i] \in Procs \ {p}
  <2>1. \A i \in 2 .. Len(backlog) : backlog[i] \in Procs /\ backlog[i] # p
    BY <1>2, ElementOfSeq DEF IInv, OnePlace
  <2> QED BY <1>2, <1>3, <2>1
<1>5. \A c \in Channels : client[c].peer # p
  BY <1>2 DEF IInv, OnePlace
<1>6. \A c \in Channels : client[c].peer \in Procs \cup {NONE}
  BY DEF IInv, TypeOK, ClientRecord
<1>7. Attached(p)
  BY <1>2 DEF IInv, PlacesAreAttached
<1> HIDE DEF p
<1>8. \A i, j \in 1 .. Len(backlog') : backlog'[i] = backlog'[j] => i = j
  BY <1>2, <1>3 DEF IInv, OnePlace
<1>9. CASE free = {}
  <2>1. /\ link' = [link EXCEPT ![p] = IF @ = "open" THEN "cut" ELSE @]
        /\ up' = [up EXCEPT ![p] = 0]
        /\ UNCHANGED <<client, nextGen>>
    BY <1>9 DEF Accept, p
  <2>2. /\ link'[p] # "open" /\ (link'[p] = "off" => link[p] = "off") /\ up'[p] = 0
        /\ \A q \in Procs \ {p} : link'[q] = link[q] /\ up'[q] = up[q]
    BY <1>2, <2>1 DEF IInv, TypeOK
  <2>3. TypeOK'
    <3>1. link' \in [Procs -> {"off", "open", "cut"}] /\ up' \in [Procs -> 0 .. FramePieces]
      BY <1>2, <2>1 DEF IInv, TypeOK, FramePieces
    <3> QED BY <1>1, <1>3, <2>1, <3>1 DEF IInv, TypeOK, signalVars
  <2>4. GenerationsFit'
    BY <1>1, <1>2, <1>3, <2>1, ServerAssumption DEF IInv, TypeOK, GenerationsFit
  <2>5. OnePlace'
    BY <1>3, <1>8, <2>1 DEF IInv, OnePlace
  <2>6. ClosedIsEmpty' /\ HeldForConnection'
    BY <1>1, <2>1 DEF IInv, ClosedIsEmpty, HeldForConnection
  <2>7. \A q \in Procs \ {p} : Attached(q) => Attached(q)'
    BY <1>1, <2>2 DEF Attached
  <2>8. PlacesAreAttached'
    <3>1. \A c \in Channels : client'[c].peer # NONE => Attached(client[c].peer)'
      BY <1>5, <1>6, <2>1, <2>7 DEF IInv, PlacesAreAttached, Attached
    <3>2. \A i \in 1 .. Len(backlog') : Attached(backlog[i])'
      BY <1>3, <1>4, <2>7 DEF IInv, PlacesAreAttached, Attached
    <3>3. \A q \in Procs : up'[q] # 0 => Attached(q)'
      BY <2>2, <2>7 DEF IInv, PlacesAreAttached
    <3> QED BY <1>1, <2>2, <3>1, <3>2, <3>3 DEF IInv, PlacesAreAttached, Attached
  <2>9. Books'
    BY <1>1, <2>1, <2>2 DEF IInv, Books, Kept
  <2>10. ReadersAreReadable'
    <3>1. \A c \in Channels : Readable(c) => Readable(c)'
      BY <1>5, <1>6, <2>1, <2>2 DEF Readable
    <3> QED BY <1>1, <3>1 DEF IInv, TypeOK, ReadersAreReadable
  <2> QED BY <2>3, <2>4, <2>5, <2>6, <2>8, <2>9, <2>10 DEF IInv
<1>10. CASE free # {}
  <2> DEFINE k == [Closed EXCEPT !.peer = p, !.gen = nextGen]
  <2>1. PICK c \in Channels : c = Least(free) /\ client[c].peer = NONE
    BY <1>10, LeastChannel
  <2>2. /\ client' = [client EXCEPT ![c] = k]
        /\ nextGen' = nextGen + 1
        /\ UNCHANGED <<link, up>>
    BY <1>10, <2>1 DEF Accept, p
  <2>3. /\ nextGen \in 1 .. MaxGeneration /\ nextGen' \in 1 .. MaxGeneration + 1
        /\ nextGen' + Len(backlog') <= MaxGeneration + 1
    BY <1>2, <1>3, <2>2, ServerAssumption DEF IInv, TypeOK, GenerationsFit
  <2>4. /\ k \in ClientRecord /\ k.peer = p /\ k.received = 0
        /\ ~k.waiting /\ ~k.identified
    <3>1. 0 \in 0 .. FramePieces - 1 /\ nextGen \in 0 .. MaxGeneration
      BY <2>3 DEF FramePieces
    <3> QED BY <1>2, <3>1 DEF Closed, ClientRecord
  <2> HIDE DEF k
  <2>5. /\ client'[c] = k /\ \A d \in Channels \ {c} : client'[d] = client[d]
        /\ client' \in [Channels -> ClientRecord]
    <3>1. client \in [Channels -> ClientRecord]
      BY DEF IInv, TypeOK
    <3> QED BY <2>1, <2>2, <2>4, <3>1
  <2>6. TypeOK'
    BY <1>1, <1>3, <2>2, <2>3, <2>5 DEF IInv, TypeOK, signalVars
  <2>7. GenerationsFit'
    BY <1>1, <2>3 DEF GenerationsFit
  <2>8. OnePlace'
    <3>1. \A d, e \in Channels :
             client'[d].peer = client'[e].peer /\ client'[d].peer # NONE => d = e
      BY <1>5, <2>4, <2>5 DEF IInv, OnePlace
    <3>2. \A d \in Channels : \A i \in 1 .. Len(backlog') : client'[d].peer # backlog'[i]
      BY <1>3, <1>4, <2>4, <2>5 DEF IInv, OnePlace
    <3> QED BY <1>8, <3>1, <3>2 DEF OnePlace
  <2>9. ClosedIsEmpty'
    BY <1>2, <2>4, <2>5 DEF IInv, ClosedIsEmpty
  <2>10. HeldForConnection'
    <3>1. call[c].state = "none"
      BY <2>1 DEF IInv, HeldForConnection, ClosedIsEmpty, Closed
    <3> QED BY <1>1, <2>4, <2>5, <3>1 DEF IInv, HeldForConnection
  <2>11. \A q \in Procs : Attached(q) => Attached(q)'
    BY <1>1, <2>2 DEF Attached
  <2>12. PlacesAreAttached'
    <3>1. \A d \in Channels : client'[d].peer # NONE => Attached(client[d].peer)'
      BY <1>2, <1>6, <1>7, <2>4, <2>5, <2>11 DEF IInv, PlacesAreAttached, Attached
    <3>2. \A i \in 1 .. Len(backlog') : Attached(backlog[i])'
      BY <1>3, <1>4, <2>11 DEF IInv, PlacesAreAttached, Attached
    <3> QED BY <1>1, <2>2, <2>11, <3>1, <3>2 DEF IInv, PlacesAreAttached, Attached
  <2>13. Books'
    <3> SUFFICES ASSUME NEW q \in Procs, link'[q] = "open"
                 PROVE  /\ \A d \in Channels : client'[d].peer = q =>
                              up'[q] + FramePieces * down'[q] + Kept(d)' = wrote'[q]
                        /\ (\A d \in Channels : client'[d].peer # q) =>
                              up'[q] + FramePieces * down'[q] = wrote'[q]
      BY DEF Books
    <3>1. CASE q = p
      <4>1. up[q] + FramePieces * down[q] = wrote[q] /\ up[q] \in Nat /\ down[q] \in Nat
        <5>1. up[q] + FramePieces * down[q] = wrote[q]
          BY <1>5, <2>2, <3>1 DEF IInv, Books
        <5>2. up \in [Procs -> 0 .. 2] /\ down \in [Procs -> 0 .. 1]
          BY DEF IInv, TypeOK, FramePieces
        <5> QED BY <3>1, <5>1, <5>2
      <4>2. \A d \in Channels : client'[d].peer = q => d = c
        BY <1>5, <2>5, <3>1
      <4>3. Kept(c)' = 0
        BY <2>4, <2>5 DEF Kept, FramePieces
      <4> QED BY <1>1, <2>2, <2>4, <2>5, <3>1, <4>1, <4>2, <4>3 DEF FramePieces
    <3>2. CASE q # p
      <4>1. \A d \in Channels : client'[d].peer = q <=> client[d].peer = q
        BY <2>1, <2>4, <2>5, <3>2, ServerAssumption
      <4>2. \A d \in Channels : client'[d].peer = q => Kept(d)' = Kept(d)
        BY <2>4, <2>5, <3>2 DEF Kept
      <4> QED BY <1>1, <2>2, <4>1, <4>2 DEF IInv, Books
    <3> QED BY <3>1, <3>2
  <2>14. ReadersAreReadable'
    <3>1. \A d \in Channels : Readable(d) => Readable(d)'
      BY <2>1, <2>2, <2>5 DEF Readable
    <3> QED BY <1>1, <3>1 DEF IInv, TypeOK, ReadersAreReadable
  <2> QED BY <2>6, <2>7, <2>8, <2>9, <2>10, <2>12, <2>13, <2>14 DEF IInv
<1> QED BY <1>9, <1>10
----------------------------------------------------------------------------
(* Reading a request *)

\* The channel whose turn it is has a client with something to read.
LEMMA ServingIsReadable ==
    ASSUME IInv, NEW c \in Channels, Serving(c)
    PROVE  /\ pc = "serve" /\ c \in readers /\ readers \subseteq Channels
           /\ client[c] \in ClientRecord
           /\ client[c].peer \in Procs /\ client[c].peer # NONE
           /\ Readable(c)
<1>1. pc = "serve" /\ readers \subseteq Channels /\ c \in readers
  BY LeastChannel DEF Serving, IInv, TypeOK
<1>2. Readable(c)
  BY <1>1 DEF IInv, ReadersAreReadable
<1> QED BY <1>1, <1>2 DEF Readable, IInv, TypeOK, ClientRecord

\* A request's pieces are taken from a client that does not wait: of its record
\* changes what has been received, whether it waits, and that it is known; as
\* many answers leave for it; the requests of no other client are touched.
Takes(c, k, answers) ==
    /\ Serving(c) /\ ~client[c].waiting /\ Served(c)
    /\ k \in ClientRecord /\ client' = [client EXCEPT ![c] = k]
    /\ k.peer = client[c].peer /\ k.gen = client[c].gen
    /\ k.waiting => k.identified /\ call'[c].gen = k.gen
    /\ k.waiting <=> call'[c].state # "none"
    /\ up' = [up EXCEPT ![k.peer] = 0]
    /\ answers > 0 => link[k.peer] = "open"
    /\ down' = [down EXCEPT ![k.peer] = @ + answers]
    /\ link[k.peer] = "open" =>
          k.received + FramePieces * answers + (IF k.waiting THEN FramePieces ELSE 0)
             = client[c].received + up[k.peer]
    /\ call' \in CallTable /\ \A d \in Channels \ {c} : SameCall(call[d], call'[d])
    /\ proc' \in [Procs -> {"none", "run", "exiting", "zombie", "gone"}]
    /\ \A p \in Procs : \/ proc'[p] = proc[p]
                        \/ proc[p] = "none" /\ proc'[p] = "run"
    /\ UNCHANGED <<link, wrote, backlog, signalVars, nextGen>>

\* Taking pieces keeps the invariant, whatever becomes of them.
LEMMA TakeKeeps ==
    ASSUME IInv, NEW c \in Channels, NEW k, NEW answers \in 0 .. 1, Takes(c, k, answers)
    PROVE  IInv'
<1> USE DEF Takes
<1> DEFINE p == client[c].peer
<1>1. /\ pc = "serve" /\ c \in readers /\ readers \subseteq Channels
      /\ client[c] \in ClientRecord /\ p \in Procs /\ p # NONE
  BY ServingIsReadable
<1>2. k.peer = p
  OBVIOUS
<1>3. /\ client'[c] = k /\ \A d \in Channels \ {c} : client'[d] = client[d]
      /\ client' \in [Channels -> ClientRecord]
  <2>1. client \in [Channels -> ClientRecord]
    BY DEF IInv, TypeOK
  <2> QED BY <2>1
<1>4. \A d \in Channels : client'[d].peer = client[d].peer
  BY <1>2, <1>3
<1>5. /\ up'[p] = 0 /\ down'[p] = down[p] + answers
      /\ \A q \in Procs \ {p} : up'[q] = up[q] /\ down'[q] = down[q]
  BY <1>1, <1>2 DEF IInv, TypeOK
<1>6. /\ up[p] \in Nat /\ down[p] \in 0 .. 1 /\ wrote[p] \in 0 .. 2
      /\ client[c].received \in Nat /\ k.received \in Nat
  <2>1. /\ up \in [Procs -> 0 .. 2] /\ down \in [Procs -> 0 .. 1]
        /\ wrote \in [Procs -> 0 .. 2]
    BY DEF IInv, TypeOK, FramePieces
  <2>2. client[c].received \in 0 .. 1 /\ k.received \in 0 .. 1
    BY <1>1 DEF ClientRecord, FramePieces
  <2> QED BY <1>1, <2>1, <2>2
<1>7. link[p] = "open" => up[p] + 2 * down[p] + client[c].received = wrote[p]
  BY <1>1, <1>6 DEF IInv, Books, Kept, FramePieces
<1>8. /\ link[p] = "open" =>
            k.received + 2 * answers + (IF k.waiting THEN 2 ELSE 0) = client[c].received + up[p]
      /\ down[p] + answers \in 0 .. 1
  <2> DEFINE w == IF k.waiting THEN 2 ELSE 0
  <2>1. link[p] = "open" => k.received + 2 * answers + w = client[c].received + up[p]
    BY <1>2 DEF FramePieces
  <2>2. answers > 0 => link[p] = "open"
    BY <1>2
  <2>3. w \in Nat
    OBVIOUS
  <2> HIDE DEF w, Takes
  <2>4. down[p] + answers \in 0 .. 1
    <3>1. CASE answers = 0
      BY <1>6, <3>1
    <3>2. CASE answers = 1
      <4>1. k.received + 2 + w = client[c].received + up[p]
        BY <2>1, <2>2, <3>2
      <4>2. up[p] + 2 * down[p] + client[c].received <= 2
        BY <1>6, <1>7, <2>2, <3>2
      <4> QED BY <1>6, <2>3, <3>2, <4>1, <4>2
    <3> QED BY <3>1, <3>2
  <2> QED BY <2>1, <2>4 DEF w
<1>9. TypeOK'
  <2>1. up' \in [Procs -> 0 .. FramePieces]
    BY <1>1, <1>2 DEF IInv, TypeOK, FramePieces
  <2>2. down' \in [Procs -> 0 .. 1]
    BY <1>1, <1>2, <1>8 DEF IInv, TypeOK
  <2>3. readers' \subseteq Channels /\ pc' \in {"loop", "serve"}
    BY <1>1 DEF Served
  <2> QED BY <1>3, <2>1, <2>2, <2>3 DEF IInv, TypeOK, signalVars, CallTable
<1>10. GenerationsFit'
  BY DEF IInv, GenerationsFit, Served
<1>11. OnePlace'
  BY <1>4 DEF IInv, OnePlace
<1>12. ClosedIsEmpty'
  BY <1>1, <1>2, <1>3 DEF IInv, ClosedIsEmpty
<1>13. \A q \in Procs : Attached(q) => Attached(q)'
  BY DEF Attached
<1>14. PlacesAreAttached'
  <2>1. /\ \A d \in Channels : client[d].peer \in Procs \cup {NONE}
        /\ \A i \in 1 .. Len(backlog) : backlog[i] \in Procs
    BY ElementOfSeq DEF IInv, TypeOK, ClientRecord
  <2>2. \A d \in Channels : client'[d].peer # NONE => Attached(client[d].peer)'
    BY <1>4, <1>13, <2>1 DEF IInv, PlacesAreAttached, Attached
  <2>3. \A i \in 1 .. Len(backlog') : Attached(backlog[i])'
    BY <1>13, <2>1 DEF IInv, PlacesAreAttached, Attached
  <2>4. \A q \in Procs : up'[q] # 0 => Attached(q)'
    BY <1>5, <1>13 DEF IInv, PlacesAreAttached
  <2>5. \A q \in Procs : link'[q] = "off" => wrote'[q] = 0 /\ down'[q] = 0
    BY <1>2, <1>5, <1>6 DEF IInv, PlacesAreAttached
  <2>6. \A q \in Procs : link'[q] = "open" => proc'[q] = "run" \/ pc' = "ended"
    BY <1>1 DEF IInv, PlacesAreAttached
  <2> QED BY <2>2, <2>3, <2>4, <2>5, <2>6 DEF PlacesAreAttached, Attached
<1>15. HeldForConnection'
  BY <1>3 DEF IInv, HeldForConnection, SameCall
<1>16. Books'
  <2> SUFFICES ASSUME NEW q \in Procs, link'[q] = "open"
               PROVE  /\ \A d \in Channels : client'[d].peer = q =>
                            up'[q] + FramePieces * down'[q] + Kept(d)' = wrote'[q]
                      /\ (\A d \in Channels : client'[d].peer # q) =>
                            up'[q] + FramePieces * down'[q] = wrote'[q]
    BY DEF Books
  <2>1. CASE q = p
    <3>1. \A d \in Channels : client'[d].peer = q => d = c
      BY <1>1, <1>4, <2>1 DEF IInv, OnePlace
    <3>2. Kept(c)' = k.received + (IF k.waiting THEN 2 ELSE 0)
      BY <1>3 DEF Kept, FramePieces
    <3>3. 2 * (down[p] + answers) + Kept(c)' = wrote[p]
      <4> DEFINE w == IF k.waiting THEN 2 ELSE 0
      <4>1. w \in Nat /\ Kept(c)' = k.received + w
        BY <3>2
      <4>2. up[p] + 2 * down[p] + client[c].received = wrote[p]
        BY <1>7, <2>1
      <4>3. k.received + 2 * answers + w = client[c].received + up[p]
        BY <1>8, <2>1
      <4> HIDE DEF w
      <4> QED BY <1>6, <4>1, <4>2, <4>3
    <3>4. up'[q] + 2 * down'[q] = 2 * (down[p] + answers)
      BY <1>5, <1>6, <2>1
    <3> QED BY <1>4, <2>1, <3>1, <3>3, <3>4 DEF FramePieces, Kept
  <2>2. CASE q # p
    <3>1. \A d \in Channels : client'[d].peer = q => Kept(d)' = Kept(d)
      BY <1>2, <1>3, <2>2 DEF Kept
    <3> QED BY <1>4, <1>5, <2>2, <3>1 DEF IInv, Books
  <2> QED BY <2>1, <2>2
<1>17. ReadersAreReadable'
  <2>1. ASSUME NEW d \in readers', Readable(d) PROVE Readable(d)'
    <3>1. d \in Channels /\ d # c /\ client[d].peer # p
      BY <1>1 DEF Served, IInv, OnePlace
    <3>2. client[d].peer \in Procs \cup {NONE}
      BY <3>1 DEF IInv, TypeOK, ClientRecord
    <3> QED BY <1>4, <1>5, <2>1, <3>1, <3>2 DEF Readable
  <2> QED BY <1>1, <2>1 DEF IInv, ReadersAreReadable, Served
<1> QED BY <1>9, <1>10, <1>11, <1>12, <1>14, <1>15, <1>16, <1>17 DEF IInv
\* A frame in part.
LEMMA ReadPartKeeps ==
    ASSUME IInv, NEW c \in Channels, ReadPart(c)
    PROVE  IInv'
<1> DEFINE k == [client[c] EXCEPT !.received = Arrived(c)]
<1>1. Serving(c) /\ ~client[c].waiting /\ Served(c)
  BY DEF ReadPart, CanRead
<1>2. client[c] \in ClientRecord /\ client[c].peer \in Procs
  BY <1>1, ServingIsReadable
<1>3. Arrived(c) \in 0 .. 1
  <2>1. client[c].received \in 0 .. 1
    BY <1>2 DEF ClientRecord, FramePieces
  <2>2. up[client[c].peer] \in 0 .. 2
    BY <1>2 DEF IInv, TypeOK, FramePieces
  <2> QED BY <2>1, <2>2 DEF ReadPart, Arrived, FramePieces
<1>4. /\ k \in ClientRecord /\ k.peer = client[c].peer /\ k.gen = client[c].gen
      /\ k.waiting = client[c].waiting /\ k.identified = client[c].identified
      /\ k.received = Arrived(c)
  BY <1>2, <1>3 DEF ClientRecord, FramePieces
<1>5. /\ client' = [client EXCEPT ![c] = k]
      /\ up' = [up EXCEPT ![client[c].peer] = 0]
      /\ UNCHANGED <<proc, link, wrote, down, backlog, signalVars, nextGen, call>>
  BY DEF ReadPart
<1> HIDE DEF k
<1>6. down' = [down EXCEPT ![k.peer] = @ + 0]
  <2>1. down \in [Procs -> 0 .. 1]
    BY DEF IInv, TypeOK
  <2>2. down[k.peer] + 0 = down[k.peer]
    BY <1>2, <1>4, <2>1
  <2> QED BY <1>2, <1>4, <1>5, <2>1, <2>2
<1>7. ~k.waiting /\ call[c].state = "none" /\ \A d \in Channels : SameCall(call[d], call'[d])
  BY <1>1, <1>4, <1>5 DEF IInv, HeldForConnection, SameCall
<1>8. /\ call' \in CallTable
      /\ proc' \in [Procs -> {"none", "run", "exiting", "zombie", "gone"}]
  BY <1>5 DEF IInv, TypeOK, CallTable
<1>9. k.received + FramePieces * 0 + (IF k.waiting THEN FramePieces ELSE 0)
        = client[c].received + up[k.peer]
  BY <1>3, <1>4, <1>7 DEF Arrived, FramePieces
<1>10. Takes(c, k, 0)
  <2>1. /\ k.waiting => k.identified /\ call'[c].gen = k.gen
        /\ k.waiting <=> call'[c].state # "none"
    BY <1>5, <1>7
  <2>2. /\ \A d \in Channels \ {c} : SameCall(call[d], call'[d])
    BY <1>7
  <2>3. \A p \in Procs : proc'[p] = proc[p]
    BY <1>5
  <2>4. up' = [up EXCEPT ![k.peer] = 0]
    BY <1>4, <1>5
  <2>5. client' = [client EXCEPT ![c] = k] /\ ~(0 > 0)
    BY <1>5
  <2>6. UNCHANGED <<link, wrote, backlog, signalVars, nextGen>>
    BY <1>5
  <2>7. k \in ClientRecord /\ k.peer = client[c].peer /\ k.gen = client[c].gen
    BY <1>4
  <2> QED BY <1>1, <1>6, <1>8, <1>9, <2>1, <2>2, <2>3, <2>4, <2>5, <2>6, <2>7 DEF Takes
<1> QED BY <1>10, TakeKeeps

\* A whole frame: what the server knows of the client once it has identified
\* it, and that the frame is all the client has written.
LEMMA WholeFrame ==
    ASSUME IInv, NEW c \in Channels, ReadWhole(c)
    PROVE  /\ Serving(c) /\ ~client[c].waiting /\ Served(c)
           /\ client[c].peer \in Procs /\ client[c].peer # NONE
           /\ Took(c) \in ClientRecord
           /\ Took(c).peer = client[c].peer /\ Took(c).gen = client[c].gen
           /\ Took(c).identified /\ ~Took(c).waiting /\ Took(c).received = 0
           /\ call[c].state = "none"
           /\ link[client[c].peer] = "open" =>
                 client[c].received + up[client[c].peer] = FramePieces
<1> DEFINE p == client[c].peer
<1>1. Serving(c) /\ ~client[c].waiting /\ Served(c) /\ Arrived(c) >= FramePieces
  BY DEF ReadWhole, CanRead
<1>2. client[c] \in ClientRecord /\ p \in Procs /\ p # NONE
  BY <1>1, ServingIsReadable
<1>3. /\ Took(c) \in ClientRecord
      /\ Took(c).peer = p /\ Took(c).gen = client[c].gen
      /\ Took(c).identified /\ ~Took(c).waiting /\ Took(c).received = 0
  <2>1. 0 \in 0 .. FramePieces - 1
    BY DEF FramePieces
  <2> QED BY <1>1, <1>2, <2>1 DEF ClientRecord, Took
<1>4. call[c].state = "none"
  BY <1>1 DEF IInv, HeldForConnection
<1>5. ASSUME link[p] = "open" PROVE client[c].received + up[p] = FramePieces
  <2>1. up[p] + 2 * down[p] + client[c].received = wrote[p]
    <3>1. up[p] + FramePieces * down[p] + Kept(c) = wrote[p]
      BY <1>2, <1>5 DEF IInv, Books
    <3>2. client[c].received \in 0 .. 1
      BY <1>2 DEF ClientRecord, FramePieces
    <3>3. Kept(c) = client[c].received
      BY <1>1, <3>2 DEF Kept
    <3> QED BY <3>1, <3>3 DEF FramePieces
  <2>2. /\ up[p] \in 0 .. 2 /\ down[p] \in 0 .. 1 /\ wrote[p] \in 0 .. 2
    BY <1>2 DEF IInv, TypeOK, FramePieces
  <2>3. client[c].received \in 0 .. 1
    BY <1>2 DEF ClientRecord, FramePieces
  <2>4. client[c].received + up[p] >= 2
    BY <1>1 DEF Arrived, FramePieces
  <2> QED BY <2>1, <2>2, <2>3, <2>4 DEF FramePieces
<1> QED BY <1>1, <1>2, <1>3, <1>4, <1>5
\* Starting a program turns a process that was never started into one that runs.
LEMMA StartingKeepsOthers ==
    ASSUME IInv, NEW procs \in Starting
    PROVE  /\ procs \in [Procs -> {"none", "run", "exiting", "zombie", "gone"}]
           /\ \A p \in Procs : \/ procs[p] = proc[p]
                               \/ proc[p] = "none" /\ procs[p] = "run"
<1>1. proc \in [Procs -> {"none", "run", "exiting", "zombie", "gone"}]
  BY DEF IInv, TypeOK
<1>2. CASE procs = proc
  BY <1>1, <1>2
<1>3. CASE procs # proc
  <2>1. PICK a \in Apps : proc[a] = "none" /\ procs = [proc EXCEPT ![a] = "run"]
    BY <1>3 DEF Starting
  <2> QED BY <1>1, <2>1 DEF Procs
<1> QED BY <1>2, <1>3

\* A request that is answered at once, or whose client has gone.
LEMMA DispatchAnswerKeeps ==
    ASSUME IInv, NEW c \in Channels, DispatchAnswer(c)
    PROVE  IInv'
<1> DEFINE k == Took(c)
           p == client[c].peer
<1>1. /\ Serving(c) /\ ~client[c].waiting /\ Served(c)
      /\ p \in Procs /\ p # NONE
      /\ k \in ClientRecord
      /\ k.peer = p /\ k.gen = client[c].gen
      /\ k.identified /\ ~k.waiting /\ k.received = 0
      /\ call[c].state = "none"
      /\ link[p] = "open" => client[c].received + up[p] = FramePieces
  BY WholeFrame DEF DispatchAnswer
<1>2. PICK calls \in Finishing(call), procs \in Starting :
         IF CanReply(c, k, k.gen)
         THEN /\ Reply(k.peer)
              /\ client' = [client EXCEPT ![c] = k]
              /\ up' = [up EXCEPT ![k.peer] = 0]
              /\ call' = calls
              /\ proc' = procs
              /\ UNCHANGED <<link, children>>
         ELSE Drop(c, k, calls, procs) /\ UNCHANGED down
  BY DEF DispatchAnswer
<1>3. UNCHANGED <<wrote, backlog, stop, tick, armed, nextGen>>
  BY DEF DispatchAnswer
<1> HIDE DEF k
<1>4. calls \in CallTable /\ \A d \in Channels : SameCall(call[d], calls[d])
  BY FinishingKeepsCalls DEF IInv, TypeOK, CallTable
<1>5. /\ procs \in [Procs -> {"none", "run", "exiting", "zombie", "gone"}]
      /\ \A q \in Procs : \/ procs[q] = proc[q]
                          \/ proc[q] = "none" /\ procs[q] = "run"
  BY StartingKeepsOthers
<1>6. calls[c].state = "none"
  BY <1>1, <1>4 DEF SameCall
<1>7. CASE CanReply(c, k, k.gen)
  <2>1. /\ client' = [client EXCEPT ![c] = k]
        /\ up' = [up EXCEPT ![k.peer] = 0]
        /\ down' = [down EXCEPT ![k.peer] = @ + 1]
        /\ call' = calls /\ proc' = procs
        /\ UNCHANGED <<link, wrote, backlog, signalVars, nextGen>>
    BY <1>2, <1>3, <1>7 DEF Reply, signalVars
  <2>2. link[p] = "open"
    BY <1>1, <1>7 DEF CanReply
  <2>3. k.received + FramePieces * 1 + (IF k.waiting THEN FramePieces ELSE 0)
          = client[c].received + up[k.peer]
    BY <1>1, <2>2 DEF FramePieces
  <2>4. k.waiting => k.identified /\ call'[c].gen = k.gen
    BY <1>1
  <2>5. k.waiting <=> call'[c].state # "none"
    BY <1>1, <1>6, <2>1
  <2>6. \A d \in Channels \ {c} : SameCall(call[d], call'[d])
    BY <1>4, <2>1
  <2>7. 1 > 0 => link[k.peer] = "open"
    BY <1>1, <2>2
  <2>8. Takes(c, k, 1)
    BY <1>1, <1>4, <1>5, <2>1, <2>3, <2>4, <2>5, <2>6, <2>7 DEF Takes
  <2> QED BY <2>8, TakeKeeps
<1>8. CASE ~CanReply(c, k, k.gen)
  <2>1. Drop(c, k, calls, procs) /\ UNCHANGED down
    BY <1>2, <1>8
  <2>2. Droppable(c, k, calls, procs)
    BY <1>1, <1>4, <1>5, <1>6 DEF Droppable
  <2>3. pc = "serve" /\ c \in readers /\ readers \subseteq Channels
    BY <1>1, ServingIsReadable
  <2>4. LoopTypes'
    <3>1. children' \in BOOLEAN
      BY <2>1 DEF Drop, IInv, TypeOK
    <3> QED BY <1>1, <1>3, <2>3, <3>1 DEF Served, LoopTypes, IInv, TypeOK
  <2> QED BY <1>1, <1>3, <2>1, <2>2, <2>3, <2>4, DropKeeps DEF Served
<1> QED BY <1>7, <1>8

\* A request that the AES holds.
LEMMA DispatchHoldKeeps ==
    ASSUME IInv, NEW c \in Channels, DispatchHold(c)
    PROVE  IInv'
<1> DEFINE k == [Took(c) EXCEPT !.waiting = TRUE]
           held == [call EXCEPT ![c] = [state |-> "held", gen |-> client[c].gen]]
<1>1. /\ Serving(c) /\ ~client[c].waiting /\ Served(c)
      /\ client[c].peer \in Procs
      /\ Took(c) \in ClientRecord
      /\ Took(c).peer = client[c].peer /\ Took(c).gen = client[c].gen
      /\ Took(c).identified /\ Took(c).received = 0
      /\ link[client[c].peer] = "open" =>
            client[c].received + up[client[c].peer] = FramePieces
  BY WholeFrame DEF DispatchHold
<1>2. /\ client' = [client EXCEPT ![c] = k]
      /\ up' = [up EXCEPT ![client[c].peer] = 0]
      /\ call' \in Finishing(held)
      /\ UNCHANGED <<proc, link, wrote, down, backlog, signalVars, nextGen>>
  BY DEF DispatchHold
<1>3. /\ k \in ClientRecord /\ k.peer = client[c].peer /\ k.gen = client[c].gen
      /\ k.identified /\ k.waiting /\ k.received = 0
  BY <1>1 DEF ClientRecord
<1> HIDE DEF k
<1>4. /\ held \in CallTable /\ held[c].state = "held" /\ held[c].gen = k.gen
      /\ \A d \in Channels \ {c} : held[d] = call[d]
  <2>1. client[c].gen \in 0 .. MaxGeneration
    BY <1>3 DEF ClientRecord
  <2>2. call \in CallTable
    BY DEF IInv, TypeOK, CallTable
  <2> QED BY <1>3, <2>1, <2>2 DEF CallTable
<1> HIDE DEF held
<1>5. call' \in CallTable /\ \A d \in Channels : SameCall(held[d], call'[d])
  BY <1>2, <1>4, FinishingKeepsCalls
<1>6. /\ call'[c].gen = k.gen /\ call'[c].state # "none"
      /\ \A d \in Channels \ {c} : SameCall(call[d], call'[d])
  BY <1>4, <1>5 DEF SameCall
<1>7. down' = [down EXCEPT ![k.peer] = @ + 0]
  <2>1. down \in [Procs -> 0 .. 1]
    BY DEF IInv, TypeOK
  <2>2. down[k.peer] + 0 = down[k.peer]
    BY <1>1, <1>3, <2>1
  <2> QED BY <1>1, <1>2, <1>3, <2>1, <2>2
<1>8. link[k.peer] = "open" =>
         k.received + FramePieces * 0 + (IF k.waiting THEN FramePieces ELSE 0)
             = client[c].received + up[k.peer]
  BY <1>1, <1>3 DEF FramePieces
<1>9. /\ up' = [up EXCEPT ![k.peer] = 0] /\ ~(0 > 0)
      /\ proc' \in [Procs -> {"none", "run", "exiting", "zombie", "gone"}]
      /\ \A p \in Procs : proc'[p] = proc[p]
  BY <1>2, <1>3 DEF IInv, TypeOK
<1>10. /\ client' = [client EXCEPT ![c] = k]
       /\ UNCHANGED <<link, wrote, backlog, signalVars, nextGen>>
  BY <1>2
<1>11. /\ k.waiting => k.identified /\ call'[c].gen = k.gen
       /\ k.waiting <=> call'[c].state # "none"
  BY <1>3, <1>6
<1>12. Takes(c, k, 0)
  BY <1>1, <1>3, <1>5, <1>6, <1>7, <1>8, <1>9, <1>10, <1>11 DEF Takes
<1> QED BY <1>12, TakeKeeps
\* The Desktop's connection is dropped last, or the Desktop is just killed.
LEMMA StopLastKeeps ==
    ASSUME IInv, StopLast
    PROVE  IInv'
<1>1. /\ pc = "stopping" /\ pc' = "ended" /\ armed' = FALSE
      /\ UNCHANGED <<readers, wrote, down, backlog, stop, tick, nextGen>>
  BY DEF StopLast, Go
<1>2. CASE client[DesktopChannel].peer # NONE
  <2>1. DesktopChannel \in Channels /\ DropClient(DesktopChannel)
    BY <1>2 DEF StopLast, Channels
  <2>2. LoopTypes'
    <3>1. children' \in BOOLEAN
      BY <2>1 DEF DropClient, Drop, IInv, TypeOK
    <3> QED BY <1>1, <3>1 DEF LoopTypes, IInv, TypeOK
  <2> QED BY <1>1, <1>2, <2>1, <2>2, DropClientKeeps
<1>3. CASE client[DesktopChannel].peer = NONE
  <2>1. /\ proc' = [proc EXCEPT ![Desktop] = "gone"]
        /\ children' \in BOOLEAN
        /\ UNCHANGED <<call, link, up, client>>
    BY <1>3 DEF StopLast, IInv, TypeOK
  <2>2. TypeOK'
    <3>1. proc' \in [Procs -> {"none", "run", "exiting", "zombie", "gone"}]
      BY <2>1 DEF IInv, TypeOK
    <3> QED BY <1>1, <2>1, <3>1 DEF IInv, TypeOK
  <2>3. GenerationsFit' /\ OnePlace' /\ ClosedIsEmpty'
    BY <1>1, <2>1 DEF IInv, GenerationsFit, OnePlace, ClosedIsEmpty
  <2>4. HeldForConnection' /\ Books' /\ ReadersAreReadable'
    BY <1>1, <2>1 DEF IInv, HeldForConnection, Books, Kept, ReadersAreReadable
  <2>5. \A q \in Procs : Attached(q) => Attached(q)'
    BY <2>1 DEF Attached, IInv, TypeOK
  <2>6. PlacesAreAttached'
    <3>1. /\ \A c \in Channels : client[c].peer \in Procs \cup {NONE}
          /\ \A i \in 1 .. Len(backlog) : backlog[i] \in Procs
      BY ElementOfSeq DEF IInv, TypeOK, ClientRecord
    <3> QED BY <1>1, <2>1, <2>5, <3>1 DEF IInv, PlacesAreAttached
  <2> QED BY <2>2, <2>3, <2>4, <2>6 DEF IInv
<1> QED BY <1>2, <1>3

----------------------------------------------------------------------------
(* The clients *)

\* A step of a process that leaves the server, the backlog and the pieces on
\* their way to it alone.
LEMMA OwnStepKeeps ==
    ASSUME IInv, NEW p \in Procs, ReadReply(p) \/ Disconnect(p) \/ ExitClose(p) \/ ExitDone(p)
    PROVE  IInv'
<1>1. UNCHANGED <<up, backlog, pc, readers, stop, tick, armed, client, nextGen, call>>
  BY DEF ReadReply, Disconnect, ExitClose, ExitDone, signalVars
<1>2. pc # "ended"
  BY DEF ReadReply, Disconnect, ExitClose, ExitDone, Running
<1>3. /\ proc \in [Procs -> {"none", "run", "exiting", "zombie", "gone"}]
      /\ link \in [Procs -> {"off", "open", "cut"}]
      /\ wrote \in [Procs -> 0 .. 2] /\ down \in [Procs -> 0 .. 1] /\ up \in [Procs -> 0 .. 2]
  BY DEF IInv, TypeOK, FramePieces
<1>4. /\ \A c \in Channels : client[c].peer \in Procs \cup {NONE}
      /\ \A i \in 1 .. Len(backlog) : backlog[i] \in Procs
      /\ \A c \in Channels : client[c].received \in 0 .. 1
  BY ElementOfSeq DEF IInv, TypeOK, ClientRecord, FramePieces
<1>5. GenerationsFit' /\ OnePlace' /\ ClosedIsEmpty' /\ HeldForConnection'
  BY <1>1 DEF IInv, GenerationsFit, OnePlace, ClosedIsEmpty, HeldForConnection
<1>6. SUFFICES /\ TypeOK'
               /\ \A q \in Procs : Attached(q) => Attached(q)'
               /\ \A q \in Procs : link'[q] = "off" => wrote'[q] = 0 /\ down'[q] = 0
               /\ \A q \in Procs : link'[q] = "open" => link[q] = "open" /\ proc'[q] = "run"
               /\ Books'
  <2>1. PlacesAreAttached'
    BY <1>1, <1>4, <1>6 DEF IInv, PlacesAreAttached
  <2>2. ReadersAreReadable'
    <3>1. \A c \in Channels : Readable(c) => Readable(c)'
      BY <1>1, <1>4, <1>6 DEF Readable
    <3> QED BY <1>1, <3>1 DEF IInv, TypeOK, ReadersAreReadable
  <2> QED BY <1>5, <1>6, <2>1, <2>2 DEF IInv
<1>7. \A q \in Procs : link[q] = "open" => proc[q] = "run"
  BY <1>2 DEF IInv, PlacesAreAttached
<1>8. \A q \in Procs : link[q] = "off" => wrote[q] = 0 /\ down[q] = 0
  BY DEF IInv, PlacesAreAttached
<1>9. CASE ReadReply(p)
  <2>1. /\ down' = [down EXCEPT ![p] = @ - 1] /\ down[p] = 1
        /\ wrote' = [wrote EXCEPT ![p] = 0]
        /\ UNCHANGED <<proc, link, children>>
    BY <1>3, <1>9 DEF ReadReply, signalVars
  <2>2. TypeOK'
    <3>1. wrote' \in [Procs -> 0 .. FramePieces] /\ down' \in [Procs -> 0 .. 1]
      BY <1>3, <2>1 DEF FramePieces
    <3> QED BY <1>1, <2>1, <3>1 DEF IInv, TypeOK
  <2>3. Books'
    <3> SUFFICES ASSUME NEW q \in Procs, link'[q] = "open"
                 PROVE  /\ \A c \in Channels : client'[c].peer = q =>
                              up'[q] + FramePieces * down'[q] + Kept(c)' = wrote'[q]
                        /\ (\A c \in Channels : client'[c].peer # q) =>
                              up'[q] + FramePieces * down'[q] = wrote'[q]
      BY DEF Books
    <3>1. /\ \A c \in Channels : client[c].peer = q =>
                up[q] + 2 * down[q] + Kept(c) = wrote[q] /\ Kept(c) \in Nat
          /\ (\A c \in Channels : client[c].peer # q) => up[q] + 2 * down[q] = wrote[q]
      BY <1>4, <2>1 DEF IInv, Books, Kept, FramePieces
    <3>2. CASE q = p
      <4>1. down'[q] = 0 /\ wrote'[q] = 0 /\ down[q] = 1
        BY <1>3, <2>1, <3>2
      <4>2. up[q] \in 0 .. 2 /\ wrote[q] \in 0 .. 2
        BY <1>3
      <4>3. \A c \in Channels : client[c].peer = q => up[q] = 0 /\ Kept(c) = 0
        BY <3>1, <4>1, <4>2
      <4>4. (\A c \in Channels : client[c].peer # q) => up[q] = 0
        BY <3>1, <4>1, <4>2
      <4> QED BY <1>1, <4>1, <4>3, <4>4 DEF Kept, FramePieces
    <3>3. CASE q # p
      <4>1. down'[q] = down[q] /\ wrote'[q] = wrote[q]
        BY <1>3, <2>1, <3>3
      <4> QED BY <1>1, <3>1, <4>1 DEF Kept, FramePieces
    <3> QED BY <3>2, <3>3
  <2> QED BY <1>3, <1>7, <1>8, <2>1, <2>2, <2>3 DEF Attached
<1>10. CASE Disconnect(p)
  <2>1. /\ link[p] = "cut" /\ link' = [link EXCEPT ![p] = "off"]
        /\ wrote' = [wrote EXCEPT ![p] = 0] /\ down' = [down EXCEPT ![p] = 0]
        /\ UNCHANGED <<proc, children>>
    BY <1>10 DEF Disconnect, signalVars
  <2>2. TypeOK'
    <3>1. /\ wrote' \in [Procs -> 0 .. FramePieces] /\ down' \in [Procs -> 0 .. 1]
          /\ link' \in [Procs -> {"off", "open", "cut"}]
      BY <1>3, <2>1 DEF FramePieces
    <3> QED BY <1>1, <2>1, <3>1 DEF IInv, TypeOK
  <2>3. Books'
    BY <1>1, <1>3, <2>1 DEF IInv, Books, Kept
  <2> QED BY <1>3, <1>7, <1>8, <2>1, <2>2, <2>3 DEF Attached
<1>11. CASE ExitClose(p)
  <2>1. /\ proc[p] = "run" /\ proc' = [proc EXCEPT ![p] = "exiting"]
        /\ link' = [link EXCEPT ![p] = "off"]
        /\ wrote' = [wrote EXCEPT ![p] = 0] /\ down' = [down EXCEPT ![p] = 0]
        /\ UNCHANGED children
    BY <1>11 DEF ExitClose, signalVars
  <2>2. TypeOK'
    <3>1. /\ wrote' \in [Procs -> 0 .. FramePieces] /\ down' \in [Procs -> 0 .. 1]
          /\ link' \in [Procs -> {"off", "open", "cut"}]
          /\ proc' \in [Procs -> {"none", "run", "exiting", "zombie", "gone"}]
      BY <1>3, <2>1 DEF FramePieces
    <3> QED BY <1>1, <2>1, <3>1 DEF IInv, TypeOK
  <2>3. Books'
    BY <1>1, <1>3, <2>1 DEF IInv, Books, Kept
  <2> QED BY <1>3, <1>7, <1>8, <2>1, <2>2, <2>3 DEF Attached
<1>12. CASE ExitDone(p)
  <2>1. /\ proc[p] = "exiting" /\ proc' = [proc EXCEPT ![p] = "zombie"]
        /\ children' = TRUE /\ UNCHANGED <<link, wrote, down>>
    BY <1>12 DEF ExitDone
  <2>2. TypeOK'
    <3>1. proc' \in [Procs -> {"none", "run", "exiting", "zombie", "gone"}]
      BY <1>3, <2>1
    <3> QED BY <1>1, <2>1, <3>1 DEF IInv, TypeOK
  <2>3. Books'
    BY <1>1, <2>1 DEF IInv, Books, Kept
  <2> QED BY <1>3, <1>7, <1>8, <2>1, <2>2, <2>3 DEF Attached
<1> QED BY <1>9, <1>10, <1>11, <1>12
\* A new connection goes to the end of the backlog.
LEMMA ConnectKeeps ==
    ASSUME IInv, NEW p \in Procs, Connect(p)
    PROVE  IInv'
<1>1. /\ proc[p] = "run" /\ link[p] = "off" /\ pc # "ended"
      /\ nextGen + Len(backlog) <= MaxGeneration
      /\ link' = [link EXCEPT ![p] = "open"]
      /\ backlog' = Append(backlog, p)
      /\ UNCHANGED <<proc, wrote, up, down, pc, readers, signalVars, client, nextGen, call>>
  BY DEF Connect, Running
<1>2. /\ proc \in [Procs -> {"none", "run", "exiting", "zombie", "gone"}]
      /\ link \in [Procs -> {"off", "open", "cut"}]
      /\ up \in [Procs -> 0 .. 2]
      /\ backlog \in Seq(Procs) /\ Len(backlog) \in Nat
      /\ \A c \in Channels : client[c].peer \in Procs \cup {NONE}
      /\ \A i \in 1 .. Len(backlog) : backlog[i] \in Procs
  BY ElementOfSeq, LenProperties DEF IInv, TypeOK, ClientRecord, FramePieces
<1>3. ~Attached(p) /\ up[p] = 0 /\ wrote[p] = 0 /\ down[p] = 0
  BY <1>1, <1>2 DEF IInv, PlacesAreAttached, Attached
<1>4. /\ \A c \in Channels : client[c].peer # p
      /\ \A i \in 1 .. Len(backlog) : backlog[i] # p
  BY <1>3, ServerAssumption DEF IInv, PlacesAreAttached, Attached
<1>5. /\ backlog' \in Seq(Procs) /\ Len(backlog') = Len(backlog) + 1 /\ backlog' # <<>>
      /\ \A i \in 1 .. Len(backlog) : backlog'[i] = backlog[i]
      /\ backlog'[Len(backlog) + 1] = p
  BY <1>1, <1>2, AppendProperties
<1>6. \A i \in 1 .. Len(backlog') :
         (i \in 1 .. Len(backlog) /\ backlog'[i] = backlog[i]) \/ i = Len(backlog')
  BY <1>2, <1>5
<1>7. link'[p] = "open" /\ \A q \in Procs \ {p} : link'[q] = link[q]
  BY <1>1, <1>2
<1>8. TypeOK'
  <2>1. link' \in [Procs -> {"off", "open", "cut"}]
    BY <1>1, <1>2
  <2> QED BY <1>1, <1>5, <2>1 DEF IInv, TypeOK, signalVars
<1>9. GenerationsFit'
  <2>1. nextGen' + Len(backlog') <= MaxGeneration + 1
    BY <1>1, <1>2, <1>5, ServerAssumption DEF IInv, TypeOK
  <2> QED BY <1>5, <2>1 DEF GenerationsFit
<1>10. OnePlace'
  <2>1. \A c \in Channels : \A i \in 1 .. Len(backlog') : client'[c].peer # backlog'[i]
    BY <1>1, <1>4, <1>5, <1>6 DEF IInv, OnePlace
  <2>2. \A i, j \in 1 .. Len(backlog') : backlog'[i] = backlog'[j] => i = j
    BY <1>4, <1>5, <1>6 DEF IInv, OnePlace
  <2> QED BY <1>1, <2>1, <2>2 DEF IInv, OnePlace
<1>11. ClosedIsEmpty' /\ HeldForConnection'
  BY <1>1 DEF IInv, ClosedIsEmpty, HeldForConnection
<1>12. \A q \in Procs : Attached(q) => Attached(q)'
  BY <1>1, <1>7 DEF Attached
<1>13. PlacesAreAttached'
  <2>1. \A i \in 1 .. Len(backlog') : Attached(backlog[i])'
    BY <1>1, <1>2, <1>5, <1>6, <1>7 DEF IInv, PlacesAreAttached, Attached
  <2>2. \A c \in Channels : client'[c].peer # NONE => Attached(client[c].peer)'
    BY <1>1, <1>2, <1>12 DEF IInv, PlacesAreAttached
  <2>3. \A q \in Procs : up'[q] # 0 => Attached(q)'
    BY <1>1, <1>12 DEF IInv, PlacesAreAttached
  <2> QED BY <1>1, <1>7, <2>1, <2>2, <2>3 DEF IInv, PlacesAreAttached
<1>14. Books'
  <2>1. ASSUME NEW q \in Procs, q # p PROVE link'[q] = link[q]
    BY <1>7, <2>1
  <2> QED BY <1>1, <1>3, <1>4, <2>1 DEF IInv, Books, Kept, FramePieces
<1>15. ReadersAreReadable'
  <2>1. \A c \in Channels : Readable(c) => Readable(c)'
    BY <1>1, <1>2, <1>4, <1>7 DEF Readable
  <2> QED BY <1>1, <2>1 DEF IInv, TypeOK, ReadersAreReadable
<1> QED BY <1>8, <1>9, <1>10, <1>11, <1>13, <1>14, <1>15 DEF IInv

\* Some more pieces of the request of p are on their way.
LEMMA WriteKeeps ==
    ASSUME IInv, NEW p \in Procs, Write(p)
    PROVE  IInv'
<1>1. PICK n \in 1 .. FramePieces - wrote[p] :
         /\ wrote' = [wrote EXCEPT ![p] = @ + n]
         /\ up' = [up EXCEPT ![p] = @ + n]
  BY DEF Write
<1>2. /\ link[p] = "open"
      /\ UNCHANGED <<proc, link, down, backlog, pc, readers, signalVars, client, nextGen, call>>
  BY DEF Write
<1>3. /\ up \in [Procs -> 0 .. 2] /\ wrote \in [Procs -> 0 .. 2] /\ down \in [Procs -> 0 .. 1]
      /\ \A c \in Channels : client[c].received \in 0 .. 1
      /\ \A c \in Channels : client[c].peer \in Procs \cup {NONE}
      /\ \A i \in 1 .. Len(backlog) : backlog[i] \in Procs
  BY ElementOfSeq DEF IInv, TypeOK, ClientRecord, FramePieces
<1>4. up[p] <= wrote[p]
  <2>1. \A c \in Channels : Kept(c) \in Nat
    BY <1>3 DEF Kept, FramePieces
  <2>2. \/ up[p] + 2 * down[p] = wrote[p]
        \/ \E c \in Channels : up[p] + 2 * down[p] + Kept(c) = wrote[p]
    BY <1>2 DEF IInv, Books, FramePieces
  <2> QED BY <1>3, <2>1, <2>2
<1>5. /\ up'[p] = up[p] + n /\ wrote'[p] = wrote[p] + n
      /\ up'[p] \in 0 .. 2 /\ wrote'[p] \in 0 .. 2
      /\ \A q \in Procs \ {p} : up'[q] = up[q] /\ wrote'[q] = wrote[q]
  BY <1>1, <1>3, <1>4 DEF FramePieces
<1>6. TypeOK'
  <2>1. up' \in [Procs -> 0 .. FramePieces] /\ wrote' \in [Procs -> 0 .. FramePieces]
    BY <1>1, <1>3, <1>5 DEF FramePieces
  <2> QED BY <1>2, <2>1 DEF IInv, TypeOK, signalVars
<1>7. GenerationsFit' /\ OnePlace' /\ ClosedIsEmpty' /\ HeldForConnection'
  BY <1>2 DEF IInv, GenerationsFit, OnePlace, ClosedIsEmpty, HeldForConnection
<1>8. PlacesAreAttached'
  BY <1>2, <1>5 DEF IInv, PlacesAreAttached, Attached
<1>9. Books'
  <2> SUFFICES ASSUME NEW q \in Procs, link'[q] = "open"
               PROVE  /\ \A c \in Channels : client'[c].peer = q =>
                            up'[q] + FramePieces * down'[q] + Kept(c)' = wrote'[q]
                      /\ (\A c \in Channels : client'[c].peer # q) =>
                            up'[q] + FramePieces * down'[q] = wrote'[q]
    BY DEF Books
  <2>1. /\ \A c \in Channels : Kept(c) \in Nat
        /\ \A c \in Channels : client[c].peer = q => up[q] + 2 * down[q] + Kept(c) = wrote[q]
        /\ (\A c \in Channels : client[c].peer # q) => up[q] + 2 * down[q] = wrote[q]
    BY <1>2, <1>3 DEF IInv, Books, Kept, FramePieces
  <2>2. CASE q = p
    <3>1. up'[q] = up[q] + n /\ wrote'[q] = wrote[q] + n /\ n \in Nat
      BY <1>3, <1>5, <2>2 DEF FramePieces
    <3>2. up[q] \in Nat /\ down[q] \in Nat /\ wrote[q] \in Nat
      BY <1>3
    <3>3. \A c \in Channels : client[c].peer = q =>
             (up[q] + n) + 2 * down[q] + Kept(c) = wrote[q] + n
      BY <2>1, <3>1, <3>2
    <3>4. (\A c \in Channels : client[c].peer # q) => (up[q] + n) + 2 * down[q] = wrote[q] + n
      BY <2>1, <3>1, <3>2
    <3> QED BY <1>2, <3>1, <3>3, <3>4 DEF Kept, FramePieces
  <2>3. CASE q # p
    BY <1>2, <1>5, <2>1, <2>3 DEF Kept, FramePieces
  <2> QED BY <2>2, <2>3
<1>10. ReadersAreReadable'
  <2>1. \A c \in Channels : Readable(c) => Readable(c)'
    BY <1>2, <1>3, <1>5 DEF Readable
  <2> QED BY <1>2, <2>1 DEF IInv, TypeOK, ReadersAreReadable
<1> QED BY <1>6, <1>7, <1>8, <1>9, <1>10 DEF IInv

----------------------------------------------------------------------------
(* The theorems *)

\* The server comes to its loop with no client but the running Desktop.
LEMMA InitIInv == Init => IInv
<1> SUFFICES ASSUME Init PROVE IInv
  OBVIOUS
<1>1. TypeOK
  <2>1. Closed \in ClientRecord
    <3>1. 0 \in 0 .. FramePieces - 1 /\ 0 \in 0 .. MaxGeneration
      BY ServerAssumption DEF FramePieces
    <3> QED BY <3>1 DEF Closed, ClientRecord
  <2>2. /\ 1 \in 1 .. MaxGeneration + 1 /\ 0 \in 0 .. MaxGeneration
        /\ 0 \in 0 .. FramePieces /\ 0 \in 0 .. 1
    BY ServerAssumption DEF FramePieces
  <2>3. backlog \in Seq(Procs)
    BY EmptySeq DEF Init
  <2> QED BY <2>1, <2>2, <2>3 DEF Init, TypeOK, NoCall
<1>2. backlog = <<>> /\ Len(backlog) = 0
  BY EmptySeq DEF Init
<1>3. GenerationsFit /\ OnePlace /\ ClosedIsEmpty /\ HeldForConnection /\ ReadersAreReadable
  BY <1>2, ServerAssumption
     DEF Init, GenerationsFit, OnePlace, ClosedIsEmpty, HeldForConnection,
         ReadersAreReadable, Closed, NoCall
<1>4. PlacesAreAttached /\ Books
  BY <1>2 DEF Init, PlacesAreAttached, Attached, Books, Closed
<1> QED BY <1>1, <1>3, <1>4 DEF IInv

\* The invariant is about the variables of the specification only.
LEMMA StutterKeeps ==
    ASSUME IInv, UNCHANGED vars
    PROVE  IInv'
<1> USE DEF vars, clientVars, signalVars
<1>1. TypeOK' /\ GenerationsFit' /\ OnePlace' /\ ClosedIsEmpty'
  BY DEF IInv, TypeOK, GenerationsFit, OnePlace, ClosedIsEmpty
<1>2. PlacesAreAttached' /\ HeldForConnection'
  BY DEF IInv, PlacesAreAttached, Attached, HeldForConnection
<1>3. Books' /\ ReadersAreReadable'
  BY DEF IInv, Books, Kept, ReadersAreReadable, Readable
<1> QED BY <1>1, <1>2, <1>3 DEF IInv

\* Every step keeps the invariant.
LEMMA NextKeeps ==
    ASSUME IInv, [Next]_vars
    PROVE  IInv'
<1>1. CASE \E c \in Channels : ReadClient(c)
  BY <1>1, ReadDropsKeep, ReadPartKeeps, DispatchAnswerKeeps, DispatchHoldKeeps DEF ReadClient
<1>2. CASE ServerStep /\ ~\E c \in Channels : ReadClient(c)
  BY <1>2, QuietLoopKeeps, ReplyReadyKeeps, ReapOneKeeps, SelectKeeps, AcceptKeeps,
     StopOneKeeps, StopLastKeeps DEF ServerStep
<1>3. CASE \E p \in Procs : ClientStep(p)
  BY <1>3, ConnectKeeps, WriteKeeps, OwnStepKeeps DEF ClientStep
<1>4. CASE Alarm \/ Terminate
  BY <1>4, QuietLoopKeeps
<1>5. CASE UNCHANGED vars
  BY <1>5, StutterKeeps
<1> QED BY <1>1, <1>2, <1>3, <1>4, <1>5 DEF Next, ServerStep
\* RequestSafety counts the pieces of a request by the least channel of a
\* process, which is its only one.
LEMMA IInvIsSafe == IInv => RequestSafety
<1> SUFFICES ASSUME IInv PROVE RequestsAreAccountedFor
  BY DEF IInv, RequestSafety
<1> SUFFICES ASSUME NEW p \in Procs, link[p] = "open"
             PROVE  Accounted(p) = wrote[p]
  BY DEF RequestsAreAccountedFor
<1> DEFINE mine == {c \in Channels : client[c].peer = p}
<1>1. up[p] \in Nat /\ down[p] \in Nat
  BY DEF IInv, TypeOK, FramePieces
<1>2. CASE mine = {}
  <2>1. up[p] + FramePieces * down[p] = wrote[p]
    BY <1>2 DEF IInv, Books
  <2>2. Accounted(p) = up[p] + FramePieces * down[p] + 0
    BY <1>2 DEF Accounted
  <2> QED BY <1>1, <2>1, <2>2 DEF FramePieces
<1>3. CASE mine # {}
  <2>1. PICK c \in Channels : c = Least(mine) /\ client[c].peer = p
    BY <1>3, LeastChannel
  <2>2. up[p] + FramePieces * down[p] + Kept(c) = wrote[p]
    BY <2>1 DEF IInv, Books
  <2>3. client[c].waiting <=> client[c].waiting /\ call[c].state # "none"
    BY DEF IInv, HeldForConnection
  <2>4. Accounted(p) = up[p] + FramePieces * down[p]
                       + (client[c].received
                          + (IF client[c].waiting /\ call[c].state # "none"
                             THEN FramePieces ELSE 0))
    BY <1>3, <2>1 DEF Accounted
  <2> QED BY <2>2, <2>3, <2>4 DEF Kept
<1> QED BY <1>2, <1>3

\* The invariant holds whenever the server has come to its loop.
THEOREM Invariance == Spec => []IInv
<1>1. Init => IInv
  BY InitIInv
<1>2. IInv /\ [Next]_vars => IInv'
  BY NextKeeps
<1> QED BY <1>1, <1>2, PTL DEF Spec

\* No request is lost, answered twice or mixed with those of an earlier
\* connection, and no call is held for a connection that is gone, in whatever
\* order clients write, die and connect and the server polls, serves and reaps.
THEOREM RequestsAreSafe == Spec => []RequestSafety
BY Invariance, IInvIsSafe, PTL

\* The server keeps its clock: the timer is armed or its tick is pending.
THEOREM TickIsKept == Spec => []TickIsNeverLost
<1>1. Init => TickIsNeverLost
  BY DEF Init, TickIsNeverLost
<1>2. ASSUME TypeOK, TickIsNeverLost, [Next]_vars PROVE TickIsNeverLost'
  <2>1. CASE UNCHANGED <<pc, tick, armed>>
    BY <1>2, <2>1 DEF TickIsNeverLost
  <2>2. CASE LoopTop
    BY <1>2, <2>2 DEF LoopTop, Go, TickIsNeverLost, TypeOK
  <2>3. CASE Rearm
    BY <2>3 DEF Rearm, TickIsNeverLost
  <2>4. CASE StopLast
    BY <2>4 DEF StopLast, Go, TickIsNeverLost
  <2>5. CASE Alarm
    BY <2>5 DEF Alarm, TickIsNeverLost
  <2>6. CASE pc \notin {"rearm", "stopping", "ended"} /\ UNCHANGED <<tick, armed>>
    BY <1>2, <2>6 DEF TickIsNeverLost
  <2>7. \/ UNCHANGED <<pc, tick, armed>>
        \/ LoopTop \/ Rearm \/ StopLast \/ Alarm
        \/ pc \notin {"rearm", "stopping", "ended"} /\ UNCHANGED <<tick, armed>>
    <3> USE DEF signalVars, clientVars, Go
    <3>1. CASE \E c \in Channels : ReadClient(c)
      <4>1. PICK c \in Channels : ReadClient(c)
        BY <3>1
      <4>2. Serving(c) /\ UNCHANGED <<tick, armed>>
        BY <4>1 DEF ReadClient, ReadEnd, ReadPart, ReadRefused, DispatchAnswer, DispatchHold,
                    ReadWhole, CanRead
      <4> QED BY <4>2 DEF Serving
    <3>2. CASE ServerStep /\ ~\E c \in Channels : ReadClient(c)
      BY <3>2 DEF ServerStep, ReplyReady, RepliesDone, ReapBegin, ReapOne, ReapNone, ReapEnd,
                  Select, Accept, StopOne
    <3>3. CASE \E p \in Procs : ClientStep(p)
      BY <3>3 DEF ClientStep, Connect, Write, ReadReply, Disconnect, ExitClose, ExitDone
    <3>4. CASE Alarm \/ Terminate
      BY <3>4 DEF Terminate
    <3>5. CASE UNCHANGED vars
      BY <3>5 DEF vars
    <3> QED BY <1>2, <3>1, <3>2, <3>3, <3>4, <3>5 DEF Next
  <2> QED BY <2>1, <2>2, <2>3, <2>4, <2>5, <2>6, <2>7
<1>3. IInv => TypeOK
  BY DEF IInv
<1> QED BY <1>1, <1>2, <1>3, Invariance, PTL DEF Spec

\* Who may lose its connection in a step of a running server.
LEMMA DropsAreDue ==
    ASSUME IInv, [Next]_vars, NEW c \in Channels,
           client[c].peer # NONE, client'[c].peer = NONE, pc # "stopping"
    PROVE  \/ link[client[c].peer] # "open"
           \/ c = DesktopChannel /\ client[c].peer # Desktop
<1> DEFINE p == client[c].peer
<1>0. p \in Procs /\ client \in [Channels -> ClientRecord]
  BY DEF IInv, TypeOK, ClientRecord
<1>1. CASE UNCHANGED client
  BY <1>1
<1>2. CASE ReplyReady
  <2>1. PICK d \in Channels :
           /\ call[d].state = "ready"
           /\ \/ client[d].peer = NONE /\ UNCHANGED client
              \/ client' = [client EXCEPT ![d] = Answered(client[d])]
              \/ ~CanReply(d, client[d], call[d].gen) /\ client' = [client EXCEPT ![d] = Closed]
    BY <1>2 DEF ReplyReady, Drop
  <2>2. client[d].identified /\ client[d].gen = call[d].gen
    BY <2>1 DEF IInv, HeldForConnection
  <2>3. c = d
    BY <1>0, <2>1
  <2>4. Answered(client[d]).peer = client[d].peer
    BY <1>0 DEF Answered, ClientRecord
  <2>5. ~CanReply(d, client[d], call[d].gen)
    BY <1>0, <2>1, <2>3, <2>4
  <2> QED BY <2>2, <2>3, <2>5 DEF CanReply
<1>3. CASE ReapOne
  <2>1. PICK q \in Procs :
           /\ proc[q] = "zombie"
           /\ LET mine == {d \in Channels : client[d].identified /\ client[d].peer = q}
              IN  \/ UNCHANGED client
                  \/ mine # {} /\ client' = [client EXCEPT ![Least(mine)] = Closed]
    BY <1>3 DEF ReapOne, Drop
  <2>2. p = q
    <3> DEFINE mine == {d \in Channels : client[d].identified /\ client[d].peer = q}
    <3>1. mine # {} /\ client' = [client EXCEPT ![Least(mine)] = Closed]
      BY <2>1
    <3>2. Least(mine) \in mine
      BY <3>1, LeastChannel
    <3>3. c = Least(mine)
      BY <1>0, <3>1
    <3> QED BY <3>2, <3>3
  <2> QED BY <1>3, <2>1, <2>2 DEF ReapOne, IInv, PlacesAreAttached
<1>4. CASE Accept
  <2>1. \/ UNCHANGED client
        \/ LET free == {d \in Channels : client[d].peer = NONE}
           IN  /\ free # {}
               /\ client' = [client EXCEPT ![Least(free)] =
                                [Closed EXCEPT !.peer = Head(backlog), !.gen = nextGen]]
    BY <1>4 DEF Accept
  <2> DEFINE free == {d \in Channels : client[d].peer = NONE}
  <2>2. CASE free # {} /\ c # Least(free)
    BY <1>0, <2>1, <2>2
  <2>3. free # {} => Least(free) \in free
    BY LeastChannel
  <2> QED BY <2>1, <2>2, <2>3
<1>5. CASE \E d \in Channels : ReadClient(d)
  <2>1. PICK d \in Channels : ReadClient(d)
    BY <1>5
  <2>2. Serving(d)
    BY <2>1 DEF ReadClient, ReadEnd, ReadPart, ReadRefused, DispatchAnswer, DispatchHold,
                ReadWhole, CanRead
  <2>3. Readable(d) /\ client[d] \in ClientRecord /\ client[d].peer \in Procs
    BY <2>2, ServingIsReadable
  <2>4. c = d
    BY <1>0, <2>1 DEF ReadClient, ReadEnd, ReadPart, ReadRefused, DispatchAnswer,
                      DispatchHold, DropClient, Drop
  <2>5. CASE ReadEnd(d)
    <3>1. SUFFICES ASSUME link[p] = "open" PROVE FALSE
      OBVIOUS
    <3>2. up[p] > 0
      BY <2>3, <2>4, <3>1 DEF Readable
    <3>3. client[c].waiting
      BY <2>4, <2>5, <3>2 DEF ReadEnd
    <3>4. up[p] + 2 * down[p] + Kept(c) = wrote[p]
      BY <1>0, <3>1 DEF IInv, Books, FramePieces
    <3>5. Kept(c) = client[c].received + 2 /\ client[c].received \in 0 .. 1
      BY <1>0, <3>3 DEF Kept, FramePieces, ClientRecord
    <3>6. down[p] \in 0 .. 1 /\ wrote[p] \in 0 .. 2 /\ up[p] \in 0 .. 2
      BY <1>0 DEF IInv, TypeOK, FramePieces
    <3> QED BY <3>2, <3>4, <3>5, <3>6
  <2>6. CASE ReadPart(d)
    BY <1>0, <2>3, <2>4, <2>6 DEF ReadPart, ClientRecord
  <2>7. CASE ReadRefused(d)
    BY <2>4, <2>7 DEF ReadRefused, Refused
  <2>8. CASE DispatchAnswer(d)
    <3>1. Took(d) \in ClientRecord /\ Took(d).peer = p /\ Took(d).identified
      BY <2>4, <2>8, WholeFrame DEF DispatchAnswer
    <3>2. CASE CanReply(d, Took(d), Took(d).gen)
      <4>1. client' = [client EXCEPT ![d] = Took(d)]
        BY <2>8, <3>2 DEF DispatchAnswer
      <4> QED BY <1>0, <2>4, <3>1, <4>1
    <3> QED BY <3>1, <3>2 DEF CanReply
  <2>9. CASE DispatchHold(d)
    <3>1. Took(d) \in ClientRecord /\ Took(d).peer = p
      BY <2>4, <2>9, WholeFrame DEF DispatchHold
    <3>2. client' = [client EXCEPT ![d] = [Took(d) EXCEPT !.waiting = TRUE]]
      BY <2>9 DEF DispatchHold
    <3> QED BY <1>0, <2>4, <3>1, <3>2 DEF ClientRecord
  <2> QED BY <2>1, <2>5, <2>6, <2>7, <2>8, <2>9 DEF ReadClient
<1>6. \/ UNCHANGED client \/ ReplyReady \/ ReapOne \/ Accept
      \/ \E d \in Channels : ReadClient(d)
  <2> USE DEF signalVars, clientVars
  <2>1. CASE ServerStep
    BY <2>1 DEF ServerStep, LoopTop, Rearm, RepliesDone, ReapBegin, ReapNone, ReapEnd,
                Select, StopOne, StopLast
  <2>2. CASE \E q \in Procs : ClientStep(q)
    BY <2>2 DEF ClientStep, Connect, Write, ReadReply, Disconnect, ExitClose, ExitDone
  <2>3. CASE Alarm \/ Terminate
    BY <2>3 DEF Alarm, Terminate
  <2>4. CASE UNCHANGED vars
    BY <2>4 DEF vars
  <2> QED BY <2>1, <2>2, <2>3, <2>4 DEF Next
<1> QED BY <1>1, <1>2, <1>3, <1>4, <1>5, <1>6

\* A running server drops nobody who keeps to the protocol, except an
\* application on the Desktop's channel.
THEOREM NobodyIsDroppedUnduly == Spec => ProtocolIsRespected
<1>1. IInv /\ [Next]_vars =>
         [\A c \in Channels :
             LET p == client[c].peer
             IN  (p # NONE /\ client'[c].peer = NONE /\ pc # "stopping") =>
                     \/ link[p] # "open"
                     \/ c = DesktopChannel /\ p # Desktop]_vars
  BY DropsAreDue
<1> QED BY <1>1, Invariance, PTL DEF Spec, ProtocolIsRespected
=============================================================================
