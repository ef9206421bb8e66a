---------------------------- MODULE RedisStream ----------------------------
(***************************************************************************)
(* The epoch's Redis: the closed-bar stream, the publication ledger that   *)
(* makes acceptance idempotent, and the one consumer group "bars" with its *)
(* pending entries list (PEL).                                             *)
(*                                                                         *)
(* A stream entry is identified by its position: XADD hands out increasing *)
(* ids and the epoch never trims or deletes.  A bar stands for its message *)
(* id, its payload and its digest, which are functions of it.  Redis runs  *)
(* with appendfsync always, so no variable here is lost when the worker    *)
(* dies.  The commands are modelled as action operators the other modules  *)
(* conjoin; PUBLICATION_LUA is the repository's own, the rest is Redis.    *)
(***************************************************************************)
EXTENDS EpochSymbols, Sequences

CONSTANTS MaxMinute,   \* bound: minutes of market time after the seed
          Instances,   \* consumer names, "<service>-<hostname>-<pid>"
          ReadCount    \* COUNT of one XREADGROUP

ASSUME RedisAssumption == /\ MaxMinute \in Nat \ {0}
                          /\ ReadCount \in Nat \ {0}

Bars == Symbols \X (1..MaxMinute)

VARIABLES stream,         \* the bars in the order Redis accepted them
          ledger,         \* bar -> id of its accepted entry, 0 if none
          lastDelivered,  \* the group's last-delivered-id
          pel             \* pending entries: <<id, consumer name>>

redisVars == <<stream, ledger, lastDelivered, pel>>

RedisTypeOK == /\ stream \in Seq(Bars)
               /\ ledger \in [Bars -> Nat]
               /\ lastDelivered \in 0..Len(stream)
               /\ pel \subseteq (1..lastDelivered) \X Instances

RedisInit == /\ stream = <<>>
             /\ ledger = [b \in Bars |-> 0]
             /\ lastDelivered = 0
             /\ pel = {}

(***************************************************************************)
(* What the group owes to one consumer, and to anyone.                     *)
(***************************************************************************)
Pending(i) == \E c \in Instances : <<i, c>> \in pel

OwnPending(c) == {i \in 1..lastDelivered : <<i, c>> \in pel}

\* The first ReadCount entries of a set of ids, as COUNT limits a read.
FirstRows(ids) == {i \in ids : Cardinality({j \in ids : j < i}) < ReadCount}

(***************************************************************************)
(* The publication script.  A receipt whose entry is missing or differs is *)
(* refused; a receipt that matches is returned again; otherwise XADD and   *)
(* HSET happen in the same script.                                         *)
(***************************************************************************)
LuaRefuses(b) == /\ ledger[b] # 0
                 /\ \/ ledger[b] \notin 1..Len(stream)
                    \/ stream[ledger[b]] # b

PublicationLuaNoCheck(b) ==
  /\ stream' = Append(stream, b)
  /\ ledger' = [ledger EXCEPT ![b] = Len(stream) + 1]
  /\ UNCHANGED <<lastDelivered, pel>>
PublicationLua(b) ==
  IF ledger[b] # 0
  THEN UNCHANGED redisVars
  ELSE /\ stream' = Append(stream, b)
       /\ ledger' = [ledger EXCEPT ![b] = Len(stream) + 1]
       /\ UNCHANGED <<lastDelivered, pel>>

\* A bare XADD: only the qualification's duplicate proof does this.
XADD(b) == /\ stream' = Append(stream, b)
           /\ UNCHANGED <<ledger, lastDelivered, pel>>

\* XREADGROUP ... ">": the next entries become pending for c.
NewCursorUnclamped == lastDelivered + ReadCount
NewCursor == IF lastDelivered + ReadCount < Len(stream)
             THEN lastDelivered + ReadCount ELSE Len(stream)

NewRows == (lastDelivered + 1)..NewCursor

XREADGROUP(c) == /\ lastDelivered' = NewCursor
                 /\ pel' = pel \union (NewRows \X {c})
                 /\ UNCHANGED <<stream, ledger>>

\* XAUTOCLAIM: the entries ids (idle long enough) change their owner to c.
XAUTOCLAIM(ids, c) ==
  /\ pel' = {e \in pel : e[1] \notin ids} \union (ids \X {c})
  /\ UNCHANGED <<stream, ledger, lastDelivered>>

XACK(i) == /\ pel' = {e \in pel : e[1] # i}
           /\ UNCHANGED <<stream, ledger, lastDelivered>>
=============================================================================
