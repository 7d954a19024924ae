----------------------------- MODULE SecretChain -----------------------------
(***************************************************************************)
(* The chain of secret backends and the benchmark key that lives in it     *)
(* (crates/core/src/secret_store.rs, crates/benchmark/src/crypto.rs).      *)
(*                                                                         *)
(* Every process builds its own chain: the OS keyring, the age-encrypted   *)
(* files, and a memory leg that is new in each call, holds nothing and     *)
(* accepts everything.  Nothing locks a backend: a file is read, changed   *)
(* and written back by each process for itself, through a cache that       *)
(* trusts the file's modification time.                                    *)
(*                                                                         *)
(* Two entries are enough: the key that seals a project's contributions,   *)
(* which a process creates, loads or destroys, and a provider's API key,   *)
(* which others set and remove.                                            *)
(***************************************************************************)
EXTENDS Integers, Sequences

CONSTANTS
  Legs,        \* the durable legs, in the order of the chain
  FileLegs,    \* those that are age files
  Clients,     \* processes that use the chain
  MaxKeys,     \* bound: keys minted
  MaxCalls     \* bound: calls of all processes

LegNames == {Legs[i] : i \in 1 .. Len(Legs)}

ASSUME SecretConstants ==
  /\ Legs \in Seq(LegNames)
  /\ FileLegs \subseteq LegNames
  /\ MaxKeys \in Nat /\ MaxCalls \in Nat

VARIABLES
  leg,        \* leg[l][n]: the value stored under a name, 0 if there is none
  mtime,      \* mtime[l]: modification time of a file
  cache,      \* cache[c][l]: the map a process last wrote, and the time it saw after it
  proc,       \* proc[c]: what a process is doing
  calls,      \* number of calls begun
  minted,     \* number of keys minted
  \* history
  sealedBy,   \* keys that have sealed a contribution
  destroyed,  \* keys a destroy has removed from some leg
  shredded,   \* keys that were stored when a destroy began that has reported success
  causes      \* what has gone wrong so far

secretVars == <<leg, mtime, cache, proc, calls, minted, sealedBy, destroyed, shredded, causes>>

SecretNames == {"kek", "provider"}
NoEntries == [n \in SecretNames |-> 0]

\* load, load_or_create, destroy; set and remove of a provider key.
Calls == {"create", "load", "destroy", "login", "revoke"}
FirstStep == [create |-> "get", load |-> "get", login |-> "set", destroy |-> "remove", revoke |-> "remove"]

\* A process: its call and step, the leg it has come to, the key it has loaded or
\* minted, the map it is about to write to a file and the file's time when it read
\* it, and the keys that were stored when its call began.
Resting == [call |-> "load", step |-> "idle", at |-> 1, key |-> 0,
            buffer |-> NoEntries, readAt |-> 0, aim |-> {}]

SecretInit ==
  /\ leg = [l \in LegNames |-> NoEntries]
  /\ mtime = [l \in LegNames |-> 0]
  /\ cache = [c \in Clients |-> [l \in FileLegs |-> [time |-> 0, map |-> NoEntries]]]
  /\ proc = [c \in Clients |-> Resting]
  /\ calls = 0 /\ minted = 0
  /\ sealedBy = {} /\ destroyed = {} /\ shredded = {} /\ causes = {}

Stored == {leg[l]["kek"] : l \in LegNames} \ {0}
At(c, s) == proc[c].step = s
OnLeg(c) == proc[c].at <= Len(Legs)
Leg(c) == Legs[proc[c].at]
OnFile(c) == OnLeg(c) /\ Leg(c) \in FileLegs
EntryOf(c) == IF proc[c].call \in {"login", "revoke"} THEN "provider" ELSE "kek"
ValueOf(c) == IF proc[c].call = "login" THEN 1 ELSE proc[c].key
Destroying(c) == proc[c].call = "destroy"

\* decrypt_map: the cached map while the file still has the time noted with it.
View(c, l) == IF l \in FileLegs /\ cache[c][l].time = mtime[l] THEN cache[c][l].map ELSE leg[l]

Go(c, s) == proc' = [proc EXCEPT ![c].step = s]
NextLeg(c) == proc' = [proc EXCEPT ![c].at = @ + 1]
Return(c) == proc' = [proc EXCEPT ![c] = Resting]
\* After a successful set the creator of a key holds it.
Accepted(c) == IF proc[c].call = "create" THEN Go(c, "keyed") ELSE Return(c)
Blame(cause, holds) == causes' = IF holds THEN causes \cup {cause} ELSE causes

BeginCall(c, what) ==
  /\ At(c, "idle") /\ calls < MaxCalls
  /\ calls' = calls + 1
  /\ proc' = [proc EXCEPT ![c] = [Resting EXCEPT !.call = what, !.step = FirstStep[what],
                                                 !.aim = IF what = "destroy" THEN Stored ELSE {}]]
  /\ UNCHANGED <<leg, mtime, cache, minted, sealedBy, destroyed, shredded, causes>>

(***************************************************************************)
(* get: the first leg that has the key.  A leg that cannot be reached is   *)
(* passed over like one without the entry; the memory leg at the end       *)
(* reports NotFound, and that is what the chain then reports.              *)
(***************************************************************************)
GetHit(c) ==
  /\ At(c, "get") /\ OnLeg(c) /\ View(c, Leg(c))["kek"] # 0
  /\ proc' = [proc EXCEPT ![c].key = View(c, Leg(c))["kek"], ![c].step = "keyed"]
  /\ UNCHANGED <<leg, mtime, cache, calls, minted, sealedBy, destroyed, shredded, causes>>

GetMiss(c) ==
  /\ At(c, "get") /\ OnLeg(c)
  /\ NextLeg(c)
  /\ UNCHANGED <<leg, mtime, cache, calls, minted, sealedBy, destroyed, shredded, causes>>

\* load refuses; load_or_create mints a key of its own.
NotFound(c) ==
  /\ At(c, "get") /\ ~OnLeg(c)
  /\ \/ proc[c].call = "load" /\ Return(c) /\ UNCHANGED minted
     \/ /\ proc[c].call = "create" /\ minted < MaxKeys
        /\ minted' = minted + 1
        /\ proc' = [proc EXCEPT ![c].key = minted + 1, ![c].step = "set", ![c].at = 1]
  /\ UNCHANGED <<leg, mtime, cache, calls, sealedBy, destroyed, shredded, causes>>

\* decide_contribution: only who holds the key seals.
Seal(c) ==
  /\ At(c, "keyed")
  /\ sealedBy' = sealedBy \cup {proc[c].key}
  /\ Return(c)
  /\ UNCHANGED <<leg, mtime, cache, calls, minted, destroyed, shredded, causes>>

(***************************************************************************)
(* set (a provider key) and set_durable (the benchmark key): the first leg *)
(* that accepts the write.  When all fail, set leaves the value to the     *)
(* memory leg and set_durable reports an error.                            *)
(***************************************************************************)
\* A key is being stored although there is one: it was made since this process looked
\* for it, or its leg could not be reached then.
TwoKeys(c) == proc[c].call = "create" /\ Stored \ {proc[c].key} # {}

SetKeyring(c) ==
  /\ At(c, "set") /\ OnLeg(c) /\ ~OnFile(c)
  /\ leg' = [leg EXCEPT ![Leg(c)][EntryOf(c)] = ValueOf(c)]
  /\ Accepted(c)
  /\ Blame("twoKeys", TwoKeys(c))
  /\ UNCHANGED <<mtime, cache, calls, minted, sealedBy, destroyed, shredded>>

\* decrypt_map().unwrap_or_default(): a file that cannot be read counts as an empty one.
SetReadsFile(c) ==
  /\ At(c, "set") /\ OnFile(c)
  /\ \E base \in {View(c, Leg(c)), NoEntries} :
       /\ proc' = [proc EXCEPT ![c].buffer = [base EXCEPT ![EntryOf(c)] = ValueOf(c)],
                               ![c].readAt = mtime[Leg(c)], ![c].step = "write"]
       /\ Blame("blind", base # View(c, Leg(c)))
  /\ UNCHANGED <<leg, mtime, cache, calls, minted, sealedBy, destroyed, shredded>>

SetFails(c) ==
  /\ At(c, "set") /\ OnLeg(c)
  /\ NextLeg(c)
  /\ UNCHANGED <<leg, mtime, cache, calls, minted, sealedBy, destroyed, shredded, causes>>

\* Mutant of SetEnds: set_durable leaves the key to the memory leg as set does.
SetEndsInMemory(c) ==
  /\ At(c, "set") /\ ~OnLeg(c)
  /\ Accepted(c)
  /\ UNCHANGED <<leg, mtime, cache, calls, minted, sealedBy, destroyed, shredded, causes>>

SetEnds(c) ==
  /\ At(c, "set") /\ ~OnLeg(c)
  /\ Return(c)
  /\ UNCHANGED <<leg, mtime, cache, calls, minted, sealedBy, destroyed, shredded, causes>>

(***************************************************************************)
(* remove: every leg in turn, whatever the others do.  The memory leg      *)
(* always succeeds, so the chain does.                                     *)
(***************************************************************************)
\* What a destroy takes out of the leg it is on.
Removed(c) == IF Destroying(c) THEN {leg[Leg(c)]["kek"]} \ {0} ELSE {}

\* Mutant of RemoveKeyring: the chain stops at the first leg that succeeds, as set does.
RemoveKeyringOnly(c) ==
  /\ At(c, "remove") /\ OnLeg(c) /\ ~OnFile(c)
  /\ leg' = [leg EXCEPT ![Leg(c)][EntryOf(c)] = 0]
  /\ destroyed' = destroyed \cup Removed(c)
  /\ proc' = [proc EXCEPT ![c].at = Len(Legs) + 1]
  /\ UNCHANGED <<mtime, cache, calls, minted, sealedBy, shredded, causes>>

RemoveKeyring(c) ==
  /\ At(c, "remove") /\ OnLeg(c) /\ ~OnFile(c)
  /\ leg' = [leg EXCEPT ![Leg(c)][EntryOf(c)] = 0]
  /\ destroyed' = destroyed \cup Removed(c)
  /\ NextLeg(c)
  /\ UNCHANGED <<mtime, cache, calls, minted, sealedBy, shredded, causes>>

\* A file without the entry is not written.
RemoveReadsFile(c) ==
  /\ At(c, "remove") /\ OnFile(c)
  /\ IF View(c, Leg(c))[EntryOf(c)] = 0
     THEN NextLeg(c)
     ELSE proc' = [proc EXCEPT ![c].buffer = [View(c, Leg(c)) EXCEPT ![EntryOf(c)] = 0],
                               ![c].readAt = mtime[Leg(c)], ![c].step = "write"]
  /\ UNCHANGED <<leg, mtime, cache, calls, minted, sealedBy, destroyed, shredded, causes>>

RemoveFails(c) ==
  /\ At(c, "remove") /\ OnLeg(c)
  /\ NextLeg(c)
  /\ Blame("legFailed", Destroying(c))
  /\ UNCHANGED <<leg, mtime, cache, calls, minted, sealedBy, destroyed, shredded>>

RemoveEnds(c) ==
  /\ At(c, "remove") /\ ~OnLeg(c)
  /\ shredded' = shredded \cup proc[c].aim
  /\ Return(c)
  /\ UNCHANGED <<leg, mtime, cache, calls, minted, sealedBy, destroyed, causes>>

(***************************************************************************)
(* encrypt_map: the file is truncated and written in place, then its time  *)
(* is read and noted with the map that was written.                        *)
(***************************************************************************)
WriteFile(c) ==
  /\ At(c, "write")
  /\ leg' = [leg EXCEPT ![Leg(c)] = proc[c].buffer]
  /\ mtime' = [mtime EXCEPT ![Leg(c)] = @ + 1]
  /\ destroyed' = destroyed \cup Removed(c)
  /\ causes' = causes \cup {cause \in {"overlap", "twoKeys"} :
                            IF cause = "overlap" THEN proc[c].readAt # mtime[Leg(c)] ELSE TwoKeys(c)}
  /\ proc' = [proc EXCEPT ![c].readAt = mtime[Leg(c)] + 1, ![c].step = "stat"]
  /\ UNCHANGED <<cache, calls, minted, sealedBy, shredded>>

\* The process dies between the truncation and the last byte.
TearFile(c) ==
  /\ At(c, "write")
  /\ leg' = [leg EXCEPT ![Leg(c)] = NoEntries]
  /\ mtime' = [mtime EXCEPT ![Leg(c)] = @ + 1]
  /\ Blame("torn", TRUE)
  /\ Return(c)
  /\ UNCHANGED <<cache, calls, minted, sealedBy, destroyed, shredded>>

\* No passphrase, or no permission: the leg has failed and the chain goes on.
WriteFails(c) ==
  /\ At(c, "write")
  /\ proc' = [proc EXCEPT ![c].step = FirstStep[IF proc[c].call = "create" THEN "login" ELSE proc[c].call],
                          ![c].at = @ + 1]
  /\ Blame("legFailed", Destroying(c))
  /\ UNCHANGED <<leg, mtime, cache, calls, minted, sealedBy, destroyed, shredded>>

\* Another write may have come in between: the time noted is then that of its map.
NoteTime(c) ==
  /\ At(c, "stat")
  /\ cache' = [cache EXCEPT ![c][Leg(c)] = [time |-> mtime[Leg(c)], map |-> proc[c].buffer]]
  /\ Blame("overlap", proc[c].readAt # mtime[Leg(c)])
  /\ IF proc[c].call \in {"create", "login"}
     THEN Accepted(c)
     ELSE proc' = [proc EXCEPT ![c].step = "remove", ![c].at = @ + 1]
  /\ UNCHANGED <<leg, mtime, calls, minted, sealedBy, destroyed, shredded>>

SecretNext ==
  \E c \in Clients :
    \/ \E what \in Calls : BeginCall(c, what)
    \/ GetHit(c) \/ GetMiss(c) \/ NotFound(c) \/ Seal(c)
    \/ SetKeyring(c) \/ SetReadsFile(c) \/ SetFails(c) \/ SetEnds(c)
    \/ RemoveKeyring(c) \/ RemoveReadsFile(c) \/ RemoveFails(c) \/ RemoveEnds(c)
    \/ WriteFile(c) \/ TearFile(c) \/ WriteFails(c) \/ NoteTime(c)

SecretSpec == SecretInit /\ [][SecretNext]_secretVars

-----------------------------------------------------------------------------
\* A key that has sealed a contribution stays in a durable leg until a destroy removes
\* it, however the legs fail, unless a file was written from an outdated or unreadable
\* map or torn, or a second key was made while the first could not be seen.
SealedStaysReadable ==
  causes \cap {"overlap", "twoKeys", "blind", "torn"} = {} => sealedBy \subseteq Stored \cup destroyed

\* After a destroy that reported success no leg holds a key that was there when it began,
\* unless a leg failed on the way or a process wrote back what it had read before.
ShredTakesEffect ==
  causes \cap {"overlap", "legFailed"} = {} => shredded \cap Stored = {}
=============================================================================
