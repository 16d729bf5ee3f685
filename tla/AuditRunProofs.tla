--------------------------- MODULE AuditRunProofs ---------------------------
(***************************************************************************)
(* Proofs about AuditRun for every number of processes, repositories,      *)
(* heads and events, failed writes, crashes and changes of the evidence.   *)
(***************************************************************************)
EXTENDS AuditRun, TLAPS

-----------------------------------------------------------------------------
(* the invariant *)

\* What a reader reads.
Evidence == {"events", "receipt", "frozen"}

\* The stages of a process: the files of the reservation, the work up to the link of
\* the receipt, and its end. In the closed ones it observes nothing more.
Early == {"pending", "frozen", "events", "tmp"}
Middle == {"reserve", "act", "append", "spoiled", "run", "check", "receipt", "recheck", "link"}
Over == {"mark", "exit", "dead"}
Closed == {"recheck", "link", "sync", "clear"} \cup Over
Places == {"start", "sync", "clear"} \cup Early \cup Middle \cup Over
Looks == {"idle", "incomplete", "pending", "incomplete2", "events", "receipt", "frozen"}

\* A file: what is not there has no text.
Shape(x) == x = Absent \/ x = Holds(x.text)

\* Both views of the directory have every file.
Files ==
    /\ seen = [n \in File |-> seen[n]] /\ \A n \in File : Shape(seen[n])
    /\ kept = [n \in File |-> kept[n]] /\ \A n \in File : \A x \in kept[n] : Shape(x)

\* The types.
TypeOK ==
    /\ made \in BOOLEAN /\ damage \in Nat
    /\ pc \in [Process -> Places]
    /\ done \in [Process -> {"", "refused", "failed", "final"}]
    /\ poisoned \in [Process -> BOOLEAN]
    /\ events = [p \in Process |-> events[p]]
    /\ Files
    /\ got = [n \in Evidence |-> got[n]] /\ \A n \in Evidence : Shape(got[n])
    /\ at \in Looks

\* The process that made the attempt directory, as opposed to those it was refused to.
Owns(p) == pc[p] # "start" /\ done[p] # "refused"

\* It has one owner.
Single ==
    /\ ~made => \A p \in Process : pc[p] = "start"
    /\ \A p, q \in Process : Owns(p) /\ Owns(q) => p = q

\* Where a process is, and what it has returned and seen fail.
Control(p) ==
    /\ pc[p] \in {"start", "sync", "clear"} \cup Early \cup Middle => done[p] = ""
    /\ pc[p] \in {"start", "sync", "clear", "receipt", "recheck", "link"} \cup Early => ~poisoned[p]
    /\ pc[p] \in {"sync", "clear", "receipt", "recheck", "link"} => Sound(events[p])
    /\ pc[p] = "mark" => done[p] \in {"refused", "failed"}
    /\ pc[p] = "spoiled" => poisoned[p]
    /\ done[p] \in {"refused", "final"} => ~poisoned[p]
    /\ done[p] = "refused" => pc[p] \in Over
    /\ done[p] = "final" => pc[p] = "exit"

\* The receipt of what a process has observed.
Receipt(p) == Holds(<<[events |-> events[p], frozen |-> Whole]>>)

\* A text under a name of the receipt is empty, or tells of everything that its owner
\* observed, and the owner observes nothing more.
Told(x) ==
    x.text = <<>> \/ \E p \in Process :
        /\ Owns(p) /\ pc[p] \in Closed /\ ~poisoned[p]
        /\ x = Receipt(p)

\* So does every text the receipt may get, on the disk, after a power loss, or in the
\* hands of a reader.
AllTold ==
    /\ Told(seen.tmp) /\ Told(seen.receipt) /\ Told(got.receipt)
    /\ \A x \in kept.tmp \cup kept.receipt : Told(x)

\* A mark comes from a process that was refused or saw something fail.
Marked ==
    seen.incomplete.there \/ (\E x \in kept.incomplete : x.there) =>
        \E q \in Process : done[q] \in {"refused", "failed"} \/ poisoned[q]

\* A reader that has concluded has read everything, and answers what it concluded.
Reading ==
    /\ at # "idle" => verdict = ""
    /\ at \in Evidence => code = ""
    /\ at \in {"receipt", "frozen"} => got.events.there
    /\ at = "frozen" => got.receipt.there
    /\ code = "ready" => /\ \A n \in Evidence : got[n].there
                         /\ Verified(got.events, got.receipt, got.frozen)
    /\ verdict = "ready" => code = "ready"

\* A file is as it is seen, and no power loss changes that.
Only(n, x) == seen[n] = x /\ kept[n] = {x}

\* Nothing is published.
NoReceipt == Only("receipt", Absent)

\* The sentinel is there to stay.
Pending == Only("pending", Holds(Whole))

\* The receipt is published. The stream and the frozen input are on stable storage, and
\* where the receipt may still be lost the sentinel cannot.
Linked(p) ==
    /\ Owns(p) /\ pc[p] \in {"sync", "clear"} \cup Over /\ ~poisoned[p] /\ Sound(events[p])
    /\ seen.receipt = Receipt(p) /\ kept.receipt \subseteq {Absent, Receipt(p)}
    /\ Only("events", Holds(events[p])) /\ Only("frozen", Holds(Whole))
    /\ kept.receipt = {Receipt(p)} \/ Pending

\* What the owner has on the disk, stage by stage.
Stage(p) ==
    /\ pc[p] \in (Early \ {"pending"}) \cup Middle \cup {"sync"} => Pending
    /\ pc[p] \in {"events", "tmp"} \cup Middle => seen.frozen = Holds(Whole)
    /\ pc[p] \in {"tmp"} \cup Middle => seen.events.there
    /\ pc[p] \in Middle => Only("frozen", Holds(Whole))
    /\ pc[p] \in Middle /\ ~poisoned[p] => kept.events = {seen.events}
    /\ pc[p] \in {"recheck", "link"} => seen.tmp = Receipt(p)
    /\ pc[p] = "link" => seen.events = Holds(events[p])
    /\ pc[p] \in Early \cup Middle => NoReceipt
    /\ pc[p] \in {"sync", "clear"} => Linked(p)
    /\ pc[p] = "clear" => kept.receipt = {Receipt(p)}
    /\ done[p] = "final" => Linked(p) /\ kept.receipt = {Receipt(p)} /\ Only("pending", Absent)

\* A receipt that a reader holds is the one that is seen, and what was verified cannot be
\* taken back.
Bound ==
    /\ at # "idle" /\ got.receipt.there => got.receipt = seen.receipt
    /\ verdict = "ready" => /\ ~NoReceipt /\ kept.receipt = {seen.receipt}
                            /\ \A n \in Evidence : got[n] = seen[n]

\* The directory, as long as nobody else writes into it.
Disk ==
    /\ NoReceipt \/ \E p \in Process : Linked(p)
    /\ \A p \in Process : Owns(p) => Stage(p)
    /\ Bound

\* The inductive invariant.
IInv ==
    /\ TypeOK /\ Single /\ (\A p \in Process : Control(p))
    /\ AllTold /\ Marked /\ Reading
    /\ damage = 0 => Disk


\* What is observed: the lines of the stream follow from one another.
Lines == [repo : Repo, before : Nat, after : Nat]
Observed(p) ==
    /\ target[p] \in Repo /\ before[p] \in Nat
    /\ events[p] \in Seq(Lines) /\ Chained(events[p])
    /\ pc[p] \in {"start"} \cup Early => events[p] = <<>>
    /\ pc[p] \in {"run", "check"} => events[p] # <<>>

\* The files that the reservation has still to create are not there.
Free(ns) == \A n \in ns : ~seen[n].there
Fresh(p) == Owns(p) =>
    /\ pc[p] = "pending" => Free(Early)
    /\ pc[p] = "frozen" => Free({"frozen", "events", "tmp"})
    /\ pc[p] = "events" => Free({"events", "tmp"})
    /\ pc[p] = "tmp" => Free({"tmp"})

\* The stream is what was observed.
Stream(p) ==
    Owns(p) /\ pc[p] \in {"tmp"} \cup Middle /\ ~poisoned[p] => seen.events = Holds(events[p])

\* A write of p failed.
Lost(p) == poisoned[p] \/ done[p] = "failed"

\* With the first write that failed spent on somebody's evidence, the mark is as it is
\* seen; who ended after it has left the mark.
Explained ==
    /\ (\E p \in Process : Lost(p)) => faults # 0
    /\ faults = 0 \/ (faults = 1 /\ \E p \in Process : Lost(p)) => kept.incomplete = {seen.incomplete}
    /\ \A p \in Process : faults <= 1 /\ pc[p] = "exit" /\ done[p] = "failed" => seen.incomplete.there

\* What the end of an attempt rests on, besides IInv.
EndInv ==
    /\ head \in [Repo -> Nat] /\ faults \in Nat
    /\ target = [p \in Process |-> target[p]] /\ before = [p \in Process |-> before[p]]
    /\ ~made => Free(Early)
    /\ \A p \in Process : Observed(p) /\ Fresh(p) /\ (pc[p] = "exit" => done[p] # "")
    /\ damage = 0 => Explained /\ \A p \in Process : Stream(p)

-----------------------------------------------------------------------------
(* the disk *)

\* A file that is written is there and has its text.
LEMMA ShapeHolds == \A t : Shape(Holds(t)) /\ Holds(t).there /\ Holds(t).text = t
BY DEF Shape, Holds

\* One that is not there has the shape of a file too.
LEMMA ShapeAbsent == Shape(Absent) /\ ~Absent.there /\ Absent.text = <<>>
BY DEF Shape, Absent

\* Only these files are written; the others may be synced.
Touches(ns) ==
    /\ seen' = [n \in File |-> seen'[n]] /\ kept' = [n \in File |-> kept'[n]]
    /\ \A n \in File \ ns : seen'[n] = seen[n] /\ kept'[n] \in {kept[n], {seen[n]}}

\* A creation that fails touches its file only, and leaves nothing but a part of the text.
LEMMA CreateFails ==
    ASSUME Files, NEW n \in File, NEW t, CreateFailed(n, t)
    PROVE  /\ Touches({n}) /\ Files'
           /\ seen'[n] \in {seen[n], Holds(<<>>), Holds(t)}
           /\ kept'[n] \subseteq kept[n] \cup {Holds(<<>>), Holds(t)}
<1>1. CASE UNCHANGED <<seen, kept>>
  BY <1>1 DEF Files, Touches
<1>2. ASSUME NEW u \in {<<>>, t}, seen' = Put(n, u), kept' = MayKeep(n, {<<>>, u})
      PROVE  /\ Touches({n}) /\ Files'
             /\ seen'[n] = Holds(u) /\ kept'[n] = kept[n] \cup {Holds(<<>>), Holds(u)}
  <2>1. Touches({n})
    BY <1>2 DEF Files, Touches, Put, MayKeep
  <2>2. seen'[n] = Holds(u) /\ kept'[n] = kept[n] \cup {Holds(<<>>), Holds(u)}
    BY <1>2 DEF Files, Put, MayKeep
  <2> QED BY <2>1, <2>2, ShapeHolds DEF Files, Touches
<1> QED BY <1>1, <1>2 DEF CreateFailed

\* So does one that succeeds, with or without a sync of the directory.
LEMMA Writes ==
    ASSUME Files, NEW n \in File, NEW t, seen' = Put(n, t),
           kept' = MayKeep(n, {t}) \/ kept' = KeptAs(seen')
    PROVE  /\ Touches({n}) /\ Files' /\ seen'[n] = Holds(t)
           /\ kept'[n] \subseteq kept[n] \cup {Holds(t)}
           /\ kept' = KeptAs(seen') => \A m \in File : kept'[m] = {seen'[m]}
<1>1. Touches({n}) /\ seen'[n] = Holds(t) /\ kept'[n] \in {kept[n] \cup {Holds(t)}, {Holds(t)}}
  BY DEF Files, Touches, Put, MayKeep, KeptAs
<1> QED BY <1>1, ShapeHolds DEF Files, Touches, KeptAs

\* A file of the reservation.
LEMMA CreateWrites ==
    ASSUME Files, NEW p \in Process, CreateFile(p)
    PROVE  /\ Touches({pc[p]}) /\ Files' /\ pc[p] \in Early \cap File
           /\ seen'[pc[p]] \in {seen[pc[p]], Holds(<<>>), Holds(FirstText[pc[p]])}
           /\ kept'[pc[p]] \subseteq kept[pc[p]] \cup {Holds(<<>>), Holds(FirstText[pc[p]])}
           /\ \/ pc' = [pc EXCEPT ![p] = "mark"]
              \/ /\ pc' = [pc EXCEPT ![p] = NextFile[pc[p]]]
                 /\ seen'[pc[p]] = Holds(FirstText[pc[p]])
                 /\ pc[p] \in {"pending", "tmp"} => \A n \in File : kept'[n] = {seen'[n]}
<1> DEFINE n == pc[p]
           t == FirstText[n]
<1>1. n \in Early \cap File
  BY DEF CreateFile, NextFile, Early, File
<1>2. CASE CreateFailed(n, t) /\ Goto(p, "mark")
  BY <1>1, <1>2, CreateFails DEF Goto
<1>3. CASE seen' = Put(n, t) /\ kept' = KeptAs(seen') /\ Goto(p, NextFile[n])
  BY <1>1, <1>3, Writes DEF Goto
<1>4. CASE /\ seen' = Put(n, t) /\ kept' = MayKeep(n, {t}) /\ Goto(p, NextFile[n])
           /\ n \notin {"pending", "tmp"}
  BY <1>1, <1>4, Writes DEF Goto
<1> QED BY <1>2, <1>3, <1>4 DEF CreateFile

\* A line of the stream.
LEMMA AppendWrites ==
    ASSUME Files, NEW p \in Process, Append1(p)
    PROVE  /\ Touches({"events"}) /\ Files'
           /\ seen'.events.there 
           /\ pc' = [pc EXCEPT ![p] = "spoiled"] \/ kept'.events = {seen'.events}
<1> DEFINE e == seen.events.text
<1>1. ASSUME NEW line, LineWritten(line)
      PROVE  Touches({"events"}) /\ Files' /\ seen'.events.there /\ kept'.events = {seen'.events}
  <2>1. Touches({"events"}) /\ seen'.events = Holds(e \o <<line>>) /\ kept'.events = {Holds(e \o <<line>>)}
    BY <1>1 DEF Files, Touches, LineWritten, Put, File
  <2> QED BY <2>1, ShapeHolds DEF Files, Touches
<1>2. ASSUME NEW line, LineFailed(line)
      PROVE  Touches({"events"}) /\ Files' /\ seen'.events.there
  <2>1. PICK t : seen' = Put("events", e \o t) /\ kept' = MayKeep("events", {e \o t})
    BY <1>2 DEF LineFailed
  <2>2. Touches({"events"}) /\ seen'.events = Holds(e \o t) /\ kept'.events = kept.events \cup {Holds(e \o t)}
    BY <2>1 DEF Files, Touches, Put, MayKeep, File
  <2> QED BY <2>2, ShapeHolds DEF Files, Touches
<1> QED BY <1>1, <1>2 DEF Append1, Goto

\* The marker.
LEMMA MarkWrites ==
    ASSUME Files, NEW p \in Process, NEW to, Mark(p, to)
    PROVE  Touches({"incomplete"}) /\ Files'
<1>1. CASE CreateFailed("incomplete", Whole)
  BY <1>1, CreateFails DEF File
<1>2. CASE seen' = Put("incomplete", Whole) /\ kept' = KeptAs(seen')
  BY <1>2, Writes DEF File
<1> QED BY <1>1, <1>2 DEF Mark

\* The receipt under its temporary name.
LEMMA ReceiptWrites ==
    ASSUME Files, NEW p \in Process, WriteReceipt(p)
    PROVE  /\ Touches({"tmp"}) /\ Files'
           /\ seen'.tmp \in {Holds(<<>>), Receipt(p)}
           /\ kept'.tmp \subseteq kept.tmp \cup {Holds(<<>>), Receipt(p)}
           /\ \/ pc' = [pc EXCEPT ![p] = "mark"]
              \/ pc' = [pc EXCEPT ![p] = "recheck"] /\ seen'.tmp = Receipt(p)
<1> DEFINE r == <<[events |-> events[p], frozen |-> Whole]>>
<1>1. CASE seen' = Put("tmp", r) /\ kept' = [kept EXCEPT !.tmp = {Holds(r)}] /\ Goto(p, "recheck")
  <2>1. Touches({"tmp"}) /\ seen'.tmp = Holds(r) /\ kept'.tmp = {Holds(r)}
    BY <1>1 DEF Files, Touches, Put, File
  <2> QED BY <1>1, <2>1, ShapeHolds DEF Files, Touches, Receipt, Goto
<1>2. ASSUME NEW t \in {<<>>, r}, seen' = Put("tmp", t), kept' = MayKeep("tmp", {t}), Goto(p, "mark")
      PROVE  /\ Touches({"tmp"}) /\ Files' /\ seen'.tmp \in {Holds(<<>>), Receipt(p)}
             /\ kept'.tmp \subseteq kept.tmp \cup {Holds(<<>>), Receipt(p)}
             /\ pc' = [pc EXCEPT ![p] = "mark"]
  <2>1. "tmp" \in File BY DEF File
  <2>2. Touches({"tmp"}) /\ Files' /\ seen'["tmp"] = Holds(t) /\ kept'["tmp"] \subseteq kept["tmp"] \cup {Holds(t)}
    BY <1>2, <2>1, Writes
  <2> QED BY <1>2, <2>2 DEF Receipt, Goto
<1> QED BY <1>1, <1>2 DEF WriteReceipt, Step

\* The receipt under its own name, where there was none.
LEMMA LinkWrites ==
    ASSUME Files, NEW p \in Process, Link(p)
    PROVE  /\ Touches({"receipt", "tmp"}) /\ Files'
           /\ seen'.tmp \in {seen.tmp, Absent} /\ kept'.tmp \subseteq kept.tmp \cup {Absent}
           /\ seen'.receipt \in {seen.receipt, seen.tmp}
           /\ kept'.receipt \subseteq kept.receipt \cup {seen.tmp}
           /\ seen'.receipt # seen.receipt => ~seen.receipt.there
           /\ \/ pc' = [pc EXCEPT ![p] = "sync"] /\ seen'.receipt = seen.tmp
              \/ /\ pc' = [pc EXCEPT ![p] = "mark"]
                 /\ seen'.receipt = seen.tmp \/ UNCHANGED <<seen, kept>>
<1>1. CASE /\ seen' = [seen EXCEPT !.receipt = seen.tmp, !.tmp = Absent]
           /\ kept' = [kept EXCEPT !.receipt = @ \cup {seen.tmp}, !.tmp = @ \cup {Absent}]
           /\ ~seen.receipt.there /\ Goto(p, "sync")
  <2>1. /\ Touches({"receipt", "tmp"}) /\ seen'.receipt = seen.tmp /\ seen'.tmp = Absent
        /\ kept'.receipt = kept.receipt \cup {seen.tmp} /\ kept'.tmp = kept.tmp \cup {Absent}
    BY <1>1 DEF Files, Touches, File
  <2> QED BY <1>1, <2>1, ShapeAbsent DEF Files, Touches, Goto, File
<1>2. CASE /\ seen' = [seen EXCEPT !.receipt = seen.tmp]
           /\ kept' = [kept EXCEPT !.receipt = @ \cup {seen.tmp}]
           /\ ~seen.receipt.there /\ Goto(p, "mark")
  <2>1. /\ Touches({"receipt", "tmp"}) /\ seen'.receipt = seen.tmp /\ seen'.tmp = seen.tmp
        /\ kept'.receipt = kept.receipt \cup {seen.tmp} /\ kept'.tmp = kept.tmp
    BY <1>2 DEF Files, Touches, File
  <2> QED BY <1>2, <2>1 DEF Files, Touches, Goto, File
<1>3. CASE UNCHANGED <<seen, kept>> /\ Goto(p, "mark")
  BY <1>3 DEF Files, Touches, Goto, File
<1> QED BY <1>1, <1>2, <1>3 DEF Link, Step

\* The sync after the link.
LEMMA SyncWrites ==
    ASSUME Files, NEW p \in Process, SyncReceipt(p)
    PROVE  /\ Touches({}) /\ Files'
           /\ \/ pc' = [pc EXCEPT ![p] = "clear"] /\ \A n \in File : kept'[n] = {seen'[n]}
              \/ pc' = [pc EXCEPT ![p] = "mark"]
BY DEF Files, SyncReceipt, Step, Goto, KeptAs, Touches

\* The removal of the sentinel.
LEMMA ClearWrites ==
    ASSUME Files, NEW p \in Process, ClearPending(p)
    PROVE  /\ Touches({"pending"}) /\ Files'
           /\ \/ /\ pc' = [pc EXCEPT ![p] = "exit"] /\ done' = [done EXCEPT ![p] = "final"]
                 /\ seen'.pending = Absent /\ \A n \in File : kept'[n] = {seen'[n]}
              \/ pc' = [pc EXCEPT ![p] = "mark"] /\ done' = [done EXCEPT ![p] = "failed"]
<1>1. CASE /\ seen' = [seen EXCEPT !.pending = Absent] /\ kept' = KeptAs(seen')
           /\ Goto(p, "exit") /\ Return(p, "final")
  <2>1. Touches({"pending"}) /\ seen'.pending = Absent /\ \A n \in File : kept'[n] = {seen'[n]}
    BY <1>1 DEF Files, Touches, KeptAs, File
  <2> QED BY <1>1, <2>1, ShapeAbsent DEF Files, Touches, Goto, Return
<1>2. CASE /\ seen' = [seen EXCEPT !.pending = Absent] /\ kept' = [kept EXCEPT !.pending = @ \cup {Absent}]
           /\ Step(p, FALSE, "")
  <2>1. Touches({"pending"}) /\ seen'.pending = Absent /\ kept'.pending = kept.pending \cup {Absent}
    BY <1>2 DEF Files, Touches, File
  <2> QED BY <1>2, <2>1, ShapeAbsent DEF Files, Touches, Goto, Return, Step
<1>3. CASE UNCHANGED <<seen, kept>> /\ Step(p, FALSE, "")
  BY <1>3 DEF Files, Touches, Goto, Return, Step
<1> QED BY <1>1, <1>2, <1>3 DEF ClearPending

\* Others write into the stream or the frozen input.
LEMMA DamageWrites ==
    ASSUME Files, Damage
    PROVE  Touches({"events", "frozen"}) /\ Files'
<1>1. PICK n \in {"events", "frozen"} : \E t :
        seen' = [seen EXCEPT ![n] = Holds(t)] /\ kept' = [kept EXCEPT ![n] = {seen'[n]}]
  BY DEF Damage, Put
<1>2. n \in File BY DEF File
<1>3. Touches({n}) /\ \E t : seen'[n] = Holds(t) /\ kept'[n] = {Holds(t)}
  BY <1>1, <1>2 DEF Files, Touches
<1> QED BY <1>3, ShapeHolds DEF Files, Touches

\* After a power loss every file is one of the things it could be, to stay.
LEMMA PowerLossWrites ==
    ASSUME Files, PowerLoss
    PROVE  Files' /\ \A n \in File : seen'[n] \in kept[n] /\ kept'[n] = {seen'[n]}
<1>1. PICK p \in kept.pending, f \in kept.frozen, e \in kept.events,
          t \in kept.tmp, r \in kept.receipt, i \in kept.incomplete :
        seen' = [pending |-> p, frozen |-> f, events |-> e, tmp |-> t, receipt |-> r,
                 incomplete |-> i]
  BY DEF PowerLoss
<1>2. seen' = [n \in File |-> seen'[n]] /\ \A n \in File : seen'[n] \in kept[n]
  BY <1>1 DEF File
<1>3. kept' = [n \in File |-> {seen'[n]}]
  BY DEF PowerLoss, KeptAs
<1> QED BY <1>2, <1>3 DEF Files

-----------------------------------------------------------------------------
(* the types *)

\* Every step keeps the types.
LEMMA TypeKeeps ==
    ASSUME TypeOK, [Next]_vars
    PROVE  TypeOK'
<1> USE DEF Places, Early, Middle, Closed, Over, Looks, Goto, Return, Step
<1>0. Files /\ (UNCHANGED <<seen, kept>> => Files') BY DEF TypeOK, Files
<1>1. ASSUME NEW p \in Process, Reserve(p) PROVE TypeOK'
  BY <1>0, <1>1 DEF TypeOK, Reserve, reader, budget
<1>2. ASSUME NEW p \in Process, CreateFile(p) PROVE TypeOK'
  <2>1. /\ pc[p] \in Early /\ NextFile[pc[p]] \in Places
        /\ done' = done \/ done' = [done EXCEPT ![p] = "failed"]
        /\ UNCHANGED <<made, events, poisoned, reader, damage>>
    <3>1. /\ DOMAIN NextFile = Early
          /\ \A n \in Early : NextFile[n] \in Places
      BY DEF NextFile
    <3>2. pc[p] \in Early /\ UNCHANGED <<made, events, poisoned, reader, damage>>
      BY <1>2, <3>1 DEF CreateFile
    <3>3. done' = done \/ done' = [done EXCEPT ![p] = "failed"]
      BY <1>2 DEF CreateFile
    <3> QED BY <3>1, <3>2, <3>3
  <2>2. Files' /\ (pc' = [pc EXCEPT ![p] = "mark"] \/ pc' = [pc EXCEPT ![p] = NextFile[pc[p]]])
    BY <1>0, <1>2, CreateWrites
  <2> QED BY <2>1, <2>2 DEF TypeOK, reader
<1>3. ASSUME NEW p \in Process, Begin(p) PROVE TypeOK'
  BY <1>0, <1>3 DEF TypeOK, Begin, directory, reader, budget
<1>4. ASSUME NEW p \in Process, Act(p) PROVE TypeOK'
  BY <1>0, <1>4 DEF TypeOK, Act, directory, reader, budget
<1>5. ASSUME NEW p \in Process, Append1(p) PROVE TypeOK'
  BY <1>5, AppendWrites DEF TypeOK, Append1, reader
<1>6. ASSUME NEW p \in Process, MarkSpoiled(p) PROVE TypeOK'
  BY <1>6, MarkWrites DEF TypeOK, MarkSpoiled, Mark, reader
<1>7. ASSUME NEW p \in Process, MarkIncomplete(p) PROVE TypeOK'
  BY <1>7, MarkWrites DEF TypeOK, MarkIncomplete, Mark, reader
<1>8. ASSUME NEW p \in Process, Finalize(p) PROVE TypeOK'
  BY <1>0, <1>8 DEF TypeOK, Finalize, directory, reader, budget
<1>9. ASSUME NEW p \in Process, CheckEvents(p) PROVE TypeOK'
  BY <1>0, <1>9 DEF TypeOK, CheckEvents, directory, reader, budget
<1>10. ASSUME NEW p \in Process, WriteReceipt(p) PROVE TypeOK'
  BY <1>10, ReceiptWrites DEF TypeOK, WriteReceipt, reader
<1>11. ASSUME NEW p \in Process, RecheckEvents(p) PROVE TypeOK'
  BY <1>0, <1>11 DEF TypeOK, RecheckEvents, directory, reader, budget
<1>12. ASSUME NEW p \in Process, Link(p) PROVE TypeOK'
  BY <1>12, LinkWrites DEF TypeOK, Link, reader
<1>13. ASSUME NEW p \in Process, SyncReceipt(p) PROVE TypeOK'
  BY <1>13, SyncWrites DEF TypeOK, SyncReceipt, reader
<1>14. ASSUME NEW p \in Process, ClearPending(p) PROVE TypeOK'
  BY <1>14, ClearWrites DEF TypeOK, ClearPending, reader
<1>15. ASSUME NEW p \in Process, Kill(p) PROVE TypeOK'
  BY <1>0, <1>15 DEF TypeOK, Kill, directory, reader
<1>16. CASE OpenRun
  BY <1>0, <1>16, ShapeAbsent DEF TypeOK, OpenRun, Read, directory, context, budget, Evidence
<1>17. CASE ProbeIncomplete \/ ProbePending
  BY <1>0, <1>17 DEF TypeOK, ProbeIncomplete, ProbePending, Answer, Read, directory, context,
     budget
<1>18. CASE ReadEvidence
  <2>1. /\ at \in {"events", "receipt"} /\ at' \in {"receipt", "frozen", "incomplete"}
        /\ got' = [got EXCEPT ![at] = seen[at]] /\ UNCHANGED <<directory, context, budget>>
    <3>1. /\ DOMAIN NextEvidence = {"events", "receipt"}
          /\ NextEvidence["events"] = "receipt" /\ NextEvidence["receipt"] = "frozen"
      BY DEF NextEvidence
    <3> QED BY <1>18, <3>1 DEF ReadEvidence, Conclude, Read
  <2>2. got' = [n \in Evidence |-> got'[n]] /\ \A n \in Evidence : Shape(got'[n])
    BY <2>1 DEF TypeOK, Evidence, Files, File
  <2> QED BY <1>0, <2>1, <2>2 DEF TypeOK, directory, context, budget
<1>19. CASE ReadFrozen
  BY <1>0, <1>19 DEF TypeOK, ReadFrozen, Conclude, Read, Evidence, Files, File, directory,
     context, budget
<1>20. CASE Elsewhere
  BY <1>0, <1>20 DEF TypeOK, Elsewhere, directory, context, reader, budget
<1>21. CASE PowerLoss
  BY <1>21, PowerLossWrites DEF TypeOK, PowerLoss
<1>22. CASE Damage
  <2>1. damage' = damage + 1 /\ UNCHANGED <<made, context, reader>>
    BY <1>22 DEF Damage
  <2>0. damage \in Nat BY DEF TypeOK
  <2>2. damage' \in Nat BY <2>0, <2>1
  <2>3. Files' BY <1>0, <1>22, DamageWrites
  <2> QED BY <2>1, <2>2, <2>3 DEF TypeOK, context, reader
<1>23. CASE UNCHANGED vars
  BY <1>0, <1>23 DEF TypeOK, vars, directory, context, reader, budget
<1> QED BY <1>1, <1>2, <1>3, <1>4, <1>5, <1>6, <1>7, <1>8, <1>9, <1>10, <1>11, <1>12, <1>13,
   <1>14, <1>15,
   <1>16, <1>17, <1>18, <1>19, <1>20, <1>21, <1>22, <1>23 DEF Next, Work, Look

-----------------------------------------------------------------------------
(* the control of a process *)

\* The other processes stay as they are.
Apart(p) ==
    \A q \in Process \ {p} :
        /\ pc'[q] = pc[q] /\ done'[q] = done[q]
        /\ poisoned'[q] = poisoned[q] /\ events'[q] = events[q]

\* The owner stays the owner, a closed process observes nothing more, and what failed or
\* was refused stays so.
Steady(p) ==
    /\ Owns(p) => Owns(p)'
    /\ pc[p] \in Closed => pc'[p] \in Closed /\ events'[p] = events[p] /\ poisoned'[p] = poisoned[p]
    /\ done[p] \in {"refused", "failed"} \/ poisoned[p] =>
        done'[p] \in {"refused", "failed"} \/ poisoned'[p]

\* A process goes to the stage l and has returned v.
Moves(p, l, v) ==
    /\ pc[p] # "start" /\ made' = made /\ events' = events /\ poisoned' = poisoned
    /\ pc' = [pc EXCEPT ![p] = l]
    /\ done' = [done EXCEPT ![p] = v] \/ (done' = done /\ v = done[p])

\* Such a move keeps the control of every process.
LEMMA Moved ==
    ASSUME TypeOK, Single, \A q \in Process : Control(q), NEW p \in Process,
           NEW l \in Places \ {"start"}, NEW v \in {"", "refused", "failed", "final"}, Moves(p, l, v),
           v = "refused" <=> done[p] = "refused", done[p] = "failed" => v = "failed",
           pc[p] \in Closed => l \in Closed,
           Control(p) =>
            /\ l \in {"sync", "clear"} \cup Early \cup Middle => v = ""
            /\ l \in {"sync", "clear", "receipt", "recheck", "link"} \cup Early => ~poisoned[p]
            /\ l \in {"sync", "clear", "receipt", "recheck", "link"} => Sound(events[p])
            /\ l = "mark" => v \in {"refused", "failed"}
            /\ l = "spoiled" => poisoned[p]
            /\ v \in {"refused", "final"} => ~poisoned[p]
            /\ v = "refused" => l \in Over
            /\ v = "final" => l = "exit"
    PROVE  Apart(p) /\ Control(p)' /\ Single' /\ Steady(p)
<1>1. /\ pc'[p] = l /\ done'[p] = v /\ events'[p] = events[p] /\ poisoned'[p] = poisoned[p]
      /\ Apart(p)
  BY DEF TypeOK, Moves, Apart
<1>2. Control(p)'
  BY <1>1 DEF Control
<1>3. Steady(p)
  BY <1>1 DEF Steady, Owns, Moves
<1>4. Single'
  BY <1>1 DEF Single, Moves, Apart, Owns
<1> QED BY <1>1, <1>2, <1>3, <1>4

\* Every step of a process does.
LEMMA StepControl ==
    ASSUME TypeOK, Single, \A q \in Process : Control(q), NEW p \in Process, Work(p) \/ Kill(p)
    PROVE  Apart(p) /\ Control(p)' /\ Single' /\ Steady(p)
<1>0. Control(p) /\ done[p] \in {"", "refused", "failed", "final"} BY DEF TypeOK
<1> USE DEF Control, Early, Middle, Over, Closed, Places, Goto, Return
<1>1. ASSUME Reserve(p) PROVE Apart(p) /\ Control(p)' /\ Single' /\ Steady(p)
  <2>1. /\ pc[p] = "start" /\ events' = events /\ poisoned' = poisoned
        /\ \/ /\ made /\ made' = made /\ pc' = [pc EXCEPT ![p] = "mark"]
              /\ done' = [done EXCEPT ![p] = "refused"]
           \/ /\ ~made /\ made' = TRUE /\ pc' = [pc EXCEPT ![p] = "pending"] /\ done' = done
    BY <1>1 DEF Reserve
  <2>2. /\ pc'[p] \in {"mark", "pending"} /\ done'[p] = IF pc'[p] = "mark" THEN "refused" ELSE done[p]
        /\ Apart(p)
    BY <2>1 DEF TypeOK, Apart
  <2>3. Control(p)'
    BY <1>0, <2>1, <2>2
  <2>4. Single'
    <3>1. CASE made
      <4>1. made' /\ done'[p] = "refused" BY <2>1, <3>1 DEF TypeOK
      <4>2. \A q \in Process : Owns(q)' => Owns(q) BY <4>1, <2>2 DEF Apart, Owns
      <4> QED BY <4>1, <4>2 DEF Single
    <3>2. CASE ~made
      <4>1. made' /\ \A q \in Process \ {p} : ~Owns(q)'
        BY <2>1, <2>2, <3>2 DEF Single, Apart, Owns
      <4> QED BY <4>1 DEF Single
    <3> QED BY <3>1, <3>2
  <2> QED BY <1>0, <2>1, <2>2, <2>3, <2>4 DEF Steady, Owns
<1>2. ASSUME CreateFile(p) PROVE Apart(p) /\ Control(p)' /\ Single' /\ Steady(p)
  <2>1. pc[p] \in Early /\ (Moves(p, NextFile[pc[p]], "") \/ Moves(p, "mark", "failed"))
    BY <1>0, <1>2 DEF CreateFile, NextFile, Moves
  <2>2. \A n \in Early : NextFile[n] \in {"frozen", "events", "tmp", "reserve"}
    <3>1. NextFile = [pending |-> "frozen", frozen |-> "events", events |-> "tmp", tmp |-> "reserve"]
      BY DEF NextFile
    <3>2. /\ NextFile["pending"] = "frozen" /\ NextFile["frozen"] = "events"
          /\ NextFile["events"] = "tmp" /\ NextFile["tmp"] = "reserve"
      BY <3>1
    <3> QED BY <3>2
  <2> QED BY <1>0, <2>1, <2>2, Moved
<1>3. ASSUME Begin(p) PROVE Apart(p) /\ Control(p)' /\ Single' /\ Steady(p)
  <2>1. Moves(p, "act", "") /\ pc[p] \in {"reserve", "run"} BY <1>0, <1>3 DEF Begin, Moves,
     directory
  <2> QED BY <1>0, <2>1, Moved
<1>4. ASSUME Act(p) PROVE Apart(p) /\ Control(p)' /\ Single' /\ Steady(p)
  <2>1. Moves(p, "append", "") /\ pc[p] = "act" BY <1>0, <1>4 DEF Act, Moves, directory
  <2> QED BY <1>0, <2>1, Moved
<1>5. ASSUME Append1(p) PROVE Apart(p) /\ Control(p)' /\ Single' /\ Steady(p)
  <2>0. /\ pc[p] = "append" /\ done' = done /\ made' = made
        /\ \/ /\ pc' = [pc EXCEPT ![p] = "run"] \/ pc' = [pc EXCEPT ![p] = "append"]
              /\ poisoned' = poisoned /\ \E e : events' = [events EXCEPT ![p] = e]
           \/ /\ pc' = [pc EXCEPT ![p] = "spoiled"] /\ poisoned' = [poisoned EXCEPT ![p] = TRUE]
              /\ events' = events
    BY <1>5 DEF Append1
  <2>1. /\ pc[p] = "append" /\ pc'[p] \in {"run", "append", "spoiled"} /\ done' = done /\ made' = made
        /\ poisoned[p] \/ pc'[p] = "spoiled" => poisoned'[p]
        /\ Apart(p)
    <3>1. ASSUME NEW e, events' = [events EXCEPT ![p] = e], poisoned' = poisoned
          PROVE  \A q \in Process \ {p} : events'[q] = events[q]
      BY <3>1 DEF TypeOK
    <3> QED BY <2>0, <3>1 DEF TypeOK, Apart
  <2>3. Control(p)'
    BY <1>0, <2>1
  <2>4. Single'
    <3>1. made /\ made'
      BY <1>0, <2>1 DEF Single
    <3>2. \A q \in Process : Owns(q)' => Owns(q)
      BY <2>1 DEF Apart, Owns
    <3> QED BY <1>0, <3>1, <3>2 DEF Single
  <2> QED BY <1>0, <2>1, <2>3, <2>4 DEF Steady, Owns
<1>6. ASSUME MarkSpoiled(p) PROVE Apart(p) /\ Control(p)' /\ Single' /\ Steady(p)
  <2>1. (Moves(p, "exit", "failed") \/ Moves(p, "run", "")) /\ pc[p] = "spoiled"
    BY <1>0, <1>6 DEF MarkSpoiled, Mark, Moves
  <2> QED BY <1>0, <2>1, Moved
<1>7. ASSUME MarkIncomplete(p) PROVE Apart(p) /\ Control(p)' /\ Single' /\ Steady(p)
  <2>1. Moves(p, "exit", done[p]) /\ pc[p] = "mark"
    BY <1>0, <1>7 DEF MarkIncomplete, Mark, Moves
  <2> QED BY <1>0, <2>1, Moved
<1>8. ASSUME Finalize(p) PROVE Apart(p) /\ Control(p)' /\ Single' /\ Steady(p)
  <2>1. Moves(p, "check", "") /\ pc[p] = "run" BY <1>0, <1>8 DEF Finalize, Moves, directory
  <2> QED BY <1>0, <2>1, Moved
<1>9. ASSUME CheckEvents(p) PROVE Apart(p) /\ Control(p)' /\ Single' /\ Steady(p)
  <2>1. /\ (Moves(p, "receipt", "") /\ ~poisoned[p] /\ Sound(events[p])) \/ Moves(p, "mark", "failed")
        /\ pc[p] = "check"
    BY <1>0, <1>9 DEF CheckEvents, Step, Moves, directory
  <2> QED BY <1>0, <2>1, Moved
<1>10. ASSUME WriteReceipt(p) PROVE Apart(p) /\ Control(p)' /\ Single' /\ Steady(p)
  <2>1. (Moves(p, "recheck", "") \/ Moves(p, "mark", "failed")) /\ pc[p] = "receipt"
    BY <1>0, <1>10 DEF WriteReceipt, Step, Moves
  <2> QED BY <1>0, <2>1, Moved
<1>11. ASSUME RecheckEvents(p) PROVE Apart(p) /\ Control(p)' /\ Single' /\ Steady(p)
  <2>1. (Moves(p, "link", "") \/ Moves(p, "mark", "failed")) /\ pc[p] = "recheck"
    BY <1>0, <1>11 DEF RecheckEvents, Step, Moves, directory
  <2> QED BY <1>0, <2>1, Moved
<1>12. ASSUME Link(p) PROVE Apart(p) /\ Control(p)' /\ Single' /\ Steady(p)
  <2>1. (Moves(p, "sync", "") \/ Moves(p, "mark", "failed")) /\ pc[p] = "link"
    BY <1>0, <1>12 DEF Link, Step, Moves
  <2> QED BY <1>0, <2>1, Moved
<1>13. ASSUME SyncReceipt(p) PROVE Apart(p) /\ Control(p)' /\ Single' /\ Steady(p)
  <2>1. (Moves(p, "clear", "") \/ Moves(p, "mark", "failed")) /\ pc[p] = "sync"
    BY <1>0, <1>13 DEF SyncReceipt, Step, Moves
  <2> QED BY <1>0, <2>1, Moved
<1>14. ASSUME ClearPending(p) PROVE Apart(p) /\ Control(p)' /\ Single' /\ Steady(p)
  <2>1. (Moves(p, "exit", "final") \/ Moves(p, "mark", "failed")) /\ pc[p] = "clear"
    BY <1>0, <1>14 DEF ClearPending, Step, Moves
  <2> QED BY <1>0, <2>1, Moved
<1>15. ASSUME Kill(p) PROVE Apart(p) /\ Control(p)' /\ Single' /\ Steady(p)
  <2>1. Moves(p, "dead", done[p]) /\ pc[p] \notin {"start", "exit", "dead"}
    BY <1>0, <1>15 DEF Kill, Moves, directory
  <2>2. done[p] # "final" /\ (done[p] = "refused" => ~poisoned[p])
    BY <1>0, <2>1
  <2> QED BY <1>0, <2>1, <2>2, Moved
<1> QED BY <1>1, <1>2, <1>3, <1>4, <1>5, <1>6, <1>7, <1>8, <1>9, <1>10, <1>11, <1>12, <1>13,
   <1>14, <1>15 DEF Work

\* Every step does, for all processes.
LEMMA EverySteady ==
    ASSUME TypeOK, Single, \A q \in Process : Control(q), [Next]_vars
    PROVE  Single' /\ \A q \in Process : Control(q)' /\ Steady(q)
<1>1. ASSUME NEW p \in Process, Work(p) \/ Kill(p) PROVE Single' /\ \A q \in Process : Control(q)' /\ Steady(q)
  <2>1. Apart(p) /\ Control(p)' /\ Single' /\ Steady(p)
    BY <1>1, StepControl
  <2>2. ASSUME NEW q \in Process \ {p} PROVE Control(q)' /\ Steady(q)
    BY <2>1 DEF Apart, Control, Steady, Owns
  <2> QED BY <2>1, <2>2
<1>2. CASE UNCHANGED <<made, context>>
  BY <1>2 DEF context, Single, Control, Steady, Owns
<1>3. CASE PowerLoss
  <2>1. /\ made' = made /\ done' = done /\ events' = events /\ poisoned' = poisoned
        /\ \A q \in Process : pc'[q] = IF pc[q] \in {"start", "exit"} THEN pc[q] ELSE "dead"
    BY <1>3 DEF PowerLoss
  <2>2. ASSUME NEW q \in Process PROVE Control(q)' /\ Steady(q) /\ (Owns(q)' => Owns(q))
    BY <2>1 DEF Control, Steady, Owns, Closed, Early, Middle, Over, TypeOK
  <2>3. made => made' BY <2>1
  <2> QED BY <2>1, <2>2 DEF Single
<1>4. Look \/ Elsewhere \/ Damage \/ UNCHANGED vars => UNCHANGED <<made, context>>
  BY DEF Look, OpenRun, ProbeIncomplete, ProbePending, ReadEvidence, ReadFrozen, Answer,
     Conclude, Read,
     Elsewhere, Damage, vars, directory
<1> QED BY <1>1, <1>2, <1>3, <1>4 DEF Next

-----------------------------------------------------------------------------
(* receipts, marks and the reader *)

\* Told of the next state.
ToldNext(x) ==
    x.text = <<>> \/ \E p \in Process :
        Owns(p)' /\ pc'[p] \in Closed /\ ~poisoned'[p] /\ x = Receipt(p)'

\* The texts that a receipt may get, and the empty ones.
Texts == {seen.tmp, seen.receipt, got.receipt, Absent, Holds(<<>>)} \cup kept.tmp \cup kept.receipt

\* Where the texts are old ones, or tell all, AllTold is kept.
LEMMA ToldFrom ==
    ASSUME \A q \in Process : Steady(q), AllTold,
           \A x \in {seen'.tmp, seen'.receipt, got'.receipt} \cup kept'.tmp \cup kept'.receipt :
               x \in Texts \/ ToldNext(x)
    PROVE  AllTold'
<1>1. ASSUME NEW x, Told(x) PROVE ToldNext(x)
  <2>1. CASE x.text = <<>>
    BY <2>1 DEF ToldNext
  <2>2. ASSUME NEW p \in Process, Owns(p), pc[p] \in Closed, ~poisoned[p], x = Receipt(p)
        PROVE  ToldNext(x)
    BY <2>2 DEF ToldNext, Steady, Receipt
  <2> QED BY <1>1, <2>1, <2>2 DEF Told
<1>2. \A x \in Texts : Told(x)
  BY ShapeHolds, ShapeAbsent DEF Texts, AllTold, Told
<1>3. \A x \in {seen'.tmp, seen'.receipt, got'.receipt} \cup kept'.tmp \cup kept'.receipt : ToldNext(x)
  BY <1>1, <1>2
<1> QED BY <1>3 DEF AllTold, Told, ToldNext

\* Every step keeps AllTold: the temporary file is written by an owner that saw no
\* failure and has closed its stream.
LEMMA ToldKeeps ==
    ASSUME TypeOK, Single, \A q \in Process : Control(q), AllTold, [Next]_vars
    PROVE  AllTold'
<1>0. Files /\ \A q \in Process : Steady(q) BY EverySteady DEF TypeOK
<1>1. ASSUME NEW ns, Touches(ns), ns \cap {"tmp", "receipt"} = {}, got' = got PROVE AllTold'
  <2>1. /\ seen'.tmp = seen.tmp /\ seen'.receipt = seen.receipt
        /\ kept'.tmp \subseteq kept.tmp \cup {seen.tmp} /\ kept'.receipt \subseteq kept.receipt \cup {seen.receipt}
    BY <1>1 DEF Touches, File
  <2> QED BY <1>0, <1>1, <2>1, ToldFrom DEF Texts
<1>2. ASSUME NEW p \in Process, CreateFile(p) PROVE AllTold'
  <2>1. got' = got BY <1>2 DEF CreateFile, reader
  <2>2. CASE pc[p] # "tmp"
    BY <1>0, <1>1, <1>2, <2>1, <2>2, CreateWrites DEF Early
  <2>3. CASE pc[p] = "tmp"
    <3>1. FirstText["tmp"] = <<>> BY DEF FirstText
    <3>2. /\ seen'.tmp \in {seen.tmp, Holds(<<>>)} /\ kept'.tmp \subseteq kept.tmp \cup {Holds(<<>>)}
          /\ seen'.receipt = seen.receipt /\ kept'.receipt \subseteq kept.receipt \cup {seen.receipt}
      BY <1>0, <1>2, <2>3, <3>1, CreateWrites DEF Touches, File
    <3> QED BY <1>0, <2>1, <3>2, ToldFrom DEF Texts
  <2> QED BY <2>2, <2>3
<1>3. ASSUME NEW p \in Process, Append1(p) PROVE AllTold'
  BY <1>0, <1>1, <1>3, AppendWrites DEF Append1, reader
<1>4. ASSUME NEW p \in Process, MarkSpoiled(p) \/ MarkIncomplete(p) PROVE AllTold'
  BY <1>0, <1>1, <1>4, MarkWrites DEF MarkSpoiled, MarkIncomplete, Mark, reader
<1>5. ASSUME NEW p \in Process, WriteReceipt(p) PROVE AllTold'
  <2>1. got' = got BY <1>5 DEF WriteReceipt, reader
  <2>2. /\ seen'.tmp \in {Holds(<<>>), Receipt(p)} /\ kept'.tmp \subseteq kept.tmp \cup {Holds(<<>>), Receipt(p)}
        /\ seen'.receipt = seen.receipt /\ kept'.receipt \subseteq kept.receipt \cup {seen.receipt}
    BY <1>0, <1>5, ReceiptWrites DEF Touches, File
  <2>3. pc[p] = "receipt" /\ ~poisoned[p] /\ pc'[p] \in Closed /\ UNCHANGED <<events, poisoned>>
    BY <1>5 DEF WriteReceipt, Step, Goto, TypeOK, Control, Closed, Over
  <2>4. Owns(p)
    BY <2>3 DEF Control, Owns, Middle
  <2>5. ToldNext(Receipt(p))
    BY <1>0, <2>3, <2>4 DEF ToldNext, Steady, Receipt
  <2> QED BY <1>0, <2>1, <2>2, <2>5, ToldFrom DEF Texts
<1>6. ASSUME NEW p \in Process, Link(p) PROVE AllTold'
  <2>1. got' = got BY <1>6 DEF Link, reader
  <2> QED BY <1>0, <1>6, <2>1, LinkWrites, ToldFrom DEF Texts
<1>7. ASSUME NEW p \in Process, SyncReceipt(p) \/ ClearPending(p) PROVE AllTold'
  <2>1. got' = got BY <1>7 DEF SyncReceipt, ClearPending, reader
  <2> QED BY <1>0, <1>1, <1>7, <2>1, SyncWrites, ClearWrites
<1>8. CASE Damage
  <2>1. got' = got BY <1>8 DEF Damage, reader
  <2> QED BY <1>0, <1>1, <1>8, <2>1, DamageWrites
<1>9. CASE PowerLoss
  <2>1. got' = got BY <1>9 DEF PowerLoss
  <2>2. \A n \in {"tmp", "receipt"} : seen'[n] \in kept[n] /\ kept'[n] = {seen'[n]}
    BY <1>0, <1>9, PowerLossWrites DEF File
  <2> QED BY <1>0, <2>1, <2>2, ToldFrom DEF Texts
<1>10. ASSUME UNCHANGED directory, got'.receipt \in {got.receipt, Absent, seen.receipt} PROVE AllTold'
  BY <1>0, <1>10, ToldFrom DEF Texts, directory
<1>11. CASE Look
  <2>1. UNCHANGED directory BY <1>11 DEF Look, OpenRun, ProbeIncomplete, ProbePending,
     ReadEvidence, ReadFrozen,
      Answer, Conclude, Read
  <2>2. CASE OpenRun
    BY <1>10, <2>1, <2>2 DEF OpenRun, TypeOK, Evidence
  <2>3. CASE ProbeIncomplete \/ ProbePending
    BY <1>10, <2>1, <2>3 DEF ProbeIncomplete, ProbePending
  <2>4. CASE ReadEvidence
    <3>1. got' = [got EXCEPT ![at] = seen[at]] BY <2>4 DEF ReadEvidence
    <3>2. got'.receipt \in {got.receipt, seen.receipt} BY <3>1 DEF TypeOK, Evidence
    <3> QED BY <1>10, <2>1, <3>2
  <2>5. CASE ReadFrozen
    <3>1. got' = [got EXCEPT !.frozen = seen.frozen] BY <2>5 DEF ReadFrozen
    <3>2. got'.receipt = got.receipt BY <3>1 DEF TypeOK, Evidence
    <3> QED BY <1>10, <2>1, <3>2
  <2> QED BY <1>11, <2>2, <2>3, <2>4, <2>5 DEF Look
<1>12. ASSUME NEW p \in Process, Reserve(p) \/ Begin(p) \/ Act(p) \/ Finalize(p) \/ CheckEvents(p) \/ RecheckEvents(p) \/ Kill(p)
       PROVE  AllTold'
  <2>1. UNCHANGED <<seen, kept, got>>
    BY <1>12 DEF Reserve, Begin, Act, Finalize, CheckEvents, RecheckEvents, Kill, directory,
       reader
  <2> QED BY <1>0, <2>1, ToldFrom DEF Texts
<1>13. CASE Elsewhere \/ UNCHANGED vars
  BY <1>10, <1>13 DEF Elsewhere, vars, reader
<1> QED BY <1>2, <1>3, <1>4, <1>5, <1>6, <1>7, <1>8, <1>9, <1>11, <1>12, <1>13 DEF Next, Work

\* Every step keeps Marked.
LEMMA MarkedKeeps ==
    ASSUME TypeOK, Single, \A q \in Process : Control(q), Marked, [Next]_vars
    PROVE  Marked'
<1> DEFINE Seen == seen.incomplete.there \/ \E x \in kept.incomplete : x.there
<1>0. Files /\ \A q \in Process : Steady(q) BY EverySteady DEF TypeOK
<1>1. ASSUME Seen' => Seen PROVE Marked'
  BY <1>0, <1>1 DEF Marked, Steady
<1>2. ASSUME NEW p \in Process, done[p] \in {"refused", "failed"} \/ poisoned[p] PROVE Marked'
  BY <1>0, <1>2 DEF Marked, Steady
<1>3. ASSUME NEW ns, Touches(ns), "incomplete" \notin ns PROVE Marked'
  <2>1. seen'.incomplete = seen.incomplete /\ kept'.incomplete \in {kept.incomplete, {seen.incomplete}}
    BY <1>3 DEF Touches, File
  <2> QED BY <1>1, <2>1
<1>4. ASSUME NEW p \in Process, MarkSpoiled(p) \/ MarkIncomplete(p) PROVE Marked'
  BY <1>2, <1>4 DEF MarkSpoiled, MarkIncomplete, Control
<1>5. ASSUME NEW p \in Process, Append1(p) \/ CreateFile(p) \/ WriteReceipt(p) \/ Link(p) \/ SyncReceipt(p) \/ ClearPending(p)
      PROVE  Marked'
  <2>1. CASE CreateFile(p)
    BY <1>0, <1>3, <2>1, CreateWrites DEF Early
  <2> QED BY <1>0, <1>3, <1>5, <2>1, AppendWrites, ReceiptWrites, LinkWrites, SyncWrites,
     ClearWrites
<1>6. CASE Damage
  BY <1>0, <1>3, <1>6, DamageWrites
<1>7. CASE PowerLoss
  <2>1. seen'.incomplete \in kept.incomplete /\ kept'.incomplete = {seen'.incomplete}
    BY <1>0, <1>7, PowerLossWrites DEF File
  <2> QED BY <1>1, <2>1
<1>8. CASE UNCHANGED <<seen, kept>>
  BY <1>1, <1>8
<1>9. ASSUME NEW p \in Process, Reserve(p) \/ Begin(p) \/ Act(p) \/ Finalize(p) \/ CheckEvents(p) \/ RecheckEvents(p) \/ Kill(p)
      PROVE  Marked'
  BY <1>8, <1>9 DEF Reserve, Begin, Act, Finalize, CheckEvents, RecheckEvents, Kill, directory
<1>10. CASE Look \/ Elsewhere \/ UNCHANGED vars
  BY <1>8, <1>10 DEF Look, OpenRun, ProbeIncomplete, ProbePending, ReadEvidence, ReadFrozen,
     Answer, Conclude, Read,
     Elsewhere, vars, directory
<1> QED BY <1>4, <1>5, <1>6, <1>7, <1>9, <1>10 DEF Next, Work

\* Every step keeps Reading.
LEMMA ReadingKeeps ==
    ASSUME TypeOK, Reading, [Next]_vars
    PROVE  Reading'
<1>1. CASE OpenRun
  BY <1>1 DEF OpenRun, Read, Reading, Evidence
<1>2. CASE ProbeIncomplete
  BY <1>2 DEF ProbeIncomplete, Answer, Read, Reading, Evidence
<1>3. CASE ProbePending
  BY <1>3 DEF ProbePending, Answer, Read, Reading, Evidence
<1>4. CASE ReadEvidence
  <2>1. /\ DOMAIN NextEvidence = {"events", "receipt"}
        /\ NextEvidence["events"] = "receipt" /\ NextEvidence["receipt"] = "frozen"
    BY DEF NextEvidence
  <2>2. /\ at \in {"events", "receipt"} /\ got' = [got EXCEPT ![at] = seen[at]] /\ verdict' = verdict
        /\ \/ seen[at].there /\ at' = NextEvidence[at] /\ code' = code
           \/ at' = "incomplete" /\ code' = "missing"
    BY <1>4, <2>1 DEF ReadEvidence, Conclude, Read
  <2>3. got'[at] = seen[at] /\ (at = "receipt" => got'.events = got.events)
    BY <2>2 DEF TypeOK, Evidence
  <2> QED BY <2>1, <2>2, <2>3 DEF Reading, Evidence
<1>5. CASE ReadFrozen
  <2>1. got'.frozen = seen.frozen /\ got'.events = got.events /\ got'.receipt = got.receipt
    BY <1>5 DEF ReadFrozen, TypeOK, Evidence
  <2>2. /\ at = "frozen" /\ at' = "incomplete" /\ verdict' = verdict
        /\ code' = "ready" => seen.frozen.there /\ Verified(got.events, got.receipt, seen.frozen)
    BY <1>5 DEF ReadFrozen, Conclude, Read
  <2> QED BY <2>1, <2>2 DEF Reading, Evidence
<1>6. CASE UNCHANGED reader
  BY <1>6 DEF reader, Reading
<1>7. CASE PowerLoss
  BY <1>7 DEF PowerLoss, Reading, Evidence
<1>8. ASSUME NEW p \in Process, Work(p) \/ Kill(p) PROVE UNCHANGED reader
  BY <1>8 DEF Work, Reserve, CreateFile, Begin, Act, Append1, MarkSpoiled, MarkIncomplete, Mark,
     Finalize, CheckEvents,
     WriteReceipt, RecheckEvents, Link, SyncReceipt, ClearPending, Kill
<1>9. Elsewhere \/ Damage \/ UNCHANGED vars => UNCHANGED reader
  BY DEF Elsewhere, Damage, vars
<1> QED BY <1>1, <1>2, <1>3, <1>4, <1>5, <1>6, <1>7, <1>8, <1>9 DEF Next, Look

-----------------------------------------------------------------------------
(* the directory *)

\* While nothing is published a reader has no receipt.
LEMMA BoundWaits ==
    ASSUME Bound, NoReceipt, UNCHANGED reader
    PROVE  Bound'
BY ShapeAbsent DEF Bound, NoReceipt, Only, reader

\* A step that leaves the evidence as it is takes no verdict back.
LEMMA BoundStays ==
    ASSUME Bound, UNCHANGED reader, \A n \in Evidence : seen'[n] = seen[n],
           kept'.receipt \in {kept.receipt, {seen.receipt}}
    PROVE  Bound'
<1>1. seen'.receipt = seen.receipt BY DEF Evidence
<1>2. CASE verdict # "ready"
  BY <1>1, <1>2 DEF Bound, reader
<1>3. CASE verdict = "ready"
  <2>1. seen.receipt # Absent /\ kept'.receipt = {seen.receipt}
    BY <1>3 DEF Bound, NoReceipt, Only
  <2> QED BY <1>1, <2>1 DEF Bound, reader, NoReceipt, Only
<1> QED BY <1>2, <1>3

\* A file that is not touched stays.
LEMMA OnlyStays ==
    ASSUME NEW ns, Touches(ns), NEW n \in File \ ns, NEW x, Only(n, x)
    PROVE  Only(n, x)'
BY DEF Touches, Only

\* A published receipt stays published, and where the sentinel is removed it is on
\* stable storage.
LEMMA LinkedStays ==
    ASSUME NEW p \in Process, Linked(p), Steady(p), pc'[p] \in {"sync", "clear"} \cup Over,
           NEW ns, Touches(ns), ns \cap Evidence = {},
           "pending" \notin ns \/ kept.receipt = {Receipt(p)}
    PROVE  Linked(p)' /\ (kept.receipt = {Receipt(p)} => kept'.receipt = {Receipt(p)'})
<1>1. pc[p] \in Closed BY DEF Linked, Closed
<1>2. Owns(p)' /\ events'[p] = events[p] /\ poisoned'[p] = poisoned[p] /\ Receipt(p)' = Receipt(p)
  BY <1>1 DEF Steady, Linked, Receipt
<1>3. seen'.receipt = Receipt(p) /\ (kept'.receipt = kept.receipt \/ kept'.receipt = {Receipt(p)})
  BY DEF Touches, Linked, Evidence, File
<1>4. Only("events", Holds(events[p]))' /\ Only("frozen", Holds(Whole))'
  BY <1>2, OnlyStays DEF Linked, Evidence, File, Only
<1>5. kept'.receipt = {Receipt(p)} \/ Pending'
  BY <1>3, OnlyStays DEF Linked, Pending, File
<1> QED BY <1>2, <1>3, <1>4, <1>5 DEF Linked

\* A mark by somebody else does not disturb the owner.
LEMMA StageStays ==
    ASSUME Disk, NEW p \in Process, Owns(p), Steady(p), pc'[p] = pc[p], done'[p] = done[p],
           poisoned'[p] = poisoned[p], events'[p] = events[p], Touches({"incomplete"})
    PROVE  Stage(p)' /\ (Linked(p) => Linked(p)')
<1>0. Stage(p) BY DEF Disk
<1>1. /\ \A n \in File : \A x : n # "incomplete" /\ Only(n, x) => Only(n, x)'
      /\ \A n \in File : n # "incomplete" => seen'[n] = seen[n] /\ kept'[n] \in {kept[n], {seen[n]}}
  BY DEF Touches, Only
<1>2. Linked(p) => Linked(p)' /\ (kept.receipt = {Receipt(p)} => kept'.receipt = {Receipt(p)'})
  BY LinkedStays DEF Linked, Evidence
<1>3. Receipt(p)' = Receipt(p) BY DEF Receipt
<1> QED BY <1>0, <1>1, <1>2, <1>3 DEF Stage, File, Pending, NoReceipt

\* It is enough to look at the owner.
LEMMA OwnerDisk ==
    ASSUME Single', NEW p \in Process, Owns(p)', NoReceipt' \/ Linked(p)', Stage(p)', Bound'
    PROVE  Disk'
BY DEF Single, Disk

\* A step of the owner before the link.
LEMMA MiddleDisk ==
    ASSUME Disk, Single', NEW p \in Process, Owns(p)', UNCHANGED reader, NoReceipt,
           NEW ns, Touches(ns), "receipt" \notin ns, NoReceipt' => Stage(p)'
    PROVE  Disk'
<1>1. NoReceipt' BY OnlyStays DEF NoReceipt, File
<1>2. Bound' BY BoundWaits DEF Disk
<1> QED BY <1>1, <1>2, OwnerDisk

\* The reservation.
LEMMA ReservationDisk ==
    ASSUME IInv, Disk, NEW p \in Process, CreateFile(p)
    PROVE  Disk'
<1>0. Files /\ Control(p) BY DEF IInv, TypeOK
<1>1. /\ Touches({pc[p]}) /\ pc[p] \in Early
      /\ \/ pc'[p] = "mark"
         \/ /\ pc'[p] = NextFile[pc[p]] /\ seen'[pc[p]] = Holds(FirstText[pc[p]])
            /\ pc[p] \in {"pending", "tmp"} => \A n \in File : kept'[n] = {seen'[n]}
  BY <1>0, CreateWrites DEF IInv, TypeOK
<1>2. Owns(p) /\ Single' /\ Control(p)' /\ Owns(p)'
  BY <1>0, <1>1, StepControl DEF IInv, Control, Steady, Owns, Early, Work
<1>3. Stage(p) /\ NoReceipt BY <1>1, <1>2 DEF Disk, Stage
<1>4. UNCHANGED reader BY DEF CreateFile
<1>5. pc[p] # "receipt" BY <1>1 DEF Early
<1>6. ASSUME NoReceipt' PROVE Stage(p)'
  <2> USE DEF Stage, Early, Middle, Over
  <2>1. CASE pc'[p] = "mark"
    BY <1>2, <2>1 DEF Control
  <2>2. CASE pc[p] = "pending" /\ pc'[p] = NextFile[pc[p]]
    <3>1. pc'[p] = "frozen" /\ seen'.pending = Holds(Whole) /\ kept'.pending = {Holds(Whole)}
      BY <1>1, <2>2 DEF NextFile, FirstText, File
    <3> QED BY <1>2, <1>6, <3>1 DEF Control, Pending, Only
  <2>3. CASE pc[p] = "frozen" /\ pc'[p] = NextFile[pc[p]]
    <3>1. pc'[p] = "events" /\ seen'.frozen = Holds(Whole) /\ Pending'
      BY <1>1, <1>3, <2>3, OnlyStays DEF NextFile, FirstText, File, Pending
    <3> QED BY <1>2, <1>6, <3>1 DEF Control
  <2>4. CASE pc[p] = "events" /\ pc'[p] = NextFile[pc[p]]
    <3>1. pc'[p] = "tmp" /\ seen'.events.there
      BY <1>1, <2>4, ShapeHolds DEF NextFile
    <3>2. Pending' /\ seen'.frozen = Holds(Whole)
      <4>1. "pending" \in File \ {"events"} /\ "frozen" \in File \ {"events"} BY DEF File
      <4>2. Pending /\ seen.frozen = Holds(Whole) BY <1>3, <2>4
      <4>3. Pending' BY <1>1, <2>4, <4>1, <4>2, OnlyStays DEF Pending
      <4> QED BY <1>1, <2>4, <4>1, <4>2, <4>3 DEF Touches
    <3> QED BY <1>2, <1>6, <3>1, <3>2 DEF Control
  <2>5. CASE pc[p] = "tmp" /\ pc'[p] = NextFile[pc[p]]
    <3>1. pc'[p] = "reserve" /\ \A n \in File : kept'[n] = {seen'[n]}
      BY <1>1, <2>5 DEF NextFile
    <3>2. Pending' /\ seen'.frozen = Holds(Whole) /\ seen'.events.there
      <4>1. "pending" \in File \ {"tmp"} /\ "frozen" \in File \ {"tmp"} /\ "events" \in File \ {"tmp"}
        BY DEF File
      <4>2. Pending /\ seen.frozen = Holds(Whole) /\ seen.events.there BY <1>3, <2>5
      <4>3. Pending' BY <1>1, <2>5, <4>1, <4>2, OnlyStays DEF Pending
      <4> QED BY <1>1, <2>5, <4>1, <4>2, <4>3 DEF Touches
    <3> QED BY <1>2, <1>6, <3>1, <3>2 DEF Control, Only, File
  <2> QED BY <1>1, <2>1, <2>2, <2>3, <2>4, <2>5
<1> QED BY <1>1, <1>2, <1>3, <1>4, <1>5, <1>6, MiddleDisk

\* The steps that write nothing.
LEMMA QuietDisk ==
    ASSUME IInv, Disk, NEW p \in Process, Begin(p) \/ Act(p) \/ Finalize(p) \/ CheckEvents(p)
    PROVE  Disk'
<1>0. Files /\ Control(p) /\ UNCHANGED <<seen, kept, reader>>
  BY DEF IInv, TypeOK, Begin, Act, Finalize, CheckEvents, directory
<1>1. pc[p] \in Middle /\ pc'[p] \in {"act", "append", "check", "receipt", "mark"} /\ poisoned' = poisoned
  BY DEF IInv, TypeOK, Begin, Act, Finalize, CheckEvents, Goto, Step, Middle
<1>2. Owns(p) /\ Single' /\ Control(p)' /\ Owns(p)'
  BY <1>0, <1>1, StepControl DEF IInv, Control, Steady, Owns, Middle, Work
<1>3. Stage(p) /\ NoReceipt BY <1>1, <1>2 DEF Disk, Stage
<1>4. Touches({}) BY <1>0 DEF Touches, Files
<1>5. Stage(p)'
  BY <1>0, <1>1, <1>2, <1>3 DEF Stage, Control, Middle, Early, Over, Pending, Only, NoReceipt
<1> QED BY <1>0, <1>2, <1>3, <1>4, <1>5, MiddleDisk

\* The events.
LEMMA AppendDisk ==
    ASSUME IInv, Disk, NEW p \in Process, Append1(p)
    PROVE  Disk'
<1>0. Files /\ Control(p) /\ UNCHANGED reader
  BY DEF IInv, TypeOK, Append1
<1>1. /\ pc[p] = "append" /\ pc'[p] \in {"run", "append", "spoiled"}
      /\ Touches({"events"}) /\ seen'.events.there /\ (pc'[p] = "spoiled" \/ kept'.events = {seen'.events})
  BY <1>0, AppendWrites DEF IInv, TypeOK, Append1, Goto
<1>2. Owns(p) /\ Single' /\ Control(p)' /\ Owns(p)'
  BY <1>0, <1>1, StepControl DEF IInv, Control, Steady, Owns, Middle, Work
<1>3. Stage(p) /\ NoReceipt BY <1>1, <1>2 DEF Disk, Stage, Middle
<1>4. Pending' /\ Only("frozen", Holds(Whole))' /\ seen'.frozen = Holds(Whole)
  BY <1>1, <1>3, OnlyStays DEF Stage, Middle, Pending, File, Only
<1>5. ASSUME NoReceipt' PROVE Stage(p)'
  BY <1>1, <1>2, <1>4, <1>5 DEF Stage, Control, Middle, Early, Over
<1> QED BY <1>0, <1>1, <1>2, <1>3, <1>5, MiddleDisk

\* The mark after an event that was lost.
LEMMA SpoiledDisk ==
    ASSUME IInv, Disk, NEW p \in Process, MarkSpoiled(p)
    PROVE  Disk'
<1>0. Files /\ Control(p) /\ UNCHANGED reader
  BY DEF IInv, TypeOK, MarkSpoiled, Mark
<1>1. /\ pc[p] = "spoiled" /\ pc'[p] \in {"run", "exit"} /\ poisoned[p] /\ poisoned' = poisoned
      /\ Touches({"incomplete"})
  BY <1>0, MarkWrites DEF IInv, TypeOK, MarkSpoiled, Mark, Goto, Control
<1>2. Owns(p) /\ Single' /\ Control(p)' /\ Owns(p)'
  BY <1>0, <1>1, StepControl DEF IInv, Control, Steady, Owns, Middle, Work
<1>3. Stage(p) /\ NoReceipt BY <1>1, <1>2 DEF Disk, Stage, Middle
<1>4. Pending' /\ Only("frozen", Holds(Whole))' /\ seen'.frozen = Holds(Whole) /\ seen'.events.there
  BY <1>1, <1>3, OnlyStays DEF Stage, Middle, Pending, File, Only, Touches
<1>5. ASSUME NoReceipt' PROVE Stage(p)'
  BY <1>1, <1>2, <1>4, <1>5 DEF Stage, Control, Middle, Early, Over
<1> QED BY <1>0, <1>1, <1>2, <1>3, <1>5, MiddleDisk

\* The receipt, and the second look at the stream.
LEMMA ReceiptDisk ==
    ASSUME IInv, Disk, NEW p \in Process, WriteReceipt(p) \/ RecheckEvents(p)
    PROVE  Disk'
<1>0. Files /\ Control(p) /\ UNCHANGED <<reader, events, poisoned>>
  BY DEF IInv, TypeOK, WriteReceipt, RecheckEvents
<1>1. /\ pc[p] \in {"receipt", "recheck"} /\ Touches({"tmp"})
      /\ \/ pc'[p] = "mark"
         \/ pc'[p] = "recheck" /\ seen'.tmp = Receipt(p)
         \/ /\ pc[p] = "recheck" /\ pc'[p] = "link" /\ seen' = seen
            /\ seen.events.text = events[p]
  <2>1. CASE WriteReceipt(p)
    BY <1>0, <2>1, ReceiptWrites DEF IInv, TypeOK, WriteReceipt
  <2>2. CASE RecheckEvents(p)
    BY <1>0, <2>2 DEF IInv, TypeOK, RecheckEvents, Step, Goto, Touches, Files, directory
  <2> QED BY <2>1, <2>2
<1>2. Owns(p) /\ Single' /\ Control(p)' /\ Owns(p)'
  BY <1>0, <1>1, StepControl DEF IInv, Control, Steady, Owns, Middle, Work
<1>3. Stage(p) /\ NoReceipt BY <1>1, <1>2 DEF Disk, Stage, Middle
<1>4. /\ Pending' /\ Only("frozen", Holds(Whole))' /\ seen'.frozen = Holds(Whole)
      /\ seen'.events = seen.events /\ seen.events.there /\ kept'.events = {seen.events}
  <2>1. Pending /\ Only("frozen", Holds(Whole)) /\ Only("events", seen.events) /\ seen.events.there
    BY <1>0, <1>1, <1>3 DEF Stage, Middle, Control, Only
  <2>2. Pending' /\ Only("frozen", Holds(Whole))'
    BY <1>1, <2>1, OnlyStays DEF Pending, File
  <2>3. seen'.events = seen.events /\ kept'.events = {seen.events}
    BY <1>1, <2>1 DEF Touches, Only, File
  <2> QED BY <2>1, <2>2, <2>3 DEF Only
<1>5. pc'[p] = "link" => seen'.tmp = Receipt(p) /\ seen'.events = Holds(events[p])
  <2>1. Shape(seen.events) BY <1>0 DEF Files, File
  <2>2. seen.events = Holds(seen.events.text) BY <1>4, <2>1, ShapeAbsent DEF Shape
  <2> QED BY <1>1, <1>3, <1>4, <2>2 DEF Stage
<1>6. Receipt(p)' = Receipt(p) /\ events'[p] = events[p] BY <1>0 DEF Receipt
<1>7. ASSUME NoReceipt' PROVE Stage(p)'
  BY <1>1, <1>2, <1>4, <1>5, <1>6, <1>7 DEF Stage, Control, Middle, Early, Over
<1> QED BY <1>0, <1>1, <1>2, <1>3, <1>7, MiddleDisk

\* The link: the stream and the frozen input are synced already, the sentinel is there.
LEMMA LinkDisk ==
    ASSUME IInv, Disk, NEW p \in Process, Link(p)
    PROVE  Disk'
<1>0. Files /\ Control(p) /\ UNCHANGED <<reader, events, poisoned>> /\ pc[p] = "link"
  BY DEF IInv, TypeOK, Link
<1>1. Owns(p) /\ Single' /\ Control(p)' /\ Owns(p)'
  BY <1>0, StepControl DEF IInv, Control, Steady, Owns, Middle, Work
<1>2. Stage(p) /\ NoReceipt BY <1>0, <1>1 DEF Disk, Stage, Middle
<1>3. /\ Pending /\ Only("frozen", Holds(Whole)) /\ Only("events", Holds(events[p]))
      /\ seen.tmp = Receipt(p) /\ ~poisoned[p] /\ Sound(events[p])
  BY <1>0, <1>2 DEF Stage, Middle, Control, Only
<1>4. /\ Touches({"receipt", "tmp"}) /\ kept'.receipt \subseteq {Absent, Receipt(p)}
      /\ \/ pc'[p] = "sync" /\ seen'.receipt = Receipt(p)
         \/ pc'[p] = "mark" /\ (seen'.receipt = Receipt(p) \/ UNCHANGED <<seen, kept>>)
  BY <1>0, <1>2, <1>3, LinkWrites DEF IInv, TypeOK, NoReceipt, Only
<1>5. Pending' /\ Only("frozen", Holds(Whole))' /\ Only("events", Holds(events[p]))'
  <2>1. /\ "pending" \in File \ {"receipt", "tmp"} /\ "frozen" \in File \ {"receipt", "tmp"}
        /\ "events" \in File \ {"receipt", "tmp"}
    BY DEF File
  <2>2. ASSUME NEW n \in File \ {"receipt", "tmp"}, NEW x, Only(n, x) PROVE Only(n, x)'
    BY <1>4, <2>2, OnlyStays
  <2>3. seen'.events = Holds(events[p]) /\ kept'.events = {Holds(events[p])}
    BY <1>3, <1>4, <2>1 DEF Touches, Only
  <2> QED BY <1>0, <1>3, <2>1, <2>2, <2>3 DEF Pending, Only
<1>6. Receipt(p)' = Receipt(p) /\ events'[p] = events[p] /\ poisoned'[p] = poisoned[p]
  BY <1>0 DEF Receipt
<1>7. seen'.receipt = Receipt(p) => Linked(p)'
  BY <1>1, <1>3, <1>4, <1>5, <1>6 DEF Linked, Only, Over
<1>8. NoReceipt' \/ Linked(p)'
  BY <1>2, <1>4, <1>7 DEF NoReceipt, Only
<1>9. Stage(p)'
  BY <1>1, <1>4, <1>5, <1>7 DEF Stage, Control, Early, Middle, Over
<1>10. Bound' BY <1>0, <1>2, BoundWaits DEF Disk
<1> QED BY <1>1, <1>8, <1>9, <1>10, OwnerDisk

\* The sync of the receipt.
LEMMA SyncDisk ==
    ASSUME IInv, Disk, NEW p \in Process, SyncReceipt(p)
    PROVE  Disk'
<1>0. Files /\ Control(p) /\ UNCHANGED <<reader, seen, events, poisoned>> /\ pc[p] = "sync"
  BY DEF IInv, TypeOK, SyncReceipt
<1>1. Owns(p) /\ Single' /\ Control(p)' /\ Owns(p)' /\ Steady(p)
  BY <1>0, StepControl DEF IInv, Control, Steady, Owns, Work
<1>2. Stage(p) /\ Linked(p) /\ Pending BY <1>0, <1>1 DEF Disk, Stage
<1>3. /\ Touches({})
      /\ \/ pc'[p] = "clear" /\ \A n \in File : kept'[n] = {seen'[n]}
         \/ pc'[p] = "mark"
  BY <1>0, SyncWrites DEF IInv, TypeOK
<1>4. Linked(p)'
  BY <1>1, <1>2, <1>3, LinkedStays DEF Over
<1>5. Receipt(p)' = Receipt(p)
  BY <1>0 DEF Receipt
<1>6. Stage(p)'
  BY <1>0, <1>1, <1>2, <1>3, <1>4, <1>5 DEF Stage, Control, Early, Middle, Over, Linked, File
<1>7. Bound'
  <2>1. kept'.receipt \in {kept.receipt, {seen.receipt}} BY <1>3 DEF Touches, File
  <2> QED BY <1>0, <2>1, BoundStays DEF Disk
<1> QED BY <1>1, <1>4, <1>6, <1>7, OwnerDisk

\* The sentinel goes after the receipt cannot be lost.
LEMMA ClearDisk ==
    ASSUME IInv, Disk, NEW p \in Process, ClearPending(p)
    PROVE  Disk'
<1>0. Files /\ Control(p) /\ UNCHANGED <<reader, events, poisoned>> /\ pc[p] = "clear"
  BY DEF IInv, TypeOK, ClearPending
<1>1. Owns(p) /\ Single' /\ Control(p)' /\ Owns(p)' /\ Steady(p)
  BY <1>0, StepControl DEF IInv, Control, Steady, Owns, Work
<1>2. Stage(p) /\ Linked(p) /\ kept.receipt = {Receipt(p)} BY <1>0, <1>1 DEF Disk, Stage
<1>3. /\ Touches({"pending"})
      /\ \/ /\ pc'[p] = "exit" /\ seen'.pending = Absent /\ \A n \in File : kept'[n] = {seen'[n]}
         \/ pc'[p] = "mark" /\ done'[p] = "failed"
  BY <1>0, ClearWrites DEF IInv, TypeOK
<1>4. Linked(p)' /\ kept'.receipt = {Receipt(p)'}
  BY <1>1, <1>2, <1>3, LinkedStays DEF Over, Evidence
<1>5. Stage(p)'
  BY <1>1, <1>3, <1>4 DEF Stage, Control, Early, Middle, Over, Only, File
<1>6. Bound'
  <2>1. kept'.receipt \in {kept.receipt, {seen.receipt}} /\ \A n \in Evidence : seen'[n] = seen[n]
    BY <1>3 DEF Touches, File, Evidence
  <2> QED BY <1>0, <2>1, BoundStays DEF Disk
<1> QED BY <1>1, <1>4, <1>5, <1>6, OwnerDisk

\* The owner marks the attempt, or is killed.
LEMMA EndDisk ==
    ASSUME IInv, Disk, NEW p \in Process, Owns(p), MarkIncomplete(p) \/ Kill(p)
    PROVE  Disk'
<1>0. Files /\ Control(p) /\ UNCHANGED <<reader, events, poisoned, done>>
  BY DEF IInv, TypeOK, MarkIncomplete, Mark, Kill
<1>1. /\ pc[p] \notin {"start", "exit", "dead"} /\ pc'[p] \in {"exit", "dead"} /\ Touches({"incomplete"})
  <2>1. CASE MarkIncomplete(p)
    BY <1>0, <2>1, MarkWrites DEF IInv, TypeOK, MarkIncomplete, Mark, Goto
  <2>2. CASE Kill(p)
    BY <1>0, <2>2 DEF IInv, TypeOK, Kill, Goto, Touches, Files, directory
  <2> QED BY <2>1, <2>2
<1>2. Single' /\ Control(p)' /\ Owns(p)' /\ Steady(p)
  BY StepControl DEF IInv, Steady, Work
<1>3. Stage(p) BY DEF Disk
<1>4. NoReceipt \/ Linked(p) BY DEF Disk, IInv, Single, Linked
<1>5. NoReceipt' \/ Linked(p)'
  <2>1. CASE NoReceipt
    BY <1>1, <2>1, OnlyStays DEF NoReceipt, File
  <2>2. CASE Linked(p)
    BY <1>1, <1>2, <2>2, LinkedStays DEF Over, Evidence
  <2> QED BY <1>4, <2>1, <2>2
<1>6. Stage(p)'
  BY <1>0, <1>1, <1>2 DEF Stage, Control, Early, Middle, Over
<1>7. Bound'
  <2>1. kept'.receipt \in {kept.receipt, {seen.receipt}} /\ \A n \in Evidence : seen'[n] = seen[n]
    BY <1>1 DEF Touches, File, Evidence
  <2> QED BY <1>0, <2>1, BoundStays DEF Disk
<1> QED BY <1>2, <1>5, <1>6, <1>7, OwnerDisk

\* A process that is not the owner: it becomes the owner, is refused, or ends.
LEMMA StrangerDisk ==
    ASSUME IInv, Disk, NEW p \in Process, ~Owns(p), Reserve(p) \/ MarkIncomplete(p) \/ Kill(p)
    PROVE  Disk'
<1>0. Files /\ Control(p) /\ UNCHANGED reader
  BY DEF IInv, TypeOK, Reserve, MarkIncomplete, Mark, Kill
<1>1. Touches({"incomplete"})
  <2>1. CASE MarkIncomplete(p)
    BY <1>0, <2>1, MarkWrites DEF MarkIncomplete
  <2>2. CASE Kill(p) \/ Reserve(p)
    BY <1>0, <2>2 DEF Kill, Reserve, Touches, Files, directory
  <2> QED BY <2>1, <2>2
<1>2. Single' /\ Control(p)' /\ Apart(p) /\ \A q \in Process : Steady(q)
  BY StepControl, EverySteady DEF IInv, Work, Next
<1>3. Bound'
  <2>1. kept'.receipt \in {kept.receipt, {seen.receipt}} /\ \A n \in Evidence : seen'[n] = seen[n]
    BY <1>1 DEF Touches, File, Evidence
  <2> QED BY <1>0, <2>1, BoundStays DEF Disk
<1>4. NoReceipt => NoReceipt' BY <1>1, OnlyStays DEF NoReceipt, File
<1>5. \A q \in Process \ {p} : (Owns(q) => Stage(q)' /\ (Linked(q) => Linked(q)')) /\ (Owns(q)' => Owns(q))
  BY <1>1, <1>2, StageStays DEF Apart, Owns
<1>6. NoReceipt' \/ \E q \in Process : Linked(q)'
  BY <1>4, <1>5 DEF Disk, Linked
<1>7. Owns(p)' => Stage(p)'
  <2>1. Owns(p)' => ~made /\ pc'[p] = "pending" /\ done'[p] = ""
    BY <1>0 DEF IInv, TypeOK, Owns, Control, Reserve, MarkIncomplete, Mark, Kill, Goto, Return
  <2>2. ~made => NoReceipt
    BY DEF IInv, Single, Disk, Linked, Owns
  <2> QED BY <1>4, <2>1, <2>2 DEF Stage, Early, Middle
<1> QED BY <1>3, <1>5, <1>6, <1>7 DEF Disk

\* The power fails: of a published receipt either the receipt or the sentinel is left.
LEMMA PowerDisk ==
    ASSUME IInv, Disk, PowerLoss
    PROVE  Disk'
<1>0. Files /\ Single' BY EverySteady DEF IInv, TypeOK, Next
<1>1. \A n \in File : seen'[n] \in kept[n] /\ kept'[n] = {seen'[n]}
  BY <1>0, PowerLossWrites
<1>2. /\ UNCHANGED <<made, done, events, poisoned, got, verdict>> /\ at' = "idle"
      /\ \A p \in Process : pc'[p] = IF pc[p] \in {"start", "exit"} THEN pc[p] ELSE "dead"
  BY DEF PowerLoss
<1>3. \A n \in File : \A x : Only(n, x) => Only(n, x)'
  BY <1>1 DEF Only
<1>4. ASSUME NEW p \in Process, Linked(p), seen'.receipt = Receipt(p)
      PROVE  Linked(p)' /\ kept'.receipt = {Receipt(p)'}
  <2>1. kept'.receipt = {Receipt(p)} BY <1>1, <1>4 DEF File
  <2>2. Only("events", Holds(events[p]))' /\ Only("frozen", Holds(Whole))'
    BY <1>2, <1>3, <1>4 DEF Linked, File, Only
  <2>3. Owns(p)' /\ pc'[p] \in Over /\ Receipt(p)' = Receipt(p)
    BY <1>2, <1>4 DEF Linked, Owns, Over, Receipt
  <2> QED BY <1>2, <1>4, <2>1, <2>2, <2>3 DEF Linked
<1>5. NoReceipt \/ seen'.receipt = Absent => NoReceipt'
  BY <1>1 DEF NoReceipt, Only, File
<1>6. NoReceipt' \/ \E p \in Process : Linked(p)'
  <2>1. CASE NoReceipt BY <1>5, <2>1
  <2>2. ASSUME NEW p \in Process, Linked(p) PROVE NoReceipt' \/ Linked(p)'
    <3>1. seen'.receipt \in {Absent, Receipt(p)} BY <1>1, <2>2 DEF Linked, File
    <3> QED BY <1>4, <1>5, <2>2, <3>1
  <2> QED BY <2>1, <2>2 DEF Disk
<1>7. ASSUME NEW p \in Process, Owns(p)' PROVE Stage(p)'
  <2>1. Owns(p) /\ pc'[p] \in {"exit", "dead"} /\ done'[p] = done[p]
    BY <1>2, <1>7 DEF Owns
  <2>2. ASSUME done[p] = "final" PROVE Linked(p)' /\ kept'.receipt = {Receipt(p)'} /\ Only("pending", Absent)'
    <3>1. Linked(p) /\ kept.receipt = {Receipt(p)} /\ Only("pending", Absent)
      BY <2>1, <2>2 DEF Disk, Stage
    <3>2. seen'.receipt = Receipt(p) BY <1>1, <3>1 DEF File
    <3> QED BY <1>3, <1>4, <3>1, <3>2 DEF File
  <2> QED BY <2>1, <2>2 DEF Stage, Early, Middle
<1>8. Bound'
  <2>1. CASE verdict # "ready" BY <1>2, <2>1 DEF Bound
  <2>2. CASE verdict = "ready"
    <3>1. PICK p \in Process : Linked(p) BY <2>2 DEF Disk, Bound
    <3>2. seen.receipt = Receipt(p) /\ kept.receipt = {seen.receipt} /\ \A n \in Evidence : got[n] = seen[n]
      BY <2>2, <3>1 DEF Disk, Bound, Linked
    <3>3. \A n \in Evidence : kept[n] = {seen[n]}
      BY <3>1, <3>2 DEF Linked, Only, Evidence
    <3>4. \A n \in Evidence : seen'[n] = seen[n] /\ kept'[n] = {seen[n]}
      BY <1>1, <3>3 DEF Evidence, File
    <3>5. seen.receipt # Absent BY <3>2, ShapeAbsent, ShapeHolds DEF Receipt
    <3> QED BY <1>2, <3>2, <3>4, <3>5 DEF Bound, NoReceipt, Only, Evidence
  <2> QED BY <2>1, <2>2
<1> QED BY <1>6, <1>7, <1>8 DEF Disk

\* A step that touches neither the directory nor a process.
LEMMA StillDisk ==
    ASSUME Disk, UNCHANGED <<directory, context>>, Bound'
    PROVE  Disk'
<1>1. UNCHANGED <<made, seen, kept, pc, done, events, poisoned>> BY DEF directory, context
<1>2. /\ NoReceipt' <=> NoReceipt
      /\ Pending' <=> Pending
      /\ \A n \in File : \A x : Only(n, x)' <=> Only(n, x)
  BY <1>1 DEF NoReceipt, Pending, Only
<1>3. ASSUME NEW p \in Process
      PROVE  /\ Receipt(p)' = Receipt(p)
             /\ Owns(p)' <=> Owns(p)
  BY <1>1 DEF Receipt, Owns
<1>4. ASSUME NEW p \in Process PROVE Linked(p)' <=> Linked(p)
  BY <1>1, <1>2, <1>3 DEF Linked, Only
<1>5. ASSUME NEW p \in Process PROVE Stage(p)' <=> Stage(p)
  BY <1>1, <1>2, <1>3, <1>4 DEF Stage, Only
<1> QED BY <1>2, <1>3, <1>4, <1>5 DEF Disk

\* The reader: where it says ready the sentinel is gone, so the receipt cannot be lost,
\* and what it has read is what the receipt binds.
LEMMA LookDisk ==
    ASSUME IInv, Disk, Look
    PROVE  Disk'
<1>0. UNCHANGED <<directory, context>>
  BY DEF Look, OpenRun, ProbeIncomplete, ProbePending, ReadEvidence, ReadFrozen, Answer,
     Conclude, Read
<1>1. seen' = seen /\ kept' = kept /\ (NoReceipt <=> NoReceipt')
  BY <1>0 DEF directory, NoReceipt, Only
<1>2. CASE OpenRun
  <2>1. verdict' = "" /\ got'.receipt = Absent
    BY <1>2 DEF OpenRun, IInv, TypeOK, Evidence
  <2> QED BY <1>0, <2>1, ShapeAbsent, StillDisk DEF Bound
<1>3. CASE ProbeIncomplete
  <2>1. verdict' # "ready" /\ got' = got /\ (at' # "idle" => at # "idle")
    BY <1>3 DEF ProbeIncomplete, Answer, Read, IInv, Reading
  <2> QED BY <1>0, <1>1, <2>1, StillDisk DEF Bound, Disk
<1>4. CASE ProbePending
  <2>1. /\ got' = got /\ at = "pending"
        /\ verdict' = "ready" => code = "ready" /\ ~seen.pending.there /\ at' = "idle"
    BY <1>4 DEF ProbePending, Answer, Read, IInv, Reading
  <2>2. CASE verdict' # "ready"
    BY <1>0, <1>1, <2>1, <2>2, StillDisk DEF Bound, Disk
  <2>3. CASE verdict' = "ready"
    <3>1. /\ \A n \in Evidence : got[n].there
          /\ Verified(got.events, got.receipt, got.frozen) /\ got.receipt = seen.receipt
      BY <2>1, <2>3 DEF IInv, Reading, Disk, Bound, Evidence
    <3>2. PICK p \in Process : Linked(p)
      BY <3>1, ShapeAbsent DEF Disk, NoReceipt, Only, Evidence
    <3>3. seen.receipt = Receipt(p) /\ kept.receipt = {Receipt(p)}
      BY <2>1, <2>3, <3>2, ShapeHolds DEF Linked, Pending, Only
    <3>4. got.events.text = events[p] /\ got.frozen.text = Whole
      BY <3>1, <3>3, ShapeHolds DEF Verified, Receipt
    <3>5. got.events = Holds(events[p]) /\ got.frozen = Holds(Whole)
      BY <3>1, <3>4, ShapeAbsent DEF IInv, TypeOK, Shape, Evidence
    <3>6. got.events = seen.events /\ got.frozen = seen.frozen
      BY <3>2, <3>5 DEF Linked, Only
    <3>7. ~NoReceipt BY <3>1, ShapeAbsent DEF NoReceipt, Only, Evidence
    <3> QED BY <1>0, <1>1, <2>1, <3>1, <3>3, <3>6, <3>7, StillDisk DEF Bound, Evidence
  <2> QED BY <2>2, <2>3
<1>5. CASE ReadEvidence
  <2>1. /\ at \in {"events", "receipt"} /\ verdict' = verdict
        /\ got' = [got EXCEPT ![at] = seen[at]]
    BY <1>5 DEF ReadEvidence, NextEvidence
  <2>2. verdict # "ready" /\ got'.receipt \in {got.receipt, seen.receipt}
    BY <2>1 DEF IInv, TypeOK, Reading, Evidence
  <2> QED BY <1>0, <1>1, <2>1, <2>2, StillDisk DEF Bound, Disk
<1>6. CASE ReadFrozen
  <2>1. at = "frozen" /\ verdict' = verdict /\ got' = [got EXCEPT !.frozen = seen.frozen]
    BY <1>6 DEF ReadFrozen
  <2>2. verdict # "ready" /\ got'.receipt = got.receipt
    BY <2>1 DEF IInv, TypeOK, Reading, Evidence
  <2> QED BY <1>0, <1>1, <2>1, <2>2, StillDisk DEF Bound, Disk
<1> QED BY <1>2, <1>3, <1>4, <1>5, <1>6 DEF Look

\* Every step keeps Disk, as long as there is no damage.
LEMMA DiskKeeps ==
    ASSUME IInv, Disk, [Next]_vars, damage' = 0
    PROVE  Disk'
<1>1. ASSUME NEW p \in Process, Work(p) PROVE Disk'
  <2>1. ~Owns(p) => Reserve(p) \/ MarkIncomplete(p)
    BY <1>1 DEF IInv, TypeOK, Owns, Control, Work, CreateFile, NextFile, Begin, Act, Append1,
       MarkSpoiled, Finalize,
       CheckEvents, WriteReceipt, RecheckEvents, Link, SyncReceipt, ClearPending, Over
  <2>2. Reserve(p) => ~Owns(p) BY DEF Reserve, Owns
  <2> QED BY <1>1, <2>1, <2>2, StrangerDisk, EndDisk, ReservationDisk, QuietDisk, AppendDisk,
     SpoiledDisk, ReceiptDisk,
      LinkDisk, SyncDisk, ClearDisk DEF Work
<1>2. ASSUME NEW p \in Process, Kill(p) PROVE Disk'
  BY <1>2, StrangerDisk, EndDisk
<1>3. CASE Elsewhere \/ UNCHANGED vars
  <2>1. UNCHANGED <<directory, context, reader>> BY <1>3 DEF Elsewhere, vars
  <2>2. Bound' BY <2>1 DEF Disk, Bound, directory, reader, NoReceipt, Only
  <2> QED BY <2>1, <2>2, StillDisk
<1>4. ~Damage
  <2>1. damage \in Nat BY DEF IInv, TypeOK
  <2> QED BY <2>1 DEF Damage
<1> QED BY <1>1, <1>2, <1>3, <1>4, PowerDisk, LookDisk DEF Next

-----------------------------------------------------------------------------
(* what is observed *)

\* No other process reads the captured state of p.
ApartHands(p) == \A q \in Process \ {p} : target'[q] = target[q] /\ before'[q] = before[q]

\* A stream that takes the line of Append still follows.
LEMMA LineFollows ==
    ASSUME NEW p \in Process, Observed(p), head \in [Repo -> Nat]
    PROVE  NextLine(p) \in Lines /\ Chained(Append(events[p], NextLine(p)))
<1> DEFINE es == events[p]
           r == target[p]
           n == Len(es)
           moved == {i \in 1..n : LatestOf(es, n, r, i) /\ es[i].after # before[p]}
           line == NextLine(p)
<1>1. es \in Seq(Lines) /\ r \in Repo /\ before[p] \in Nat /\ Chained(es) /\ n \in Nat
  BY DEF Observed
<1>2. \A i \in 1..n : es[i] \in Lines
  BY <1>1
<1>3. \A i, j \in 1..n : LatestOf(es, n, r, i) /\ LatestOf(es, n, r, j) => i = j
  <2> SUFFICES ASSUME NEW i \in 1..n, NEW j \in 1..n, LatestOf(es, n, r, i), LatestOf(es, n, r, j), i < j
               PROVE  FALSE
    BY <1>1
  <2> QED BY <1>1 DEF LatestOf
<1>4. line.repo = r /\ line \in Lines /\ \A i \in 1..n : LatestOf(es, n, r, i) => line.before = es[i].after
  <2>1. CASE moved # {}
    <3>1. PICK k : k \in moved /\ line = Line(r, es[k].after, before[p])
      BY <2>1 DEF NextLine
    <3> QED BY <1>1, <1>2, <1>3, <3>1 DEF Line, Lines
  <2>2. CASE moved = {}
    <3>1. line = Line(r, before[p], head[r])
      BY <2>2 DEF NextLine
    <3>2. \A i \in 1..n : LatestOf(es, n, r, i) => es[i].after = before[p]
      BY <2>2
    <3> QED BY <1>1, <3>1, <3>2 DEF Line, Lines
  <2> QED BY <2>1, <2>2
<1>5. Chained(Append(es, line))
  <2> DEFINE fs == Append(es, line)
  <2>1. Len(fs) = n + 1 /\ fs[n + 1] = line /\ \A i \in 1..n : fs[i] = es[i]
    BY <1>1, <1>4
  <2>2. ASSUME NEW m \in 0..n, NEW q, NEW i \in 1..m
        PROVE  LatestOf(fs, m, q, i) <=> LatestOf(es, m, q, i)
    <3>1. \A j \in 1..m : fs[j] = es[j]
      BY <1>1, <2>1
    <3>2. i \in 1..m /\ \A j \in i + 1..m : j \in 1..m
      BY <1>1
    <3> HIDE DEF fs, es
    <3> QED BY <3>1, <3>2 DEF LatestOf
  <2>3. ASSUME NEW j \in 1..Len(fs), NEW i \in 1..j - 1, LatestOf(fs, j - 1, fs[j].repo, i)
        PROVE  fs[j].before = fs[i].after
    <3>1. j - 1 \in 0..n /\ i \in 1..n
      BY <1>1, <2>1
    <3>2. LatestOf(es, j - 1, fs[j].repo, i) /\ fs[i] = es[i]
      BY <2>1, <2>2, <2>3, <3>1
    <3>3. CASE j = n + 1
      <4>1. j - 1 = n /\ fs[j] = line
        BY <1>1, <2>1, <3>3
      <4>2. LatestOf(es, n, r, i)
        BY <1>4, <3>2, <4>1
      <4> QED BY <1>4, <3>1, <3>2, <4>1, <4>2
    <3>4. CASE j # n + 1
      <4>1. j \in 1..n /\ fs[j] = es[j]
        BY <1>1, <2>1, <3>4
      <4> QED BY <1>1, <2>3, <3>2, <4>1 DEF Chained
    <3> QED BY <3>3, <3>4
  <2>4. Chained(fs)
    <3> HIDE DEF fs
    <3> QED BY <2>3 DEF Chained
  <2> QED BY <2>4
<1> QED BY <1>4, <1>5

\* What was observed by a run can be accounted for: no line is a torn one.
LEMMA ObservedSound ==
    ASSUME NEW p \in Process, Observed(p), events[p] # <<>>
    PROVE  Sound(events[p])
<1>1. events[p] \in Seq(Lines) /\ Chained(events[p])
  BY DEF Observed
<1>2. \A i \in DOMAIN events[p] : events[p][i] # TornLine
  BY <1>1, RepoAssumption DEF Lines, TornLine
<1> QED BY <1>1, <1>2 DEF Sound, ToSet

\* Every step keeps what is observed in order.
LEMMA ObservedKeeps ==
    ASSUME TypeOK, EndInv, [Next]_vars
    PROVE  /\ head' \in [Repo -> Nat]
           /\ target' = [p \in Process |-> target'[p]] /\ before' = [p \in Process |-> before'[p]]
           /\ \A p \in Process : Observed(p)'
<1> DEFINE Good == /\ head' \in [Repo -> Nat]
                   /\ target' = [p \in Process |-> target'[p]]
                   /\ before' = [p \in Process |-> before'[p]]
                   /\ \A p \in Process : Observed(p)'
<1>0. /\ head \in [Repo -> Nat] /\ \A q \in Process : Observed(q)
      /\ target = [q \in Process |-> target[q]] /\ before = [q \in Process |-> before[q]]
      /\ pc \in [Process -> Places] /\ events = [q \in Process |-> events[q]]
  BY DEF EndInv, TypeOK
<1>1. ASSUME NEW p \in Process, NEW l, pc' = [pc EXCEPT ![p] = l],
             l \notin {"start"} \cup Early \/ pc[p] \in {"start"} \cup Early,
             l \in {"run", "check"} => pc[p] \in {"run", "check"} \/ events[p] # <<>>,
             UNCHANGED <<target, before, events>>, head' \in [Repo -> Nat]
      PROVE  Good
  BY <1>0, <1>1 DEF Observed
<1>2. ASSUME UNCHANGED <<target, before, events, pc>>, head' \in [Repo -> Nat] PROVE Good
  BY <1>0, <1>2 DEF Observed
<1> USE DEF Early, Goto, Step
<1>3. ASSUME NEW p \in Process, CreateFile(p) PROVE Good
  <2>1. /\ pc[p] \in DOMAIN NextFile /\ UNCHANGED <<target, before, events, head>>
        /\ pc' = [pc EXCEPT ![p] = NextFile[pc[p]]] \/ pc' = [pc EXCEPT ![p] = "mark"]
    BY <1>3 DEF CreateFile
  <2>2. pc[p] \in Early /\ NextFile[pc[p]] \in {"frozen", "events", "tmp", "reserve"}
    <3>1. NextFile = [pending |-> "frozen", frozen |-> "events", events |-> "tmp", tmp |-> "reserve"]
      BY DEF NextFile
    <3>2. DOMAIN NextFile = Early
      BY <3>1
    <3>3. /\ NextFile["pending"] = "frozen" /\ NextFile["frozen"] = "events"
          /\ NextFile["events"] = "tmp" /\ NextFile["tmp"] = "reserve"
      BY <3>1
    <3> QED BY <2>1, <3>2, <3>3
  <2> QED BY <1>0, <1>1, <2>1, <2>2
<1>4. ASSUME NEW p \in Process, Reserve(p) PROVE Good
  <2>1. /\ pc[p] = "start" /\ UNCHANGED <<target, before, events, head>>
        /\ pc' = [pc EXCEPT ![p] = "pending"] \/ pc' = [pc EXCEPT ![p] = "mark"]
    BY <1>4 DEF Reserve
  <2> QED BY <1>0, <1>1, <2>1
<1>5. ASSUME NEW p \in Process, Begin(p) PROVE Good
  <2>1. PICK r \in Repo : /\ target' = [target EXCEPT ![p] = r]
                          /\ before' = [before EXCEPT ![p] = head[r]]
    BY <1>5 DEF Begin
  <2>2. pc' = [pc EXCEPT ![p] = "act"] /\ UNCHANGED <<head, events>>
    BY <1>5 DEF Begin
  <2> QED BY <1>0, <2>1, <2>2 DEF Observed
<1>6. ASSUME NEW p \in Process, Act(p) PROVE Good
  <2>1. pc' = [pc EXCEPT ![p] = "append"] /\ UNCHANGED <<target, before, events>>
    BY <1>6 DEF Act
  <2>2. head' \in [Repo -> Nat]
    BY <1>0, <1>6 DEF Act, Observed
  <2> QED BY <1>1, <2>1, <2>2
<1>7. ASSUME NEW p \in Process, Append1(p) PROVE Good
  <2>1. pc[p] = "append" /\ UNCHANGED <<head, target, before>>
    BY <1>7 DEF Append1
  <2>2. CASE /\ events' = [events EXCEPT ![p] = Append(@, NextLine(p))]
             /\ pc' = [pc EXCEPT ![p] = "run"] \/ pc' = [pc EXCEPT ![p] = "append"]
    <3>1. NextLine(p) \in Lines /\ Chained(Append(events[p], NextLine(p)))
      BY <1>0, LineFollows
    <3>2. events'[p] = Append(events[p], NextLine(p)) /\ \A q \in Process \ {p} : events'[q] = events[q]
      BY <1>0, <2>2
    <3>3. events[p] \in Seq(Lines)
      BY <1>0 DEF Observed
    <3>4. Append(events[p], NextLine(p)) \in Seq(Lines) /\ Append(events[p], NextLine(p)) # <<>>
      BY <3>1, <3>3
    <3>5. pc'[p] \in {"run", "append"} /\ \A q \in Process \ {p} : pc'[q] = pc[q]
      BY <1>0, <2>2
    <3>6. Observed(p)'
      BY <1>0, <2>1, <3>1, <3>2, <3>4, <3>5 DEF Observed
    <3>7. \A q \in Process \ {p} : Observed(q)'
      BY <1>0, <2>1, <3>2, <3>5 DEF Observed
    <3> QED BY <1>0, <2>1, <3>6, <3>7
  <2>3. CASE pc' = [pc EXCEPT ![p] = "spoiled"] /\ events' = events
    BY <1>0, <1>1, <2>1, <2>3
  <2> QED BY <1>7, <2>2, <2>3 DEF Append1
<1>8. ASSUME NEW p \in Process, MarkSpoiled(p) \/ MarkIncomplete(p) PROVE Good
  <2>1. /\ UNCHANGED <<head, target, before, events>>
        /\ \/ pc' = [pc EXCEPT ![p] = "exit"]
           \/ pc' = [pc EXCEPT ![p] = "run"] /\ events[p] # <<>>
    BY <1>8 DEF MarkSpoiled, MarkIncomplete, Mark
  <2> QED BY <1>0, <1>1, <2>1
<1>9. ASSUME NEW p \in Process, Finalize(p) \/ CheckEvents(p) PROVE Good
  <2>1. /\ UNCHANGED <<head, target, before, events>> /\ pc[p] \in {"run", "check"}
        /\ \E l \in {"check", "receipt", "mark"} : pc' = [pc EXCEPT ![p] = l]
    BY <1>9 DEF Finalize, CheckEvents
  <2> QED BY <1>0, <1>1, <2>1
<1>10. ASSUME NEW p \in Process, WriteReceipt(p) \/ RecheckEvents(p) \/ Link(p) PROVE Good
  <2>1. /\ UNCHANGED <<head, target, before, events>>
        /\ \E l \in {"recheck", "link", "sync", "mark"} : pc' = [pc EXCEPT ![p] = l]
    BY <1>10 DEF WriteReceipt, RecheckEvents, Link
  <2> QED BY <1>0, <1>1, <2>1
<1>11. ASSUME NEW p \in Process, SyncReceipt(p) \/ ClearPending(p) \/ Kill(p) PROVE Good
  <2>1. /\ UNCHANGED <<head, target, before, events>>
        /\ \E l \in {"clear", "exit", "dead", "mark"} : pc' = [pc EXCEPT ![p] = l]
    BY <1>11 DEF SyncReceipt, ClearPending, Kill
  <2> QED BY <1>0, <1>1, <2>1
<1>12. CASE PowerLoss
  <2>1. /\ UNCHANGED <<head, target, before, events>>
        /\ \A q \in Process : pc'[q] = IF pc[q] \in {"start", "exit"} THEN pc[q] ELSE "dead"
    BY <1>12 DEF PowerLoss
  <2> QED BY <1>0, <2>1 DEF Observed
<1>13. CASE Elsewhere
  <2>1. UNCHANGED <<target, before, events, pc>>
    BY <1>13 DEF Elsewhere, context
  <2>2. head' \in [Repo -> Nat]
    BY <1>0, <1>13 DEF Elsewhere
  <2> QED BY <1>2, <2>1, <2>2
<1>14. CASE Look \/ Damage \/ UNCHANGED vars
  <2>1. UNCHANGED <<target, before, events, pc, head>>
    BY <1>14 DEF Look, OpenRun, ProbeIncomplete, ProbePending, ReadEvidence, ReadFrozen, Answer,
       Conclude, Read, Damage, vars, context
  <2> QED BY <1>0, <1>2, <2>1
<1> QED BY <1>3, <1>4, <1>5, <1>6, <1>7, <1>8, <1>9, <1>10, <1>11, <1>12, <1>13, <1>14
        DEF Next, Work

-----------------------------------------------------------------------------
(* the files of the reservation, and the stream *)

\* A step of a process creates a file of the reservation, or goes on where there is none
\* left to create.
LEMMA FreshKeeps ==
    ASSUME IInv, EndInv, [Next]_vars
    PROVE  (~made' => Free(Early)') /\ \A p \in Process : Fresh(p)'
<1> DEFINE Good == (~made' => Free(Early)') /\ \A p \in Process : Fresh(p)'
<1>0. /\ Files /\ Single /\ (~made => Free(Early)) /\ \A q \in Process : Fresh(q)
      /\ pc \in [Process -> Places]
  BY DEF EndInv, IInv, TypeOK
<1>a. /\ \A q \in Process : Steady(q)
      /\ Single'
  BY EverySteady DEF IInv
<1>1. ASSUME NEW ns, Touches(ns), ns \cap Early = {}, made' = made,
             \A q \in Process : pc'[q] \in Early /\ Owns(q)' => pc'[q] = pc[q] /\ Owns(q)
      PROVE  Good
  <2>1. \A n \in Early : seen'[n] = seen[n]
    BY <1>1 DEF Touches, Early, File
  <2> QED BY <1>0, <1>1, <2>1 DEF Fresh, Free, Early
<1> USE DEF Goto, Return, Step
<1>2. ASSUME NEW p \in Process, Reserve(p) PROVE Good
  <2>1. pc[p] = "start" /\ UNCHANGED <<seen, kept>> /\ pc' \in [Process -> Places]
           /\ (\A q \in Process \ {p} : pc'[q] = pc[q] /\ done'[q] = done[q])
    BY <1>0, <1>2, StepControl DEF Reserve, Work, IInv, Places, Early, Over, TypeOK, Apart
  <2>2. CASE made
    <3>1. pc'[p] = "mark" /\ made' = made
      BY <1>0, <1>2, <2>2 DEF Reserve
    <3>2. Touches({})
      BY <1>0, <2>1 DEF Touches, Files
    <3>3. \A q \in Process : pc'[q] \in Early /\ Owns(q)' => pc'[q] = pc[q] /\ Owns(q)
      BY <2>1, <3>1 DEF Owns, Early
    <3> QED BY <1>1, <3>1, <3>2, <3>3
  <2>3. CASE ~made
    <3>1. pc'[p] = "pending" /\ made' /\ Free(Early)' /\ \A q \in Process \ {p} : pc'[q] = "start"
      BY <1>0, <1>2, <2>1, <2>3 DEF Reserve, Single, Free
    <3> QED BY <3>1 DEF Fresh, Owns
  <2> QED BY <2>2, <2>3
<1>3. ASSUME NEW p \in Process, CreateFile(p) PROVE Good
  <2>1. /\ pc[p] \in Early \cap File /\ Touches({pc[p]}) /\ made' = made
        /\ \/ pc' = [pc EXCEPT ![p] = "mark"]
           \/ pc' = [pc EXCEPT ![p] = NextFile[pc[p]]]
    BY <1>0, <1>3, CreateWrites DEF CreateFile
  <2>2. done[p] = "" /\ Owns(p) /\ made
    BY <1>0, <2>1 DEF IInv, Control, Owns, Single, Early
  <2>3. \A q \in Process \ {p} : ~Owns(q)'
    BY <1>3, <2>2, <1>a, StepControl DEF Work, IInv, Single, Steady
  <2>4. /\ NextFile["pending"] = "frozen" /\ NextFile["frozen"] = "events"
        /\ NextFile["events"] = "tmp" /\ NextFile["tmp"] = "reserve"
    BY DEF NextFile
  <2>5. \A n \in File \ {pc[p]} : seen'[n] = seen[n]
    BY <2>1 DEF Touches
  <2>6. Fresh(p)'
    <3>1. CASE pc'[p] = "mark"
      BY <3>1 DEF Fresh
    <3>2. CASE pc'[p] = NextFile[pc[p]]
      <4>1. Fresh(p) BY <1>0
      <4>2. \A n \in Early \ {pc[p]} : seen'[n] = seen[n]
        BY <2>5 DEF Early, File
      <4>3. CASE pc[p] = "pending"
        BY <2>2, <2>4, <3>2, <4>1, <4>2, <4>3 DEF Fresh, Free, Early
      <4>4. CASE pc[p] = "frozen"
        BY <2>2, <2>4, <3>2, <4>1, <4>2, <4>4 DEF Fresh, Free, Early
      <4>5. CASE pc[p] = "events"
        BY <2>2, <2>4, <3>2, <4>1, <4>2, <4>5 DEF Fresh, Free, Early
      <4>6. CASE pc[p] = "tmp"
        BY <2>4, <3>2, <4>6 DEF Fresh
      <4> QED BY <2>1, <4>3, <4>4, <4>5, <4>6 DEF Early
    <3> QED BY <1>0, <2>1, <3>1, <3>2
  <2> QED BY <2>1, <2>2, <2>3, <2>6 DEF Fresh
<1>4. ASSUME NEW p \in Process, Work(p) \/ Kill(p), ~Reserve(p), ~CreateFile(p) PROVE Good
  <2>1. made' = made
    BY <1>4 DEF Work, Begin, Act, Append1, MarkSpoiled, MarkIncomplete, Mark, Finalize,
       CheckEvents, WriteReceipt, RecheckEvents, Link, SyncReceipt, ClearPending, Kill, directory
  <2>2. pc'[p] \notin Early /\ \A q \in Process \ {p} : pc'[q] = pc[q] /\ done'[q] = done[q]
    <3>1. Apart(p) BY <1>4, StepControl DEF IInv
    <3>2. pc'[p] \notin Early
      BY <1>0, <1>4 DEF Work, Begin, Act, Append1, MarkSpoiled, MarkIncomplete, Mark, Finalize,
       CheckEvents, WriteReceipt, RecheckEvents, Link, SyncReceipt, ClearPending, Kill, Early
    <3> QED BY <3>1, <3>2 DEF Apart
  <2>3. made
    <3>1. pc[p] # "start"
      BY <1>4 DEF Work, Begin, Act, Append1, MarkSpoiled, MarkIncomplete, Mark, Finalize,
       CheckEvents, WriteReceipt, RecheckEvents, Link, SyncReceipt, ClearPending, Kill
    <3> QED BY <1>0, <3>1 DEF Single
  <2>4. \A q \in Process \ {p} : Owns(q)' /\ pc'[q] \in Early => Fresh(q)'
    <3> SUFFICES ASSUME NEW q \in Process \ {p}, Owns(q), pc[q] \in Early PROVE Fresh(q)'
      BY <2>2 DEF Owns
    <3>1. ~Owns(p) BY <1>0 DEF Single
    <3>2. pc[p] \in Over
      BY <1>4, <3>1 DEF IInv, Control, Owns, Work, Begin, Act, Append1, MarkSpoiled, MarkIncomplete,
         Mark, Finalize, CheckEvents, WriteReceipt, RecheckEvents, Link, SyncReceipt, ClearPending, Kill
    <3>3. MarkIncomplete(p) \/ Kill(p)
      BY <1>4, <3>2 DEF Over, Work, Begin, Act, Append1, MarkSpoiled,
         Finalize, CheckEvents, WriteReceipt, RecheckEvents, Link, SyncReceipt, ClearPending
    <3>4. \A n \in Early : seen'[n] = seen[n]
      <4>1. CASE MarkIncomplete(p)
        <5>1. Touches({"incomplete"}) BY <1>0, <4>1, MarkWrites DEF MarkIncomplete
        <5> QED BY <5>1 DEF Touches, Early, File
      <4>2. CASE Kill(p)
        BY <4>2 DEF Kill, directory
      <4> QED BY <3>3, <4>1, <4>2
    <3> QED BY <1>0, <2>2, <3>4 DEF Fresh, Free, Early, Owns
  <2> QED BY <2>1, <2>2, <2>3, <2>4 DEF Fresh, Early
<1>5. CASE PowerLoss
  <2>1. made /\ made' /\ \A q \in Process : pc'[q] \notin Early
    BY <1>0, <1>5 DEF PowerLoss, Early, Single
  <2> QED BY <2>1 DEF Fresh, Early
<1>6. CASE Damage
  <2>1. PICK n \in {"events", "frozen"} : seen[n].there /\ \E t : seen' = [seen EXCEPT ![n] = Holds(t)]
    BY <1>6 DEF Damage, Put
  <2>2. \A m \in File : ~seen[m].there => ~seen'[m].there
    BY <1>0, <2>1 DEF Files, File
  <2>3. UNCHANGED <<made, pc, done>>
    BY <1>6 DEF Damage, context
  <2> QED BY <1>0, <2>2, <2>3 DEF Fresh, Free, Owns, Early, File
<1>7. CASE Look \/ Elsewhere \/ UNCHANGED vars
  <2>1. UNCHANGED <<directory, pc, done>>
    BY <1>7 DEF Look, OpenRun, ProbeIncomplete, ProbePending, ReadEvidence, ReadFrozen, Answer,
       Conclude, Read, Elsewhere, vars, context
  <2> QED BY <1>0, <2>1 DEF Fresh, Free, Owns, directory
<1> QED BY <1>2, <1>3, <1>4, <1>5, <1>6, <1>7 DEF Next

\* As long as nobody else writes into it, and no write has failed, the stream is what
\* was observed.
LEMMA StreamKeeps ==
    ASSUME IInv, EndInv, [Next]_vars, damage = 0, damage' = 0
    PROVE  \A p \in Process : Stream(p)'
<1> DEFINE Good == \A p \in Process : Stream(p)'
<1>0. /\ Files /\ Single /\ \A q \in Process : Stream(q) /\ Observed(q)
      /\ pc \in [Process -> Places]
  BY DEF EndInv, IInv, TypeOK
<1>a. Single' /\ \A q \in Process : Steady(q)
  BY EverySteady DEF IInv
<1>1. ASSUME seen'.events = seen.events, 
             \A q \in Process : Owns(q)' /\ pc'[q] \in {"tmp"} \cup Middle /\ ~poisoned'[q] =>
                 /\ Owns(q) /\ pc[q] \in {"tmp"} \cup Middle /\ ~poisoned[q]
                 /\ events'[q] = events[q]
      PROVE  Good
  BY <1>0, <1>1 DEF Stream
<1> USE DEF Goto, Return, Step
<1>2. ASSUME NEW p \in Process, Append1(p) PROVE Good
  <2>1. Owns(p) /\ pc[p] = "append" /\ Apart(p)
    BY <1>2, StepControl DEF Append1, IInv, Control, Owns, Middle, Work
  <2>2. \A q \in Process \ {p} : ~Owns(q)'
    BY <2>1, <1>a DEF Steady, Single
  <2>3. Stream(p)'
    <3>1. CASE /\ LineWritten(NextLine(p)) /\ events' = [events EXCEPT ![p] = Append(@, NextLine(p))]
               /\ UNCHANGED poisoned
      <4>1. seen'.events = Holds(seen.events.text \o <<NextLine(p)>>)
        BY <1>0, <3>1 DEF LineWritten, Put, Files, File
      <4>2. events'[p] = Append(events[p], NextLine(p)) /\ poisoned'[p] = poisoned[p]
        BY <3>1 DEF IInv, TypeOK
      <4>3. ~poisoned[p] => seen.events.text = events[p]
        BY <1>0, <2>1, ShapeHolds DEF Stream, Middle
      <4>4. events[p] \in Seq(Lines) /\ NextLine(p) \in Lines
        BY <1>0, LineFollows DEF EndInv, Observed
      <4>5. events[p] \o <<NextLine(p)>> = Append(events[p], NextLine(p))
        BY <4>4
      <4> QED BY <4>1, <4>2, <4>3, <4>5 DEF Stream
    <3>2. CASE poisoned' = [poisoned EXCEPT ![p] = TRUE]
      BY <3>2 DEF Stream, IInv, TypeOK
    <3> QED BY <1>2, <3>1, <3>2 DEF Append1
  <2> QED BY <2>2, <2>3 DEF Stream
<1>3. ASSUME NEW p \in Process, CreateFile(p) PROVE Good
  <2>1. /\ pc[p] \in Early \cap File /\ Touches({pc[p]}) /\ Apart(p)
        /\ \/ pc' = [pc EXCEPT ![p] = "mark"]
           \/ /\ pc' = [pc EXCEPT ![p] = NextFile[pc[p]]]
              /\ seen'[pc[p]] = Holds(FirstText[pc[p]])
        /\ UNCHANGED <<events, poisoned>>
    BY <1>0, <1>3, CreateWrites, StepControl DEF CreateFile, IInv, Work
  <2>2. Owns(p)
    BY <2>1 DEF IInv, Control, Owns, Early
  <2>3. \A q \in Process \ {p} : ~Owns(q)'
    BY <2>2, <1>a DEF Steady, Single
  <2>4. /\ NextFile["pending"] = "frozen" /\ NextFile["frozen"] = "events"
        /\ NextFile["events"] = "tmp" /\ NextFile["tmp"] = "reserve"
        /\ FirstText["events"] = <<>>
    BY DEF NextFile, FirstText
  <2>5. Stream(p)'
    <3> SUFFICES ASSUME pc'[p] \in {"tmp"} \cup Middle, ~poisoned'[p] PROVE seen'.events = Holds(events'[p])
      BY DEF Stream
    <3>1. pc[p] \in {"events", "tmp"} /\ pc'[p] = NextFile[pc[p]]
      BY <1>0, <2>1, <2>4 DEF Early, Middle
    <3>2. events'[p] = <<>> /\ events[p] = <<>>
      BY <1>0, <2>1 DEF Observed
    <3>3. CASE pc[p] = "events"
      BY <1>0, <2>1, <2>4, <3>1, <3>2, <3>3 DEF Middle
    <3>4. CASE pc[p] = "tmp"
      BY <1>0, <2>1, <2>2, <3>2, <3>4 DEF Stream, Touches, File
    <3> QED BY <3>1, <3>3, <3>4
  <2> QED BY <2>3, <2>5 DEF Stream
<1>4. ASSUME NEW p \in Process, Work(p) \/ Kill(p), ~Append1(p), ~CreateFile(p) PROVE Good
  <2>1. Apart(p) BY <1>4, StepControl DEF IInv
  <2>2. seen'.events = seen.events
    <3>1. UNCHANGED seen \/ \E ns : Touches(ns) /\ "events" \notin ns
      BY <1>0, <1>4, MarkWrites, ReceiptWrites, LinkWrites, SyncWrites, ClearWrites
         DEF Work, Reserve, Begin, Act, MarkSpoiled, MarkIncomplete, Finalize, CheckEvents,
             RecheckEvents, Kill, directory
    <3> QED BY <3>1 DEF Touches, File
  <2>3. events' = events
    BY <1>4 DEF Work, Reserve, Begin, Act, MarkSpoiled, MarkIncomplete, Mark, Finalize, CheckEvents,
       WriteReceipt, RecheckEvents, Link, SyncReceipt, ClearPending, Kill
  <2>4. Owns(p)' /\ pc'[p] \in {"tmp"} \cup Middle /\ ~poisoned'[p] =>
            Owns(p) /\ pc[p] \in {"tmp"} \cup Middle /\ ~poisoned[p]
    <3> SUFFICES ASSUME pc'[p] \in {"tmp"} \cup Middle, done'[p] # "refused", ~poisoned'[p]
                 PROVE  pc[p] \in {"tmp"} \cup Middle /\ done[p] # "refused" /\ ~poisoned[p]
      BY DEF Owns, Middle
    <3>1. pc[p] \in Middle /\ poisoned' = poisoned
      BY <1>0, <1>4 DEF Work, Reserve, Begin, Act, MarkSpoiled, MarkIncomplete, Mark, Finalize, CheckEvents,
         WriteReceipt, RecheckEvents, Link, SyncReceipt, ClearPending, Kill, Middle
    <3> QED BY <3>1 DEF IInv, Control
  <2> QED BY <1>1, <2>1, <2>2, <2>3, <2>4 DEF Apart, Owns
<1>5. CASE PowerLoss
  BY <1>0, <1>5 DEF PowerLoss, Stream, Middle
<1>6. ~Damage
  BY DEF Damage
<1>7. CASE Look \/ Elsewhere \/ UNCHANGED vars
  <2>1. UNCHANGED <<directory, pc, done, events, poisoned>>
    BY <1>7 DEF Look, OpenRun, ProbeIncomplete, ProbePending, ReadEvidence, ReadFrozen, Answer,
       Conclude, Read, Elsewhere, vars, context
  <2> QED BY <1>0, <2>1 DEF Stream, Owns, directory
<1> QED BY <1>2, <1>3, <1>4, <1>5, <1>6, <1>7 DEF Next

-----------------------------------------------------------------------------
(* the price of a failure *)

\* A step of a process other than a mark leaves the mark alone, and where it makes the
\* attempt fail it is one of the writes that failed.
LEMMA LossCosts ==
    ASSUME IInv, EndInv, damage = 0, NEW p \in Process, Work(p) \/ Kill(p),
           ~MarkSpoiled(p), ~MarkIncomplete(p)
    PROVE  /\ faults' = faults \/ faults' = faults + 1
           /\ \A q \in Process : Lost(q)' => Lost(q) \/ faults' = faults + 1
           /\ seen'.incomplete = seen.incomplete
           /\ kept'.incomplete \in {kept.incomplete, {seen.incomplete}}
           /\ pc'[p] = "exit" => done'[p] = "final"
<1> DEFINE Spent == faults' = faults + 1
           Quiet == /\ seen'.incomplete = seen.incomplete
                    /\ kept'.incomplete \in {kept.incomplete, {seen.incomplete}}
           Kept == Lost(p)' => Lost(p)
<1>0. /\ Files /\ Control(p) /\ Observed(p) /\ Fresh(p) /\ Stream(p) /\ Disk
      /\ pc \in [Process -> Places] /\ poisoned \in [Process -> BOOLEAN]
      /\ done \in [Process -> {"", "refused", "failed", "final"}]
  BY DEF EndInv, IInv, TypeOK
<1>1. Apart(p) BY StepControl DEF IInv
<1>2. ASSUME NEW ns, Touches(ns), "incomplete" \notin ns PROVE Quiet
  BY <1>2 DEF Touches, File
<1> USE DEF Goto, Return, Step, Fail, Intact, Lost
<1>3. CASE Reserve(p)
  BY <1>0, <1>3 DEF Reserve, budget
<1>4. CASE CreateFile(p)
  <2>1. pc[p] \in Early \cap File /\ Touches({pc[p]}) /\ "incomplete" \notin Early
    BY <1>0, <1>4, CreateWrites DEF Early
  <2>2. Owns(p) /\ ~seen[pc[p]].there
    BY <1>0, <2>1 DEF Control, Owns, Fresh, Free, Early
  <2>3. /\ faults' = faults \/ Spent
        /\ poisoned' = poisoned /\ (done' = done \/ Spent)
        /\ pc' = [pc EXCEPT ![p] = NextFile[pc[p]]] \/ pc' = [pc EXCEPT ![p] = "mark"]
    BY <1>4, <2>2 DEF CreateFile, CreateFailed
  <2>4. \A n \in Early : NextFile[n] \in {"frozen", "events", "tmp", "reserve"}
    <3>1. /\ NextFile["pending"] = "frozen" /\ NextFile["frozen"] = "events"
          /\ NextFile["events"] = "tmp" /\ NextFile["tmp"] = "reserve"
      BY DEF NextFile
    <3> QED BY <3>1 DEF Early
  <2>5. Quiet BY <1>2, <2>1
  <2>6. pc'[p] # "exit" BY <1>0, <2>1, <2>3, <2>4
  <2> QED BY <1>1, <2>3, <2>5, <2>6 DEF Apart
<1>5. CASE Begin(p) \/ Act(p) \/ Finalize(p)
  BY <1>0, <1>5 DEF Begin, Act, Finalize, budget, directory
<1>6. CASE Append1(p)
  <2>1. Quiet BY <1>0, <1>2, <1>6, AppendWrites
  <2>2. /\ faults' = faults \/ Spent
        /\ done' = done /\ (poisoned' = poisoned \/ Spent)
        /\ \E l \in {"run", "append", "spoiled"} : pc' = [pc EXCEPT ![p] = l]
    BY <1>6 DEF Append1
  <2> QED BY <1>0, <1>1, <2>1, <2>2 DEF Apart
<1>7. CASE CheckEvents(p)
  <2>1. pc[p] = "check" /\ Owns(p) /\ faults' = faults /\ poisoned' = poisoned /\ Quiet
    BY <1>0, <1>7 DEF CheckEvents, Control, Owns, Middle, budget, directory
  <2>2. ~poisoned[p] => seen.events.text = events[p] /\ Sound(events[p])
    BY <1>0, <2>1, ObservedSound, ShapeHolds DEF Stream, Middle, Observed
  <2>3. ~poisoned[p] => done' = done
    BY <1>7, <2>2 DEF CheckEvents
  <2>4. pc'[p] # "exit" BY <1>0, <1>7 DEF CheckEvents
  <2> QED BY <1>1, <2>1, <2>3, <2>4 DEF Apart
<1>8. CASE WriteReceipt(p)
  <2>1. Quiet BY <1>0, <1>2, <1>8, ReceiptWrites
  <2>2. /\ faults' = faults \/ Spent
        /\ poisoned' = poisoned /\ (done' = done \/ Spent)
        /\ pc' = [pc EXCEPT ![p] = "recheck"] \/ pc' = [pc EXCEPT ![p] = "mark"]
    BY <1>8 DEF WriteReceipt
  <2> QED BY <1>0, <1>1, <2>1, <2>2 DEF Apart
<1>9. CASE RecheckEvents(p)
  <2>1. pc[p] = "recheck" /\ Owns(p) /\ ~poisoned[p] /\ faults' = faults /\ poisoned' = poisoned /\ Quiet
    BY <1>0, <1>9 DEF RecheckEvents, Control, Owns, Middle, budget, directory
  <2>2. seen.events.text = events[p]
    BY <1>0, <2>1, ShapeHolds DEF Stream, Middle
  <2> QED BY <1>0, <1>9, <2>1, <2>2 DEF RecheckEvents
<1>10. CASE Link(p)
  <2>1. Quiet BY <1>0, <1>2, <1>10, LinkWrites
  <2>2. /\ faults' = faults \/ Spent
        /\ poisoned' = poisoned /\ (done' = done \/ Spent)
        /\ pc' = [pc EXCEPT ![p] = "sync"] \/ pc' = [pc EXCEPT ![p] = "mark"]
    BY <1>10 DEF Link
  <2> QED BY <1>0, <1>1, <2>1, <2>2 DEF Apart
<1>11. CASE SyncReceipt(p)
  <2>1. Quiet BY <1>0, <1>2, <1>11, SyncWrites
  <2>2. /\ faults' = faults \/ Spent
        /\ poisoned' = poisoned /\ (done' = done \/ Spent)
        /\ pc' = [pc EXCEPT ![p] = "clear"] \/ pc' = [pc EXCEPT ![p] = "mark"]
    BY <1>11 DEF SyncReceipt
  <2> QED BY <1>0, <1>1, <2>1, <2>2 DEF Apart
<1>12. CASE ClearPending(p)
  <2>1. Quiet BY <1>0, <1>2, <1>12, ClearWrites
  <2>2. /\ faults' = faults \/ Spent
        /\ poisoned' = poisoned
        /\ \/ pc' = [pc EXCEPT ![p] = "exit"] /\ done' = [done EXCEPT ![p] = "final"]
           \/ pc' = [pc EXCEPT ![p] = "mark"] /\ Spent
    BY <1>12 DEF ClearPending
  <2> QED BY <1>0, <1>1, <2>1, <2>2 DEF Apart
<1>13. CASE Kill(p)
  BY <1>0, <1>13 DEF Kill, directory
<1> QED BY <1>3, <1>4, <1>5, <1>6, <1>7, <1>8, <1>9, <1>10, <1>11, <1>12, <1>13 DEF Work

\* A mark is left for good, was there, or is the write that failed.
LEMMA MarkCosts ==
    ASSUME IInv, NEW p \in Process, MarkSpoiled(p) \/ MarkIncomplete(p)
    PROVE  /\ \A q \in Process : Lost(q)' => Lost(q)
           /\ \/ /\ faults' = faults /\ seen'.incomplete.there
                 /\ \/ kept'.incomplete = {seen'.incomplete}
                    \/ seen'.incomplete = seen.incomplete /\ kept'.incomplete = kept.incomplete
              \/ faults' = faults + 1
           /\ seen.incomplete.there => seen'.incomplete.there
           /\ pc'[p] = "exit" /\ done'[p] = "failed" => Lost(p)
           /\ \A q \in Process \ {p} : pc'[q] = pc[q] /\ done'[q] = done[q]
           /\ pc'[p] = "exit" => done'[p] # ""
<1>0. Files /\ Control(p) /\ pc \in [Process -> Places]
         /\ done \in [Process -> {"", "refused", "failed", "final"}]
  BY DEF IInv, TypeOK
<1>1. Apart(p) BY StepControl DEF IInv, Work
<1>2. PICK to : Mark(p, to) BY DEF MarkSpoiled, MarkIncomplete
<1>3. /\ \/ /\ faults' = faults /\ seen'.incomplete.there
            /\ \/ kept'.incomplete = {seen'.incomplete}
               \/ seen'.incomplete = seen.incomplete /\ kept'.incomplete = kept.incomplete
         \/ faults' = faults + 1
      /\ seen.incomplete.there => seen'.incomplete.there
  <2>1. CASE seen' = Put("incomplete", Whole) /\ kept' = KeptAs(seen') /\ Intact
    <3>1. seen'.incomplete = Holds(Whole) /\ kept'.incomplete = {seen'.incomplete}
      BY <1>0, <2>1 DEF Put, KeptAs, Files, File
    <3> QED BY <2>1, <3>1, ShapeHolds DEF Intact
  <2>2. CASE seen.incomplete.there /\ UNCHANGED <<seen, kept, faults>>
    BY <2>2
  <2>3. CASE ~seen.incomplete.there /\ Fail
    BY <2>3 DEF Fail
  <2> QED BY <1>2, <2>1, <2>2, <2>3 DEF Mark, CreateFailed
<1>4. /\ pc[p] \in {"mark", "spoiled"} /\ poisoned' = poisoned
      /\ pc[p] = "spoiled" => poisoned[p]
      /\ pc[p] = "mark" => done' = done /\ done[p] \in {"refused", "failed"}
      /\ pc[p] = "spoiled" /\ pc'[p] = "exit" => done'[p] = "failed"
  BY <1>0 DEF MarkSpoiled, MarkIncomplete, Mark, Control, Goto, Return
<1> QED BY <1>1, <1>3, <1>4 DEF Apart, Lost

\* Every step keeps what the end of an attempt is explained by.
LEMMA ExplainedKeeps ==
    ASSUME IInv, EndInv, [Next]_vars, damage = 0, damage' = 0
    PROVE  Explained'
<1>0. Explained /\ faults \in Nat /\ Files
  BY DEF EndInv, IInv, TypeOK
<1>1. ASSUME NEW p \in Process, Work(p) \/ Kill(p), ~MarkSpoiled(p), ~MarkIncomplete(p)
      PROVE  Explained'
  <2>1. /\ faults' = faults \/ faults' = faults + 1
        /\ \A q \in Process : Lost(q)' => Lost(q) \/ faults' = faults + 1
        /\ seen'.incomplete = seen.incomplete
        /\ kept'.incomplete \in {kept.incomplete, {seen.incomplete}}
        /\ pc'[p] = "exit" => done'[p] = "final"
    BY <1>1, LossCosts
  <2>2. \A q \in Process \ {p} : pc'[q] = pc[q] /\ done'[q] = done[q]
    BY <1>1, StepControl DEF IInv, Apart
  <2>3. (\E q \in Process : Lost(q)') => faults' # 0
    BY <1>0, <2>1 DEF Explained
  <2>4. faults' = 0 \/ (faults' = 1 /\ \E q \in Process : Lost(q)') => kept'.incomplete = {seen'.incomplete}
    <3>1. faults' = 0 => faults = 0 BY <1>0, <2>1
    <3>2. ASSUME faults' = 1, NEW q \in Process, Lost(q)' PROVE faults = 0 \/ Lost(q)
      BY <1>0, <2>1, <3>2
    <3>3. faults' = 1 => faults \in {0, 1} BY <1>0, <2>1
    <3> QED BY <1>0, <2>1, <3>1, <3>2, <3>3 DEF Explained
  <2>5. ASSUME NEW q \in Process, faults' <= 1, pc'[q] = "exit", done'[q] = "failed"
        PROVE  seen'.incomplete.there
    <3>1. q # p BY <2>1, <2>5
    <3>2. faults <= 1 BY <1>0, <2>1, <2>5
    <3> QED BY <1>0, <2>1, <2>2, <2>5, <3>1, <3>2 DEF Explained
  <2> QED BY <2>3, <2>4, <2>5 DEF Explained
<1>2. ASSUME NEW p \in Process, MarkSpoiled(p) \/ MarkIncomplete(p) PROVE Explained'
  <2>1. /\ \A q \in Process : Lost(q)' => Lost(q)
        /\ \/ /\ faults' = faults /\ seen'.incomplete.there
              /\ \/ kept'.incomplete = {seen'.incomplete}
                 \/ seen'.incomplete = seen.incomplete /\ kept'.incomplete = kept.incomplete
           \/ faults' = faults + 1
        /\ seen.incomplete.there => seen'.incomplete.there
        /\ pc'[p] = "exit" /\ done'[p] = "failed" => Lost(p)
        /\ \A q \in Process \ {p} : pc'[q] = pc[q] /\ done'[q] = done[q]
    BY <1>2, MarkCosts
  <2>2. (\E q \in Process : Lost(q)') => faults # 0 /\ faults' # 0
    BY <1>0, <2>1 DEF Explained
  <2>3. faults' = 0 \/ (faults' = 1 /\ \E q \in Process : Lost(q)') => kept'.incomplete = {seen'.incomplete}
    BY <1>0, <2>1, <2>2 DEF Explained
  <2>4. ASSUME NEW q \in Process, faults' <= 1, pc'[q] = "exit", done'[q] = "failed"
        PROVE  seen'.incomplete.there
    <3>1. CASE q = p
      <4>1. faults # 0 BY <1>0, <2>1, <2>4, <3>1 DEF Explained
      <4> QED BY <1>0, <2>1, <2>4, <4>1
    <3>2. CASE q # p
      <4>1. pc[q] = "exit" /\ done[q] = "failed" /\ faults <= 1
        BY <1>0, <2>1, <2>4, <3>2
      <4> QED BY <1>0, <2>1, <4>1 DEF Explained
    <3> QED BY <3>1, <3>2
  <2> QED BY <2>2, <2>3, <2>4 DEF Explained
<1>3. CASE PowerLoss
  <2>1. /\ faults' = faults /\ done' = done /\ poisoned' = poisoned
        /\ \A q \in Process : pc'[q] = "exit" <=> pc[q] = "exit"
    BY <1>3 DEF PowerLoss
  <2>2. seen'.incomplete \in kept.incomplete /\ kept'.incomplete = {seen'.incomplete}
    BY <1>0, <1>3, PowerLossWrites DEF File
  <2>3. ASSUME NEW q \in Process, faults <= 1, pc[q] = "exit", done[q] = "failed"
        PROVE  seen'.incomplete.there
    <3>1. Lost(q) /\ faults # 0 BY <1>0, <2>3 DEF Lost, Explained
    <3>2. faults = 1 BY <1>0, <2>3, <3>1
    <3> QED BY <1>0, <2>2, <2>3, <3>1, <3>2 DEF Explained
  <2> QED BY <1>0, <2>1, <2>2, <2>3 DEF Explained, Lost
<1>4. ~Damage
  BY DEF Damage
<1>5. CASE Look \/ Elsewhere \/ UNCHANGED vars
  <2>1. UNCHANGED <<seen, kept, pc, done, poisoned, faults>>
    BY <1>5 DEF Look, OpenRun, ProbeIncomplete, ProbePending, ReadEvidence, ReadFrozen, Answer,
       Conclude, Read, Elsewhere, vars, context, directory, budget
  <2> QED BY <1>0, <2>1 DEF Explained, Lost
<1> QED BY <1>1, <1>2, <1>3, <1>4, <1>5 DEF Next

\* The count of the failures is a number.
LEMMA FaultsCount ==
    ASSUME [Next]_vars, faults \in Nat
    PROVE  faults' \in Nat
<1>1. faults' = faults \/ faults' = faults + 1
  BY DEF Next, Work, Reserve, CreateFile, CreateFailed, Begin, Act, Append1, MarkSpoiled,
     MarkIncomplete, Mark, Finalize, CheckEvents, WriteReceipt, RecheckEvents, Link, SyncReceipt,
     ClearPending, Kill, Look, OpenRun, ProbeIncomplete, ProbePending, ReadEvidence, ReadFrozen,
     Answer, Conclude, Read, Elsewhere, PowerLoss, Damage, vars, budget, Fail, Intact
<1> QED BY <1>1

\* A process that has ended has returned something.
LEMMA ExitReturns ==
    ASSUME IInv, EndInv, [Next]_vars
    PROVE  \A p \in Process : pc'[p] = "exit" => done'[p] # ""
<1>0. /\ pc \in [Process -> Places] /\ \A p \in Process : pc[p] = "exit" => done[p] # ""
      /\ done \in [Process -> {"", "refused", "failed", "final"}]
  BY DEF EndInv, IInv, TypeOK
<1>2. ASSUME NEW p \in Process, Work(p) \/ Kill(p) PROVE \A q \in Process : pc'[q] = "exit" => done'[q] # ""
  <2>1. Apart(p) BY <1>2, StepControl DEF IInv
  <2>2. pc'[p] = "exit" => done'[p] # ""
    <3>1. CASE MarkSpoiled(p) \/ MarkIncomplete(p)
      BY <3>1, MarkCosts
    <3>2. CASE ClearPending(p)
      BY <1>0, <3>2 DEF ClearPending, Goto, Return, Step
    <3>3. CASE CreateFile(p)
      <4>1. NextFile["pending"] = "frozen" /\ NextFile["frozen"] = "events"
               /\ NextFile["events"] = "tmp" /\ NextFile["tmp"] = "reserve"
        BY DEF NextFile
      <4>2. Files /\ \A n \in Early : NextFile[n] # "exit"
        BY <4>1 DEF IInv, TypeOK, Early
      <4>3. /\ pc[p] \in Early
            /\ pc' = [pc EXCEPT ![p] = "mark"] \/ pc' = [pc EXCEPT ![p] = NextFile[pc[p]]]
        BY <3>3, <4>2, CreateWrites
      <4>4. pc'[p] = "mark" \/ pc'[p] = NextFile[pc[p]]
        BY <1>0, <4>3
      <4> QED BY <4>2, <4>3, <4>4
    <3> QED BY <1>0, <1>2, <3>1, <3>2, <3>3 DEF Work, Reserve, Begin, Act, Append1, Finalize, CheckEvents,
            WriteReceipt, RecheckEvents, Link, SyncReceipt, Kill, Goto, Return, Step
  <2> QED BY <1>0, <2>1, <2>2 DEF Apart
<1>3. CASE PowerLoss
  BY <1>0, <1>3 DEF PowerLoss
<1>4. CASE Look \/ Elsewhere \/ Damage \/ UNCHANGED vars
  <2>1. UNCHANGED <<pc, done>>
    BY <1>4 DEF Look, OpenRun, ProbeIncomplete, ProbePending, ReadEvidence, ReadFrozen, Answer,
       Conclude, Read, Elsewhere, Damage, vars, context
  <2> QED BY <1>0, <2>1
<1> QED BY <1>2, <1>3, <1>4 DEF Next

-----------------------------------------------------------------------------
(* the results *)

\* The invariant holds at the start.
LEMMA InitIInv == Init => IInv
<1> SUFFICES ASSUME Init PROVE IInv OBVIOUS
<1> USE DEF Init
<1>1. TypeOK
  BY ShapeAbsent DEF TypeOK, Files, Places, Looks, Evidence
<1>2. Single /\ \A p \in Process : Control(p) /\ ~Owns(p)
  BY DEF Single, Control, Owns, Over
<1>3. AllTold /\ Marked
  BY ShapeAbsent DEF AllTold, Told, Marked, File
<1>4. Reading
  BY DEF Reading, Evidence
<1>5. Disk
  BY <1>2 DEF Disk, Bound, NoReceipt, Only, File
<1> QED BY <1>1, <1>2, <1>3, <1>4, <1>5 DEF IInv

\* Damage is never undone.
LEMMA DamageStays ==
    ASSUME [Next]_vars, damage \in Nat, damage' = 0
    PROVE  damage = 0
<1>1. damage' = damage \/ damage' = damage + 1
  BY DEF Next, Work, Reserve, CreateFile, Begin, Act, Append1, MarkSpoiled, MarkIncomplete, Mark,
     Finalize, CheckEvents, WriteReceipt, RecheckEvents, Link, SyncReceipt, ClearPending, Kill,
     Look, OpenRun, ProbeIncomplete, ProbePending, ReadEvidence, ReadFrozen, Answer, Conclude,
     Read, Elsewhere, PowerLoss, Damage, vars, budget
<1> QED BY <1>1

\* Every reachable state satisfies the invariant (operation_audit.cpp, Reserve to
\* Finalize, and the reader of audit_run_reader.cpp).
THEOREM AuditInvariant == Spec => []IInv
<1>1. IInv /\ [Next]_vars => IInv'
  <2> SUFFICES ASSUME IInv, [Next]_vars PROVE IInv' OBVIOUS
  <2>1. TypeOK' BY TypeKeeps DEF IInv
  <2>2. Single' /\ \A q \in Process : Control(q)' BY EverySteady DEF IInv
  <2>3. AllTold' BY ToldKeeps DEF IInv
  <2>4. Marked' BY MarkedKeeps DEF IInv
  <2>5. Reading' BY ReadingKeeps DEF IInv
  <2>6. ASSUME damage' = 0 PROVE Disk'
    <3>1. damage = 0
      BY <2>6, DamageStays DEF IInv, TypeOK
    <3> QED BY <2>6, <3>1, DiskKeeps DEF IInv
  <2> QED BY <2>1, <2>2, <2>3, <2>4, <2>5, <2>6 DEF IInv
<1> QED BY InitIInv, <1>1, PTL DEF Spec

\* An attempt that a reader verified tells of every action its owner observed, and the
\* owner saw no event lost, whoever changed the evidence (Append and ValidateRunTrace).
THEOREM AuditTellsAll == Spec => []VerifiedTellsAll
<1>1. IInv => VerifiedTellsAll
  <2> SUFFICES ASSUME IInv, verdict = "ready"
               PROVE  \E p \in Process : got.events.text = events[p] /\ ~poisoned[p]
    BY DEF VerifiedTellsAll
  <2>1. Verified(got.events, got.receipt, got.frozen) /\ Told(got.receipt)
    BY DEF IInv, Reading, AllTold
  <2>2. PICK p \in Process : ~poisoned[p] /\ got.receipt = Receipt(p)
    BY <2>1 DEF Told, Verified
  <2>3. got.events.text = events[p]
    BY <2>1, <2>2, ShapeHolds DEF Verified, Receipt
  <2> QED BY <2>2, <2>3
<1> QED BY <1>1, AuditInvariant, PTL

\* What a reader verified no power loss takes back: the receipt is synced before the
\* sentinel goes (PublishReceipt).
THEOREM AuditIsDurable == Spec => []VerifiedIsDurable
<1>1. IInv => VerifiedIsDurable
  <2> SUFFICES ASSUME IInv, verdict = "ready", damage = 0
               PROVE  \A n \in Evidence : kept[n] = {got[n]}
    <3>1. ASSUME IInv PROVE DOMAIN got = Evidence
      BY <3>1 DEF IInv, TypeOK
    <3> QED BY <3>1 DEF VerifiedIsDurable
  <2>1. Disk /\ ~NoReceipt /\ kept.receipt = {seen.receipt} /\ \A n \in Evidence : got[n] = seen[n]
    BY DEF IInv, Disk, Bound
  <2>2. PICK p \in Process : Linked(p)
    BY <2>1 DEF Disk
  <2> QED BY <2>1, <2>2 DEF Linked, Only, Evidence
<1> QED BY <1>1, AuditInvariant, PTL

\* What the invariant says of an attempt that was finalized.
LEMMA FinalHolds == IInv => FinalIsVerified
<1> SUFFICES ASSUME IInv, NEW p \in Process, done[p] = "final", damage = 0
             PROVE  Verifiable \/ (seen.incomplete.there /\ \E q \in Process : done[q] = "refused")
  BY DEF FinalIsVerified
<1>1. Owns(p) /\ ~poisoned[p] /\ Linked(p) /\ seen.pending = Absent
  BY DEF IInv, Control, Owns, Disk, Stage, Only
<1>2. CASE ~seen.incomplete.there
  <2>1. Verified(seen.events, seen.receipt, seen.frozen) /\ ~seen.pending.there
    BY <1>1, ShapeHolds, ShapeAbsent DEF Verified, Linked, Only, Receipt
  <2>2. DOMAIN got = Evidence /\ \A n \in Evidence : seen[n].there
    <3>1. DOMAIN got = Evidence BY DEF IInv, TypeOK
    <3>2. seen.events.there /\ seen.frozen.there /\ seen.receipt.there
      BY <1>1, ShapeHolds DEF Linked, Only, Receipt
    <3> QED BY <3>1, <3>2 DEF Evidence
  <2> QED BY <1>2, <2>1, <2>2 DEF Verifiable
<1>3. CASE seen.incomplete.there
  <2>1. PICK q \in Process : done[q] \in {"refused", "failed"} \/ poisoned[q]
    BY <1>3 DEF IInv, Marked
  <2>2. CASE done[q] # "refused"
    <3>1. Owns(q) BY <2>1, <2>2 DEF IInv, Control, Owns
    <3>2. q = p BY <1>1, <3>1 DEF IInv, Single
    <3> QED BY <1>1, <2>1, <2>2, <3>2
  <2> QED BY <1>3, <2>2
<1> QED BY <1>2, <1>3

\* Where Finalize returned true the attempt verifies for ever, unless a refused second
\* owner has marked it (Finalize, and the destructor of a refused context).
THEOREM AuditFinal == Spec => []FinalIsVerified
BY FinalHolds, AuditInvariant, PTL

\* What has a receipt verifies or is marked, however many writes and machines fail
\* (PublishReceipt: the receipt is linked when all it binds is on the disk).
LEMMA ReceiptIsExplained ==
    ASSUME IInv, damage = 0, seen.receipt.there
    PROVE  Verifiable \/ seen.incomplete.there \/ seen.pending.there
<1>1. PICK p \in Process : Linked(p)
  BY ShapeAbsent DEF IInv, Disk, NoReceipt, Only
<1>2. Verified(seen.events, seen.receipt, seen.frozen)
  BY <1>1, ShapeHolds DEF Verified, Linked, Only, Receipt
<1>3. DOMAIN got = Evidence
  <2>1. ASSUME IInv PROVE DOMAIN got = Evidence
    BY <2>1 DEF IInv, TypeOK
  <2> QED BY <2>1
<1>4. seen.events.there /\ seen.frozen.there /\ seen.receipt.there
  BY <1>1, ShapeHolds DEF Linked, Only, Receipt
<1> QED BY <1>2, <1>3, <1>4 DEF Evidence, Verifiable

\* Evidence with a receipt verifies or carries a mark, whatever fails. An owner that came
\* to its end has finalized the attempt, or a write of it failed; after one such failure
\* the attempt verifies or is marked incomplete (PublishReceipt, PublishIncompleteMarker
\* and the destructor of OperationAuditContext).
THEOREM AuditEndIsExplained == Spec => []EndIsExplained
<1>1. Init => EndInv
  <2> SUFFICES ASSUME Init PROVE EndInv OBVIOUS
  <2>1. \A p \in Process : Observed(p) /\ Fresh(p) /\ Stream(p) /\ ~Lost(p) /\ pc[p] = "start"
    <3> SUFFICES ASSUME NEW p \in Process
                 PROVE  Observed(p) /\ Fresh(p) /\ Stream(p) /\ ~Lost(p) /\ pc[p] = "start"
      OBVIOUS
    <3>1. target[p] \in Repo
      BY RepoAssumption DEF Init
    <3>2. events[p] = <<>> /\ before[p] = 0 /\ pc[p] = "start"
      BY DEF Init
    <3>3. Chained(<<>>) /\ <<>> \in Seq(Lines)
      BY DEF Chained
    <3> QED BY <3>1, <3>2, <3>3 DEF Init, Observed, Fresh, Stream, Owns, Lost
  <2>2. Free(Early) /\ Explained
    BY <2>1, ShapeAbsent DEF Init, Free, Early, File, Explained
  <2>3. /\ head \in [Repo -> Nat] /\ faults \in Nat /\ before = [p \in Process |-> before[p]]
    BY DEF Init
  <2>4. target = [p \in Process |-> target[p]]
    <3> DEFINE first == CHOOSE r \in Repo : TRUE
    <3>1. target = [p \in Process |-> first] BY DEF Init
    <3> HIDE DEF first
    <3> QED BY <3>1
  <2> QED BY <2>1, <2>2, <2>3, <2>4 DEF EndInv
<1>2. IInv /\ EndInv /\ [Next]_vars => EndInv'
  <2> SUFFICES ASSUME IInv, EndInv, [Next]_vars PROVE EndInv' OBVIOUS
  <2>1. ASSUME damage' = 0 PROVE damage = 0
    BY <2>1, DamageStays DEF IInv, TypeOK
  <2>2. TypeOK BY DEF IInv
  <2> QED BY <2>1, <2>2, ObservedKeeps, FreshKeeps, StreamKeeps, ExplainedKeeps, FaultsCount,
     ExitReturns DEF EndInv
<1>3. IInv /\ EndInv => EndIsExplained
  <2> SUFFICES ASSUME IInv, EndInv, damage = 0, NEW p \in Process, pc[p] = "exit", done[p] # "refused"
               PROVE  /\ faults = 0 => done[p] = "final"
                      /\ faults <= 1 => Verifiable \/ seen.incomplete.there
    BY ReceiptIsExplained DEF EndIsExplained
  <2>1. done[p] \in {"failed", "final"} /\ Explained
    BY DEF EndInv, IInv, TypeOK
  <2>2. faults = 0 => done[p] = "final"
    BY <2>1 DEF Explained, Lost
  <2>3. done[p] = "final" => Verifiable \/ seen.incomplete.there
    BY FinalHolds DEF FinalIsVerified
  <2> QED BY <2>1, <2>2, <2>3 DEF Explained
<1> QED BY <1>1, <1>2, <1>3, AuditInvariant, PTL DEF Spec

=============================================================================
