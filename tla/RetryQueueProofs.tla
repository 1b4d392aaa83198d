-------------------------- MODULE RetryQueueProofs --------------------------
(* Proofs about RetryQueue, for any number of retry workers, webhook         *)
(* handlers, targets, attempts and faults: its typing, when a campaign lead  *)
(* can have two active retry chains, that a failed call is always queued,    *)
(* how often one worker can dial a chain and how far several can count it.   *)
EXTENDS RetryQueue, WellFoundedInduction, FiniteSetTheorems, TLAPS

\* The part of the typing the invariant needs.
Typed ==
    /\ chains \in Seq(Chain)
    /\ checked \in [Handlers -> SUBSET Insert]
    /\ attempts \in [Workers -> Nat]

\* The first n rows hold no chain of the target that no answered call closed.
NoneOpen(n, t) == \A i \in DOMAIN chains : i <= n /\ SameChain(i, t) => chains[i].answered

\* What a handler about to insert `new` has seen, and what the handler that
\* inserted row j had seen.
InsertSound(new) == new.seen <= Len(chains) /\ NoneOpen(new.seen, new.target)
RowSound(j) == chains[j].seen < j /\ NoneOpen(chains[j].seen, chains[j].target)

\* Only an answered call completes a chain; a handler about to insert a chain,
\* and every row, saw no open chain among the rows looked at.
ChainInv ==
    /\ \A r \in DOMAIN chains : chains[r].status = "completed" => chains[r].answered
    /\ \A h \in Handlers : \A new \in checked[h] : InsertSound(new)
    /\ \A j \in DOMAIN chains : RowSound(j)

\* A step that only ages rows, and inserts none, keeps the invariant.
Aged ==
    /\ chains' \in Seq(Chain)
    /\ Len(chains') = Len(chains)
    /\ \A i \in DOMAIN chains :
           /\ chains'[i].target = chains[i].target
           /\ chains'[i].seen = chains[i].seen
           /\ chains[i].answered => chains'[i].answered
           /\ chains'[i].status = "completed" => chains'[i].answered

\* The columns of a row.
LEMMA RowTyped ==
    ASSUME Typed, NEW r \in DOMAIN chains
    PROVE  /\ chains[r] \in Chain
           /\ chains[r].attempts \in Nat
           /\ chains[r].seen \in Nat
           /\ chains[r].status \in {"pending", "completed", "exhausted"}
           /\ r \in Nat
<1>1. chains[r] \in Chain /\ r \in Nat
  BY DEF Typed
<1> QED
  BY <1>1 DEF Chain

\* Rows that saw no open chain still saw none when the table has aged.
LEMMA NoneOpenAges ==
    ASSUME Typed, Aged, NEW n, NEW t, NoneOpen(n, t)
    PROVE  \A i \in DOMAIN chains' :
               i <= n /\ chains'[i].target = t /\ t \notin Uncampaigned => chains'[i].answered
<1>1. DOMAIN chains' = DOMAIN chains
  BY DEF Typed, Aged
<1> QED
  BY <1>1 DEF Aged, NoneOpen, SameChain

\* A table that has aged keeps its invariant as long as no handler checked it.
LEMMA AgingKeepsChains ==
    ASSUME Typed, ChainInv, Aged, UNCHANGED checked
    PROVE  ChainInv'
<1>1. DOMAIN chains' = DOMAIN chains /\ Len(chains') = Len(chains)
  BY DEF Typed, Aged
<1>2. ASSUME NEW h \in Handlers, NEW new \in checked[h] PROVE InsertSound(new)'
  <2>1. InsertSound(new)
    BY <1>2 DEF ChainInv
  <2>2. \A i \in DOMAIN chains' :
            i <= new.seen /\ chains'[i].target = new.target
            /\ new.target \notin Uncampaigned => chains'[i].answered
    BY <2>1, NoneOpenAges DEF InsertSound
  <2> QED
    BY <1>1, <2>1, <2>2 DEF InsertSound, NoneOpen, SameChain
<1>3. ASSUME NEW j \in DOMAIN chains PROVE RowSound(j)'
  <2>1. chains'[j].seen = chains[j].seen /\ chains'[j].target = chains[j].target
    BY DEF Aged
  <2>2. RowSound(j)
    BY DEF ChainInv
  <2>3. \A i \in DOMAIN chains' :
            i <= chains[j].seen /\ chains'[i].target = chains[j].target
            /\ chains[j].target \notin Uncampaigned => chains'[i].answered
    BY <2>2, NoneOpenAges DEF RowSound
  <2> QED
    BY <2>1, <2>2, <2>3 DEF RowSound, NoneOpen, SameChain
<1> QED
  BY <1>1, <1>2, <1>3 DEF Aged, ChainInv

\* Writing one row, without completing or retargeting it, ages the table.
LEMMA RowWritten ==
    ASSUME Typed, ChainInv, NEW r \in DOMAIN chains, NEW row \in Chain,
           chains' = [chains EXCEPT ![r] = row],
           row.target = chains[r].target,
           row.seen = chains[r].seen,
           row.answered = chains[r].answered,
           row.status = chains[r].status \/ row.status # "completed"
    PROVE  Aged
  BY DEF Typed, Aged, ChainInv

\* CompleteActiveRetry ages the table: what it completes, it marks answered.
LEMMA CompletionAges ==
    ASSUME Typed, ChainInv, NEW t \in Targets, chains' = CompleteActiveRetry(t)
    PROVE  Aged
<1>t. chains \in Seq(Chain) /\ Len(chains) \in Nat /\ DOMAIN chains = 1 .. Len(chains)
  BY DEF Typed
<1>1. ASSUME NEW i \in DOMAIN chains
      PROVE  /\ chains'[i] \in Chain
             /\ chains'[i].target = chains[i].target
             /\ chains'[i].seen = chains[i].seen
             /\ chains[i].answered => chains'[i].answered
             /\ chains'[i].status = "completed" => chains'[i].answered
  <2>1. chains[i] \in Chain /\ (chains[i].status = "completed" => chains[i].answered)
    BY <1>t DEF ChainInv
  <2>2. CASE ActiveChain(i, t)
    <3>1. chains'[i] = [chains[i] EXCEPT !.status = "completed", !.answered = TRUE]
      BY <2>2 DEF CompleteActiveRetry
    <3> QED
      BY <2>1, <3>1 DEF Chain
  <2>3. CASE ~ActiveChain(i, t)
    <3>1. chains'[i] = chains[i]
      BY <2>3 DEF CompleteActiveRetry
    <3> QED
      BY <2>1, <3>1
  <2> QED
    BY <2>2, <2>3
<1>2. DOMAIN chains' = 1 .. Len(chains) /\ chains' = [i \in 1 .. Len(chains) |-> chains'[i]]
  BY <1>t DEF CompleteActiveRetry
<1>3. chains' \in Seq(Chain) /\ Len(chains') = Len(chains)
  BY <1>t, <1>1, <1>2
<1> QED
  BY <1>1, <1>3 DEF Aged

\* The typing of the table and ChainInv hold in every reachable state.
THEOREM ChainInvariant == Spec => [](Typed /\ ChainInv)
<1>1. Init => Typed /\ ChainInv
  BY DEF Init, Typed, ChainInv
<1>2. Typed /\ ChainInv /\ [Next]_vars => Typed' /\ ChainInv'
  <2> SUFFICES ASSUME Typed, ChainInv, [Next]_vars PROVE Typed' /\ ChainInv'
    OBVIOUS
  <2>t. chains \in Seq(Chain) /\ Len(chains) \in Nat /\ DOMAIN chains = 1 .. Len(chains)
        /\ checked \in [Handlers -> SUBSET Insert] /\ attempts \in [Workers -> Nat]
    BY DEF Typed
  <2>u. ASSUME UNCHANGED <<chains, checked>>, attempts' \in [Workers -> Nat]
        PROVE  Typed' /\ ChainInv'
    BY <2>u DEF Typed, ChainInv, InsertSound, RowSound, NoneOpen, SameChain
  <2>0. CASE UNCHANGED <<chains, checked, attempts>>
    BY <2>u, <2>t, <2>0
  <2>1. ASSUME NEW w \in Workers, NEW r \in DOMAIN chains, ReadAttempts(w, r)
        PROVE  Typed' /\ ChainInv'
    <3>1. chains[r].attempts \in Nat
      BY RowTyped
    <3> QED
      BY <2>u, <2>t, <2>1, <3>1 DEF ReadAttempts
  <2>2. ASSUME NEW w \in Workers, IncrFails(w) \/ Crash(w)
        PROVE  Typed' /\ ChainInv'
    BY <2>u, <2>t, <2>2 DEF IncrFails, Crash
  <2>3. ASSUME NEW h \in Handlers, NEW c \in DOMAIN calls, ReceiveStatus(h, c)
        PROVE  Typed' /\ ChainInv'
    <3> PICK t \in Targets :
           /\ chains' = IF calls[c].log = "saved" /\ calls[c].outcome = "completed"
                        THEN CompleteActiveRetry(t) ELSE chains
           /\ checked' = IF calls[c].log = "saved" /\ calls[c].outcome = "failed"
                            /\ ~HasPendingOrExhaustedRetry(t)
                         THEN [checked EXCEPT ![h] = {[target |-> t, seen |-> Len(chains)]}]
                         ELSE checked
           /\ attempts' = attempts
      BY <2>3 DEF ReceiveStatus
    <3>1. CASE calls[c].log = "saved" /\ calls[c].outcome = "completed"
      <4>1. chains' = CompleteActiveRetry(t) /\ checked' = checked
        BY <3>1
      <4>2. Aged
        BY <4>1, CompletionAges
      <4> QED
        BY <2>t, <4>1, <4>2, AgingKeepsChains DEF Aged, Typed
    <3>2. CASE calls[c].log = "saved" /\ calls[c].outcome = "failed"
               /\ ~HasPendingOrExhaustedRetry(t)
      <4> DEFINE new == [target |-> t, seen |-> Len(chains)]
      <4>1. chains' = chains /\ checked' = [checked EXCEPT ![h] = {new}]
        BY <3>2
      <4>2. \A i \in DOMAIN chains : chains[i].status \in {"pending", "completed", "exhausted"}
        BY RowTyped
      <4>3. NoneOpen(Len(chains), t)
        BY <3>2, <4>2 DEF NoneOpen, HasPendingOrExhaustedRetry, ActiveChain, ChainInv
      <4>4. new \in Insert /\ InsertSound(new)
        BY <2>t, <4>3 DEF Insert, InsertSound
      <4> HIDE DEF new
      <4>5. \A g \in Handlers : \A n \in checked'[g] : InsertSound(n)
        BY <2>t, <4>1, <4>4 DEF ChainInv
      <4>6. checked' \in [Handlers -> SUBSET Insert]
        BY <2>t, <4>1, <4>4
      <4> QED
        BY <2>t, <4>1, <4>5, <4>6
        DEF Typed, ChainInv, InsertSound, RowSound, NoneOpen, SameChain
    <3>3. CASE UNCHANGED <<chains, checked>>
      BY <2>0, <3>3
    <3> QED
      BY <3>1, <3>2, <3>3
  <2>4. ASSUME NEW h \in Handlers, CreateRetry(h) PROVE Typed' /\ ChainInv'
    <3>1. checked' = [checked EXCEPT ![h] = {}] /\ attempts' = attempts
      BY <2>4 DEF CreateRetry
    <3>2. checked' \in [Handlers -> SUBSET Insert]
          /\ \A g \in Handlers : checked'[g] \subseteq checked[g]
      BY <2>t, <3>1
    <3>3. CASE UNCHANGED chains
      BY <2>t, <3>1, <3>2, <3>3
      DEF Typed, ChainInv, InsertSound, RowSound, NoneOpen, SameChain
    <3>4. ASSUME NEW new \in checked[h],
                 chains' = Append(chains,
                    [target |-> new.target, attempts |-> 0, status |-> "pending",
                     answered |-> FALSE, seen |-> new.seen])
          PROVE  Typed' /\ ChainInv'
      <4> DEFINE row == [target |-> new.target, attempts |-> 0, status |-> "pending",
                         answered |-> FALSE, seen |-> new.seen]
      <4>1. new \in Insert /\ InsertSound(new)
        BY <2>t DEF ChainInv
      <4>2. row \in Chain /\ row.target = new.target /\ row.seen = new.seen
            /\ row.status = "pending"
        BY <4>1 DEF Chain, Insert
      <4> HIDE DEF row
      <4>3. chains' = Append(chains, row)
        BY <3>4 DEF row
      <4>4. /\ chains' \in Seq(Chain)
            /\ Len(chains') = Len(chains) + 1
            /\ DOMAIN chains' = 1 .. Len(chains) + 1
            /\ \A i \in DOMAIN chains : chains'[i] = chains[i]
            /\ chains'[Len(chains) + 1] = row
        BY <2>t, <4>2, <4>3
      <4>5. ASSUME NEW n \in Nat, n <= Len(chains), NEW t, NoneOpen(n, t)
            PROVE  \A i \in DOMAIN chains' :
                       i <= n /\ chains'[i].target = t /\ t \notin Uncampaigned
                           => chains'[i].answered
        BY <2>t, <4>4, <4>5 DEF NoneOpen, SameChain
      <4>6. \A r \in DOMAIN chains' : chains'[r].status = "completed" => chains'[r].answered
        <5> TAKE r \in DOMAIN chains'
        <5>1. CASE r \in DOMAIN chains
          BY <4>4, <5>1 DEF ChainInv
        <5>2. CASE r = Len(chains) + 1
          BY <4>2, <4>4, <5>2
        <5> QED
          BY <2>t, <4>4, <5>1, <5>2
      <4>7. ASSUME NEW g \in Handlers, NEW n \in checked'[g] PROVE InsertSound(n)'
        <5>1. n \in Insert /\ InsertSound(n) /\ n.seen \in Nat
          BY <2>t, <3>2, <4>7 DEF ChainInv, Insert
        <5>2. \A i \in DOMAIN chains' :
                  i <= n.seen /\ chains'[i].target = n.target
                  /\ n.target \notin Uncampaigned => chains'[i].answered
          BY <5>1, <4>5 DEF InsertSound
        <5> QED
          BY <2>t, <4>4, <5>1, <5>2 DEF InsertSound, NoneOpen, SameChain
      <4>8. ASSUME NEW j \in DOMAIN chains' PROVE RowSound(j)'
        <5>1. CASE j \in DOMAIN chains
          <6>1. RowSound(j) /\ chains[j].seen \in Nat /\ chains[j].seen <= Len(chains)
            <7>1. RowSound(j) /\ chains[j].seen < j
              BY <5>1 DEF ChainInv, RowSound
            <7>2. chains[j].seen \in Nat /\ j \in Nat /\ j <= Len(chains)
              BY <2>t, <5>1, RowTyped
            <7> QED
              BY <2>t, <7>1, <7>2
          <6>2. \A i \in DOMAIN chains' :
                    i <= chains[j].seen /\ chains'[i].target = chains[j].target
                    /\ chains[j].target \notin Uncampaigned => chains'[i].answered
            BY <6>1, <4>5 DEF RowSound
          <6> QED
            BY <4>4, <5>1, <6>1, <6>2 DEF RowSound, NoneOpen, SameChain
        <5>2. CASE j = Len(chains) + 1
          <6>1. new.seen \in Nat /\ new.seen <= Len(chains) /\ NoneOpen(new.seen, new.target)
            BY <4>1 DEF InsertSound, Insert
          <6>2. \A i \in DOMAIN chains' :
                    i <= new.seen /\ chains'[i].target = new.target
                    /\ new.target \notin Uncampaigned => chains'[i].answered
            BY <6>1, <4>5
          <6> QED
            BY <2>t, <4>2, <4>4, <5>2, <6>1, <6>2 DEF RowSound, NoneOpen, SameChain
        <5> QED
          BY <2>t, <4>4, <5>1, <5>2
      <4> QED
        BY <2>t, <3>1, <3>2, <4>4, <4>6, <4>7, <4>8 DEF Typed, ChainInv
    <3> QED
      BY <2>4, <3>3, <3>4 DEF CreateRetry
  <2>5. ASSUME NEW w \in Workers, NEW r \in DOMAIN chains, LeadMissing(w, r)
        PROVE  Typed' /\ ChainInv'
    <3> DEFINE row == [chains[r] EXCEPT !.status = "exhausted"]
    <3>1. chains' = [chains EXCEPT ![r] = row] /\ UNCHANGED <<checked, attempts>>
      BY <2>t, <2>5 DEF LeadMissing
    <3>2. chains[r] \in Chain
      BY <2>t
    <3>3. row \in Chain /\ row.target = chains[r].target /\ row.seen = chains[r].seen
          /\ row.answered = chains[r].answered /\ row.status # "completed"
      BY <3>2 DEF Chain
    <3> HIDE DEF row
    <3>4. Aged
      BY <3>1, <3>3, RowWritten
    <3> QED
      BY <2>t, <3>1, <3>4, AgingKeepsChains DEF Aged, Typed
  <2>6. ASSUME NEW w \in Workers, NEW r \in DOMAIN chains, WriteAttempts(w, r)
        PROVE  Typed' /\ ChainInv'
    <3> DEFINE row == Incremented(chains[r], attempts[w] + 1)
    <3>1. chains' = [chains EXCEPT ![r] = row] /\ UNCHANGED checked
          /\ attempts' \in [Workers -> Nat]
      BY <2>t, <2>6 DEF WriteAttempts
    <3>2. chains[r] \in Chain /\ attempts[w] + 1 \in Nat
      BY <2>t
    <3>3. row \in Chain /\ row.target = chains[r].target /\ row.seen = chains[r].seen
          /\ row.answered = chains[r].answered
          /\ (row.status = chains[r].status \/ row.status # "completed")
      BY <3>2 DEF Chain, Incremented
    <3> HIDE DEF row
    <3>4. Aged
      BY <3>1, <3>3, RowWritten
    <3> QED
      BY <2>t, <3>1, <3>4, AgingKeepsChains DEF Aged, Typed
  <2> QED
    BY <2>0, <2>1, <2>2, <2>3, <2>4, <2>5, <2>6
    DEF Next, WorkerStep, CampaignDial, SaveCallLog, CarrierEnds, BecomeDue, ListDue,
        NoCredit, Dial, RunOut, vars
<1> QED
  BY <1>1, <1>2, PTL DEF Spec

\* A campaign lead has two active retry chains only when two webhook handlers
\* raced, or an answered call had completed the first and a retry worker
\* reopened it, whatever the number of workers, handlers, calls and faults.
THEOREM DuplicateChainsOnlyFromRaces == Spec => []DuplicateChainOnlyWhenRacing
<1>1. Typed /\ ChainInv => DuplicateChainOnlyWhenRacing
  <2> SUFFICES ASSUME Typed, ChainInv,
                      NEW i \in DOMAIN chains, NEW j \in DOMAIN chains,
                      SameChain(i, chains[j].target)
               PROVE  chains[j].seen < i \/ chains[i].answered
    BY DEF DuplicateChainOnlyWhenRacing
  <2>1. NoneOpen(chains[j].seen, chains[j].target)
    BY DEF ChainInv, RowSound
  <2>2. i \in Nat /\ chains[j].seen \in Nat
    BY RowTyped
  <2> QED
    BY <2>1, <2>2 DEF NoneOpen
<1> QED
  BY <1>1, ChainInvariant, PTL

-----------------------------------------------------------------------------
(* A failed call is queued.                                                  *)

\* A final callback found the log row of a call of t that ended with o.
Reported(t, o) ==
    \E c \in DOMAIN calls : calls[c].target = t /\ calls[c].told /\ calls[c].outcome = o

\* A handler is about to queue t, or t has a chain that is active or answered.
Checked(t) == \E h \in Handlers : \E new \in checked[h] : new.target = t
Chained(t) ==
    \E r \in DOMAIN chains : chains[r].target = t /\ (Active(r) \/ Reported(t, "completed"))

\* The carrier reports a call that has ended.
CallsTyped ==
    /\ calls \in Seq(Call)
    /\ faults \in Nat
    /\ \A c \in DOMAIN calls : calls[c].left > 0 => calls[c].outcome # "ringing"
    /\ \A c \in DOMAIN calls : calls[c].told => calls[c].outcome # "ringing"
    /\ \A h \in Handlers : \A a, b \in checked[h] : a = b

QueueInv == faults = 0 => \A t \in Targets : Reported(t, "failed") => Checked(t) \/ Chained(t)

\* A step that reports no call.
CallsKept ==
    /\ calls' \in Seq(Call)
    /\ DOMAIN calls \subseteq DOMAIN calls'
    /\ \A c \in DOMAIN calls :
         /\ calls'[c].target = calls[c].target /\ calls'[c].told = calls[c].told
         /\ calls[c].outcome # "ringing" => calls'[c].outcome = calls[c].outcome
         /\ calls'[c].left > 0 => calls'[c].outcome # "ringing"
    /\ \A c \in DOMAIN calls' \ DOMAIN calls : ~calls'[c].told /\ ~(calls'[c].left > 0)

LEMMA CallTyped ==
    ASSUME CallsTyped, NEW c \in DOMAIN calls
    PROVE  /\ calls[c] \in Call /\ calls[c].left \in Nat /\ calls[c].target \in Targets
           /\ calls[c].told \in BOOLEAN
<1>1. calls[c] \in Call
  BY DEF CallsTyped
<1> QED
  BY <1>1 DEF Call

\* A row of calls rewritten.
LEMMA OneCallKept ==
    ASSUME CallsTyped, NEW c \in DOMAIN calls, NEW call \in Call, calls' = [calls EXCEPT ![c] = call],
           call.target = calls[c].target, call.told = calls[c].told,
           calls[c].outcome # "ringing" => call.outcome = calls[c].outcome,
           call.left > 0 => call.outcome # "ringing"
    PROVE  CallsKept
<1>1. /\ calls' \in Seq(Call) /\ DOMAIN calls' = DOMAIN calls /\ calls'[c] = call
      /\ \A d \in DOMAIN calls : d # c => calls'[d] = calls[d]
  BY DEF CallsTyped
<1> QED
  BY <1>1 DEF CallsKept, CallsTyped

LEMMA RingKeepsCalls ==
    ASSUME CallsTyped, NEW t \in Targets, NEW r \in Nat, Ring(t, r)
    PROVE  CallsKept
<1> DEFINE call == [target |-> t, retry |-> r, told |-> FALSE, left |-> 0,
                    log |-> "unsaved", outcome |-> "ringing"]
<1>1. call \in Call /\ ~call.told /\ ~(call.left > 0)
  BY DEF Call
<1>2. calls \in Seq(Call) /\ calls' = Append(calls, call)
  BY DEF CallsTyped, Ring
<1> HIDE DEF call
<1>3. /\ calls' \in Seq(Call) /\ DOMAIN calls' = DOMAIN calls \cup {Len(calls) + 1}
      /\ \A d \in DOMAIN calls : calls'[d] = calls[d]
      /\ calls'[Len(calls) + 1] = call
  BY <1>1, <1>2
<1> QED
  BY <1>1, <1>3 DEF CallsKept, CallsTyped

LEMMA CrashKeepsCalls ==
    ASSUME CallsTyped, NEW w \in Workers, Crash(w)
    PROVE  CallsKept
<1>1. ASSUME NEW c \in DOMAIN calls
      PROVE  /\ calls'[c] \in Call /\ calls'[c].target = calls[c].target
             /\ calls'[c].told = calls[c].told /\ calls'[c].outcome = calls[c].outcome
             /\ calls'[c].left = calls[c].left
  <2>1. calls[c] \in Call
    BY CallTyped
  <2>2. calls'[c] = [calls[c] EXCEPT !.log = "lost"] \/ calls'[c] = calls[c]
    BY DEF Crash
  <2> QED
    BY <2>1, <2>2 DEF Call
<1>2. calls' \in Seq(Call) /\ DOMAIN calls' = DOMAIN calls
  <2>1. /\ DOMAIN calls = 1 .. Len(calls) /\ Len(calls) \in Nat
        /\ calls' = [c \in 1 .. Len(calls) |-> calls'[c]]
    BY DEF CallsTyped, Crash
  <2> QED
    BY <1>1, <2>1
<1> QED
  BY <1>1, <1>2 DEF CallsKept, CallsTyped

LEMMA ReportsKept ==
    ASSUME CallsTyped, CallsKept, NEW t, NEW o, o # "ringing"
    PROVE  Reported(t, o)' <=> Reported(t, o)
<1>1. ASSUME Reported(t, o) PROVE Reported(t, o)'
  <2>1. PICK c \in DOMAIN calls : calls[c].target = t /\ calls[c].told /\ calls[c].outcome = o
    BY <1>1 DEF Reported
  <2>2. c \in DOMAIN calls' /\ calls'[c].target = t /\ calls'[c].told /\ calls'[c].outcome = o
    BY <2>1 DEF CallsKept
  <2> QED
    BY <2>2 DEF Reported
<1>2. ASSUME Reported(t, o)' PROVE Reported(t, o)
  <2>1. PICK c \in DOMAIN calls' : calls'[c].target = t /\ calls'[c].told /\ calls'[c].outcome = o
    BY <1>2 DEF Reported
  <2>2. c \in DOMAIN calls /\ calls[c].told /\ calls[c].target = t
    BY <2>1 DEF CallsKept
  <2>3. calls[c].outcome # "ringing"
    BY <2>2 DEF CallsTyped
  <2>4. calls[c].outcome = o
    BY <2>1, <2>2, <2>3 DEF CallsKept
  <2> QED
    BY <2>2, <2>4 DEF Reported
<1> QED
  BY <1>1, <1>2

LEMMA TypingOfCallsKept ==
    ASSUME CallsTyped, CallsKept, faults' \in Nat, UNCHANGED checked
    PROVE  CallsTyped'
<1>1. \A c \in DOMAIN calls' : calls'[c].left > 0 => calls'[c].outcome # "ringing"
  BY DEF CallsKept
<1>2. \A c \in DOMAIN calls' : calls'[c].told => calls'[c].outcome # "ringing"
  <2> SUFFICES ASSUME NEW c \in DOMAIN calls', calls'[c].told PROVE calls'[c].outcome # "ringing"
    OBVIOUS
  <2>1. c \in DOMAIN calls /\ calls[c].told
    BY DEF CallsKept
  <2>2. calls[c].outcome # "ringing"
    BY <2>1 DEF CallsTyped
  <2> QED
    BY <2>1, <2>2 DEF CallsKept
<1>3. calls' \in Seq(Call)
  BY DEF CallsKept
<1> QED
  BY <1>1, <1>2, <1>3, Zenon DEF CallsTyped

\* The rows stay, with their targets, and the active ones stay active.
ChainsKept ==
    \A r \in DOMAIN chains : /\ r \in DOMAIN chains'
                             /\ chains'[r].target = chains[r].target
                             /\ Active(r) => Active(r)'

LEMMA QueueKept ==
    ASSUME CallsTyped, CallsKept, ChainsKept, QueueInv, UNCHANGED checked, faults' = faults
    PROVE  QueueInv'
<1> SUFFICES ASSUME faults = 0, NEW t \in Targets, Reported(t, "failed")'
             PROVE  Checked(t)' \/ Chained(t)'
  BY DEF QueueInv
<1>1. /\ Reported(t, "failed")
      /\ Reported(t, "completed") => Reported(t, "completed")'
  BY ReportsKept
<1>2. Checked(t) \/ Chained(t)
  BY <1>1 DEF QueueInv
<1>3. Checked(t) => Checked(t)'
  BY DEF Checked
<1>4. ASSUME Chained(t) PROVE Chained(t)'
  <2>1. PICK r \in DOMAIN chains :
          chains[r].target = t /\ (Active(r) \/ Reported(t, "completed"))
    BY <1>4 DEF Chained
  <2>2. /\ r \in DOMAIN chains' /\ chains'[r].target = t
        /\ Active(r)' \/ Reported(t, "completed")'
    BY <1>1, <2>1 DEF ChainsKept
  <2> QED
    BY <2>2, Zenon DEF Chained
<1> QED
  BY <1>2, <1>3, <1>4

\* A callback that was delivered.
LEMMA CountedDown ==
    ASSUME NEW call \in Call, call.left > 0, NEW b
    PROVE  [call EXCEPT !.left = @ - 1, !.told = @ \/ b] \in Call
<1>1. [call EXCEPT !.left = @ - 1] \in Call
  BY DEF Call
<1>2. ASSUME NEW one \in Call, NEW p \in BOOLEAN PROVE [one EXCEPT !.told = p] \in Call
  BY <1>2 DEF Call
<1>3. (call.told \/ b) \in BOOLEAN
  OBVIOUS
<1>4. [call EXCEPT !.left = @ - 1, !.told = @ \/ b]
        = [[call EXCEPT !.left = @ - 1] EXCEPT !.told = (call.told \/ b)]
  BY DEF Call
<1> QED
  BY <1>1, <1>2, <1>3, <1>4, Zenon

\* A final callback: either it finds no log row, or the call is reported and its
\* target is looked after.
LEMMA ReceiveKeepsQueue ==
    ASSUME Typed, CallsTyped, QueueInv, NEW h \in Handlers, NEW c \in DOMAIN calls,
           ReceiveStatus(h, c), NEW t, t = calls[c].target
    PROVE  CallsTyped' /\ QueueInv'
<1> DEFINE call == [calls[c] EXCEPT !.left = @ - 1, !.told = @ \/ calls[c].log = "saved"]
           saved == calls[c].log = "saved"
<1>1. calls[c] \in Call /\ calls[c].left \in Nat /\ t \in Targets /\ calls[c].told \in BOOLEAN
      /\ calls[c].left > 0
  BY CallTyped DEF ReceiveStatus
<1>2. call \in Call
  <2>1. call.told \in BOOLEAN
    BY <1>1 DEF Call
  <2> QED
    BY <1>1, CountedDown
<1>3. /\ call.target = t /\ call.outcome = calls[c].outcome
      /\ call.told <=> (calls[c].told \/ saved)
  BY <1>1, Zenon DEF Call
<1>4. call.outcome # "ringing"
  BY <1>1, <1>3 DEF CallsTyped
<1>5. /\ calls' = [calls EXCEPT ![c] = call] /\ UNCHANGED faults /\ checked[h] = {}
      /\ chains' = IF saved /\ calls[c].outcome = "completed"
                   THEN CompleteActiveRetry(t) ELSE chains
      /\ checked' = IF saved /\ calls[c].outcome = "failed" /\ ~HasPendingOrExhaustedRetry(t)
                    THEN [checked EXCEPT ![h] = {[target |-> t, seen |-> Len(chains)]}]
                    ELSE checked
  BY DEF ReceiveStatus
<1> HIDE DEF call
<1>6. /\ calls' \in Seq(Call) /\ DOMAIN calls' = DOMAIN calls /\ calls'[c] = call
      /\ \A d \in DOMAIN calls : d # c => calls'[d] = calls[d]
  BY <1>2, <1>5 DEF CallsTyped
<1>7. checked \in [Handlers -> SUBSET Insert]
  BY DEF Typed
<1>8. CallsTyped'
  <2>1. \A d \in DOMAIN calls' : calls'[d].left > 0 => calls'[d].outcome # "ringing"
    BY <1>4, <1>6 DEF CallsTyped
  <2>2. \A d \in DOMAIN calls' : calls'[d].told => calls'[d].outcome # "ringing"
    BY <1>4, <1>6 DEF CallsTyped
  <2>3. \A g \in Handlers : \A a, b \in checked'[g] : a = b
    BY <1>5, <1>7 DEF CallsTyped
  <2> QED
    BY <1>5, <1>6, <2>1, <2>2, <2>3 DEF CallsTyped
<1>9. \A u, o : Reported(u, o) => Reported(u, o)'
  <2> SUFFICES ASSUME NEW u, NEW o, Reported(u, o) PROVE Reported(u, o)'
    OBVIOUS
  <2>1. PICK d \in DOMAIN calls : calls[d].target = u /\ calls[d].told /\ calls[d].outcome = o
    BY DEF Reported
  <2>2. calls'[d].target = u /\ calls'[d].told /\ calls'[d].outcome = o
    BY <1>3, <1>6, <2>1
  <2> QED
    BY <1>6, <2>2 DEF Reported
<1>10. ASSUME NEW u \in Targets, Reported(u, "failed")', ~Reported(u, "failed")
       PROVE  u = t /\ saved /\ calls[c].outcome = "failed"
  <2>1. PICK d \in DOMAIN calls' :
          calls'[d].target = u /\ calls'[d].told /\ calls'[d].outcome = "failed"
    BY <1>10 DEF Reported
  <2>2. ~(calls[d].target = u /\ calls[d].told /\ calls[d].outcome = "failed")
    BY <1>6, <1>10, <2>1 DEF Reported
  <2> QED
    BY <1>3, <1>6, <2>1, <2>2
<1>11. ASSUME NEW u \in Targets, Checked(u) PROVE Checked(u)'
  <2>1. PICK g \in Handlers : \E new \in checked[g] : new.target = u
    BY <1>11 DEF Checked
  <2>2. checked'[g] = checked[g]
    BY <1>5, <1>7, <2>1
  <2> QED
    BY <2>1, <2>2 DEF Checked
<1>12. \A r \in DOMAIN chains : r \in DOMAIN chains' /\ chains'[r].target = chains[r].target
         /\ (Active(r) => Active(r)' \/ (saved /\ calls[c].outcome = "completed"
                                         /\ chains[r].target = t))
  <2> SUFFICES ASSUME NEW r \in DOMAIN chains
               PROVE  r \in DOMAIN chains' /\ chains'[r].target = chains[r].target
                      /\ (Active(r) => Active(r)' \/ (saved /\ calls[c].outcome = "completed"
                                                      /\ chains[r].target = t))
    OBVIOUS
  <2>1. CASE saved /\ calls[c].outcome = "completed"
    <3>1. r \in DOMAIN chains' /\ chains[r] \in Chain
      <4>1. chains' = CompleteActiveRetry(t)
        BY <1>5, <2>1
      <4> QED
        BY <4>1, RowTyped DEF CompleteActiveRetry
    <3>2. CASE ActiveChain(r, t)
      <4>1. chains'[r] = [chains[r] EXCEPT !.status = "completed", !.answered = TRUE]
        BY <1>5, <2>1, <3>2 DEF CompleteActiveRetry
      <4>2. chains[r].target = t
        BY <3>2 DEF ActiveChain, SameChain
      <4>3. chains'[r].target = chains[r].target
        BY <3>1, <4>1 DEF Chain
      <4> QED
        BY <2>1, <3>1, <4>2, <4>3
    <3>3. CASE ~ActiveChain(r, t)
      <4>1. chains'[r] = chains[r]
        BY <1>5, <2>1, <3>3 DEF CompleteActiveRetry
      <4> QED
        BY <3>1, <4>1 DEF Active
    <3> QED
      BY <3>2, <3>3
  <2>2. CASE ~(saved /\ calls[c].outcome = "completed")
    BY <1>5, <2>2 DEF Active
  <2> QED
    BY <2>1, <2>2
<1>13. saved /\ calls[c].outcome = "completed" => Reported(t, "completed")'
  BY <1>3, <1>6 DEF Reported
<1>14. ASSUME NEW u \in Targets, Chained(u) PROVE Chained(u)'
  <2>1. PICK r \in DOMAIN chains :
          chains[r].target = u /\ (Active(r) \/ Reported(u, "completed"))
    BY <1>14 DEF Chained
  <2>2. r \in DOMAIN chains' /\ chains'[r].target = u /\ (Active(r)' \/ Reported(u, "completed")')
    BY <1>9, <1>12, <1>13, <2>1
  <2> QED
    BY <2>2, Zenon DEF Chained
<1>15. ASSUME saved, calls[c].outcome = "failed" PROVE Checked(t)' \/ Chained(t)'
  <2>1. CASE HasPendingOrExhaustedRetry(t)
    <3>1. PICK r \in DOMAIN chains : ActiveChain(r, t)
      BY <2>1 DEF HasPendingOrExhaustedRetry
    <3>2. chains[r].target = t /\ Active(r)
      BY <3>1 DEF ActiveChain, SameChain, Active
    <3>3. Chained(t)
      BY <3>2 DEF Chained
    <3> QED
      BY <1>1, <1>14, <3>3
  <2>2. CASE ~HasPendingOrExhaustedRetry(t)
    <3>1. [target |-> t, seen |-> Len(chains)] \in checked'[h]
      BY <1>5, <1>7, <1>15, <2>2
    <3>2. [target |-> t, seen |-> Len(chains)].target = t
      OBVIOUS
    <3> QED
      BY <3>1, <3>2 DEF Checked
  <2> QED
    BY <2>1, <2>2
<1>16. \A u \in Targets : faults' = 0 /\ Reported(u, "failed")' => Checked(u)' \/ Chained(u)'
  BY <1>5, <1>10, <1>11, <1>14, <1>15 DEF QueueInv
<1> QED
  BY <1>8, <1>16, Zenon DEF QueueInv

\* The handler's row is inserted, or an INSERT failed.
LEMMA CreateKeepsQueue ==
    ASSUME Typed, CallsTyped, QueueInv, NEW h \in Handlers, CreateRetry(h)
    PROVE  CallsTyped' /\ QueueInv'
<1>1. /\ checked' = [checked EXCEPT ![h] = {}] /\ UNCHANGED calls
      /\ checked \in [Handlers -> SUBSET Insert] /\ faults \in Nat
  BY DEF CreateRetry, Typed, CallsTyped
<1>2. PICK new \in checked[h] :
        \/ /\ chains' = Append(chains, [target |-> new.target, attempts |-> 0,
                            status |-> "pending", answered |-> FALSE, seen |-> new.seen])
           /\ UNCHANGED faults
        \/ Fault /\ UNCHANGED chains
  BY DEF CreateRetry
<1>3. CallsTyped'
  <2>1. faults' \in Nat
    BY <1>1, <1>2 DEF Fault
  <2>2. \A g \in Handlers : \A a, b \in checked'[g] : a = b
    BY <1>1 DEF CallsTyped
  <2> QED
    BY <1>1, <2>1, <2>2 DEF CallsTyped
<1>4. CASE Fault
  BY <1>1, <1>3, <1>4 DEF QueueInv, Fault
<1>5. CASE ~Fault
  <2> DEFINE row == [target |-> new.target, attempts |-> 0, status |-> "pending",
                     answered |-> FALSE, seen |-> new.seen]
  <2>1. chains' = Append(chains, row) /\ faults' = faults /\ row.target = new.target
        /\ row.status = "pending"
    BY <1>2, <1>5
  <2> HIDE DEF row
  <2>2. chains \in Seq(Chain)
    BY DEF Typed
  <2>3. /\ DOMAIN chains' = DOMAIN chains \cup {Len(chains) + 1}
        /\ \A r \in DOMAIN chains : chains'[r] = chains[r]
        /\ chains'[Len(chains) + 1] = row
    BY <2>1, <2>2
  <2>4. \A t, o : Reported(t, o)' <=> Reported(t, o)
    BY <1>1 DEF Reported
  <2>5. \A t : Chained(t) => Chained(t)'
    BY <2>3, <2>4 DEF Chained, Active
  <2>6. Chained(new.target)'
    <3>1. PICK n \in DOMAIN chains' : n = Len(chains) + 1 /\ chains'[n] = row
      BY <2>3
    <3>2. chains'[n].target = new.target /\ Active(n)'
      BY <2>1, <3>1 DEF Active
    <3> QED
      BY <3>2, Zenon DEF Chained
  <2>7. \A t : Checked(t) => Checked(t)' \/ t = new.target
    BY <1>1, <1>2 DEF Checked, CallsTyped
  <2> QED
    BY <1>3, <2>1, <2>4, <2>5, <2>6, <2>7 DEF QueueInv
<1> QED
  BY <1>4, <1>5

LEMMA StepKeepsQueue ==
    ASSUME Typed, CallsTyped, QueueInv, [Next]_vars
    PROVE  CallsTyped' /\ QueueInv'
<1>t. chains \in Seq(Chain) /\ faults \in Nat /\ attempts \in [Workers -> Nat]
  BY DEF Typed, CallsTyped
<1>0. /\ UNCHANGED calls => CallsKept
      /\ UNCHANGED chains => ChainsKept
  BY DEF CallsKept, CallsTyped, ChainsKept, Active
<1>1. ASSUME CallsKept, UNCHANGED checked, Fault PROVE CallsTyped' /\ QueueInv'
  <2>1. faults' \in Nat /\ faults' # 0
    BY <1>t, <1>1 DEF Fault
  <2> QED
    BY <1>1, <2>1, TypingOfCallsKept DEF QueueInv
<1>2. ASSUME CallsKept, ChainsKept, UNCHANGED checked, faults' = faults
      PROVE  CallsTyped' /\ QueueInv'
  BY <1>t, <1>2, TypingOfCallsKept, QueueKept
<1>3. ASSUME UNCHANGED <<calls, chains, checked>>, faults' = faults
      PROVE  CallsTyped' /\ QueueInv'
  BY <1>0, <1>2, <1>3
<1>4. ASSUME NEW t \in Targets, CampaignDial(t) PROVE CallsTyped' /\ QueueInv'
  <2>1. UNCHANGED <<chains, checked, faults>> /\ Ring(t, 0)
    BY <1>4 DEF CampaignDial
  <2> QED
    BY <1>0, <1>2, <2>1, RingKeepsCalls
<1>5. ASSUME NEW c \in DOMAIN calls, SaveCallLog(c) PROVE CallsTyped' /\ QueueInv'
  <2>1. ASSUME NEW l \in {"saved", "lost"}, calls' = [calls EXCEPT ![c].log = l] PROVE CallsKept
    <3> DEFINE call == [calls[c] EXCEPT !.log = l]
    <3>1. calls[c] \in Call
      BY CallTyped
    <3>2. /\ call \in Call /\ call.target = calls[c].target /\ call.outcome = calls[c].outcome
          /\ call.left = calls[c].left
      BY <3>1 DEF Call
    <3>3. call.told = calls[c].told
      BY <3>1, Zenon DEF Call
    <3>4. calls' = [calls EXCEPT ![c] = call]
      BY <2>1
    <3> HIDE DEF call
    <3> QED
      BY <3>2, <3>3, <3>4, OneCallKept DEF CallsTyped
  <2>2. CallsKept
    BY <1>5, <2>1 DEF SaveCallLog
  <2>3. UNCHANGED <<chains, checked>> /\ (faults' = faults \/ Fault)
    BY <1>5 DEF SaveCallLog
  <2> QED
    BY <1>0, <1>1, <1>2, <2>2, <2>3
<1>6. ASSUME NEW c \in DOMAIN calls, CarrierEnds(c) PROVE CallsTyped' /\ QueueInv'
  <2>1. PICK n \in 0 .. MaxDeliveries - deliveries, o \in {"completed", "failed"} :
          calls' = [calls EXCEPT ![c].outcome = o, ![c].left = n]
    BY <1>6 DEF CarrierEnds
  <2> DEFINE call == [calls[c] EXCEPT !.outcome = o, !.left = n]
  <2>2. calls[c] \in Call /\ n \in Nat
    BY CallTyped
  <2>3. call \in Call /\ call.target = calls[c].target /\ call.outcome = o
    BY <2>2 DEF Call
  <2>4. call.told = calls[c].told
    BY <2>2, Zenon DEF Call
  <2>5. calls' = [calls EXCEPT ![c] = call] /\ calls[c].outcome = "ringing"
        /\ UNCHANGED <<chains, checked, faults>>
    BY <1>6, <2>1 DEF CarrierEnds
  <2> HIDE DEF call
  <2>6. CallsKept
    BY <2>3, <2>4, <2>5, OneCallKept
  <2> QED
    BY <1>0, <1>2, <2>5, <2>6
<1>7. ASSUME NEW c \in DOMAIN calls, NEW h \in Handlers, ReceiveStatus(h, c)
      PROVE  CallsTyped' /\ QueueInv'
  BY <1>7, ReceiveKeepsQueue
<1>8. ASSUME NEW h \in Handlers, CreateRetry(h) PROVE CallsTyped' /\ QueueInv'
  BY <1>8, CreateKeepsQueue
<1>9. ASSUME NEW w \in Workers, NEW r \in DOMAIN chains, LeadMissing(w, r)
      PROVE  CallsTyped' /\ QueueInv'
  BY <1>0, <1>1, <1>9 DEF LeadMissing
<1>10. ASSUME NEW w \in Workers, NEW r \in DOMAIN chains, Dial(w, r)
       PROVE  CallsTyped' /\ QueueInv'
  <2>1. chains[r] \in Chain /\ r \in Nat
    BY <1>t
  <2>2. chains[r].target \in Targets
    BY <2>1 DEF Chain
  <2>3. /\ UNCHANGED <<chains, checked>> /\ (faults' = faults \/ Fault)
        /\ Ring(chains[r].target, r) \/ UNCHANGED calls
    BY <1>10 DEF Dial
  <2>4. CallsKept
    BY <1>0, <2>1, <2>2, <2>3, RingKeepsCalls
  <2> QED
    BY <1>0, <1>1, <1>2, <2>3, <2>4
<1>11. ASSUME NEW w \in Workers, NEW r \in DOMAIN chains, WriteAttempts(w, r)
       PROVE  CallsTyped' /\ QueueInv'
  <2> DEFINE row == Incremented(chains[r], attempts[w] + 1)
  <2>1. chains[r] \in Chain /\ attempts[w] + 1 \in Nat
    BY <1>t
  <2>2. row.target = chains[r].target
        /\ (row.status = chains[r].status \/ row.status = "exhausted")
    BY <2>1 DEF Incremented, Chain
  <2>3. chains' = [chains EXCEPT ![r] = row] /\ UNCHANGED <<calls, checked, faults>>
    BY <1>11 DEF WriteAttempts
  <2> HIDE DEF row
  <2>4. ChainsKept
    BY <1>t, <2>2, <2>3 DEF ChainsKept, Active
  <2> QED
    BY <1>0, <1>2, <2>3, <2>4
<1>12. ASSUME NEW w \in Workers, IncrFails(w) \/ Crash(w) PROVE CallsTyped' /\ QueueInv'
  <2>1. CallsKept
    BY <1>0, <1>12, CrashKeepsCalls DEF IncrFails
  <2> QED
    BY <1>1, <1>12, <2>1 DEF IncrFails, Crash
<1>13. ASSUME NEW r \in DOMAIN chains, BecomeDue(r) PROVE CallsTyped' /\ QueueInv'
  BY <1>3, <1>13 DEF BecomeDue
<1>14. ASSUME NEW o \in Orgs, RunOut(o) PROVE CallsTyped' /\ QueueInv'
  BY <1>3, <1>14 DEF RunOut
<1>15. ASSUME NEW w \in Workers, ListDue(w) PROVE CallsTyped' /\ QueueInv'
  BY <1>3, <1>15 DEF ListDue
<1>16. ASSUME NEW w \in Workers, NEW r \in DOMAIN chains, NoCredit(w, r) \/ ReadAttempts(w, r)
       PROVE  CallsTyped' /\ QueueInv'
  BY <1>3, <1>16 DEF NoCredit, ReadAttempts
<1>17. ASSUME UNCHANGED vars PROVE CallsTyped' /\ QueueInv'
  BY <1>3, <1>17 DEF vars
<1>18. ASSUME NEW w \in Workers, WorkerStep(w) PROVE CallsTyped' /\ QueueInv'
  BY <1>9, <1>10, <1>11, <1>12, <1>15, <1>16, <1>18 DEF WorkerStep
<1> QED
  BY <1>4, <1>5, <1>6, <1>7, <1>8, <1>12, <1>13, <1>14, <1>17, <1>18 DEF Next

\* The calls and the queue behind FailedCallIsQueued, as an invariant.
THEOREM QueueInvariant == Spec => [](CallsTyped /\ QueueInv)
<1>1. Init => CallsTyped /\ QueueInv
  BY DEF Init, CallsTyped, QueueInv, Reported
<1>2. Typed /\ CallsTyped /\ QueueInv /\ [Next]_vars => CallsTyped' /\ QueueInv'
  BY StepKeepsQueue
<1> QED
  BY <1>1, <1>2, ChainInvariant, PTL DEF Spec

\* However many workers and handlers run, a failed call whose callback found the
\* log has a chain for its target, if no statement fails and no process dies.
THEOREM FailedCallsAreQueued == Spec => []FailedCallIsQueued
<1>1. CallsTyped /\ QueueInv => FailedCallIsQueued
  <2> SUFFICES ASSUME CallsTyped, QueueInv, faults = 0, \A h \in Handlers : checked[h] = {},
                      NEW c \in DOMAIN calls, calls[c].outcome = "failed", calls[c].told
               PROVE  Chained(calls[c].target)
    BY Zenon DEF FailedCallIsQueued, Chained, Reported
  <2>1. calls[c].target \in Targets
    BY CallTyped
  <2>2. Reported(calls[c].target, "failed")
    BY Zenon DEF Reported
  <2>3. ~Checked(calls[c].target)
    BY DEF Checked
  <2> QED
    BY <2>1, <2>2, <2>3 DEF QueueInv
<1> QED
  BY <1>1, QueueInvariant, PTL

-----------------------------------------------------------------------------
(* The lists of rows and the operator that filters them, and the typing.     *)

\* Induction up to a bound, by the least counterexample: the induction theorems
\* of the library take an operator and cannot be used here.
LEMMA CountUp ==
    ASSUME NEW N \in Nat, NEW B, 0 \in B, \A n \in 1 .. N : n - 1 \in B => n \in B
    PROVE  \A n \in 0 .. N : n \in B
<1> DEFINE T == {n \in 0 .. N : n \notin B}
<1>1. ASSUME T # {} PROVE FALSE
  <2>1. T \subseteq Nat
    OBVIOUS
  <2>2. \E x \in T : \A y \in T : ~(<<y, x>> \in OpToRel(<, Nat))
    BY <1>1, <2>1, WFMin, NatLessThanWellFounded, Zenon
  <2>3. PICK x \in T : \A y \in T : ~(<<y, x>> \in OpToRel(<, Nat))
    BY <2>2
  <2>x. x \in T
    OBVIOUS
  <2>4. x \in Nat /\ x # 0 /\ x <= N /\ x \notin B
    BY <2>x
  <2>5. x - 1 \in Nat /\ x - 1 < x /\ x - 1 \in 0 .. N /\ x \in 1 .. N
    BY <2>4
  <2>6. x - 1 \notin T
    <3>1. <<x - 1, x>> \in OpToRel(<, Nat)
      BY <2>4, <2>5, Zenon DEF OpToRel
    <3> QED
      BY <2>3, <3>1, Zenon
  <2>7. x - 1 \in B
    BY <2>5, <2>6
  <2> QED
    BY <2>4, <2>5, <2>7
<1> QED
  BY <1>1

\* f solves the recursion of SelectIn.
Steps(f, s, S, N) ==
    f = [n \in 0 .. N |-> IF n = 0 THEN <<>>
                          ELSE IF s[n] \in S THEN Append(f[n - 1], s[n]) ELSE f[n - 1]]

\* The recursion of SelectIn has a solution, so SelectIn is its last value.
LEMMA StepsExist == ASSUME NEW s, NEW S, NEW N \in Nat PROVE \E f : Steps(f, s, S, N)
<1> DEFINE B == {n \in 0 .. N : \E f : Steps(f, s, S, n)}
<1>1. 0 \in B
  <2> DEFINE f == [n \in 0 .. 0 |-> <<>>]
  <2>1. Steps(f, s, S, 0)
    BY DEF Steps
  <2> QED
    BY <2>1
<1>2. ASSUME NEW n \in 1 .. N, n - 1 \in B PROVE n \in B
  <2>1. PICK f : Steps(f, s, S, n - 1)
    BY <1>2
  <2>2. f = [k \in 0 .. (n - 1) |-> f[k]]
    BY <2>1 DEF Steps
  <2> DEFINE last == IF s[n] \in S THEN Append(f[n - 1], s[n]) ELSE f[n - 1]
             g == [k \in 0 .. n |-> IF k = n THEN last ELSE f[k]]
  <2>3. Steps(g, s, S, n)
    <3>1. ASSUME NEW k \in 0 .. n
          PROVE  g[k] = IF k = 0 THEN <<>>
                        ELSE IF s[k] \in S THEN Append(g[k - 1], s[k]) ELSE g[k - 1]
      <4>1. CASE k = n
        <5>1. n - 1 \in 0 .. n /\ n - 1 # n /\ k # 0
          BY <4>1
        <5>2. g[k - 1] = f[n - 1]
          BY <4>1, <5>1
        <5> QED
          BY <4>1, <5>1, <5>2
      <4>2. CASE k # n
        <5>1. k \in 0 .. (n - 1)
          BY <4>2
        <5>2. g[k] = f[k] /\ (k # 0 => g[k - 1] = f[k - 1])
          BY <4>2, <5>1
        <5>3. f[k] = IF k = 0 THEN <<>>
                     ELSE IF s[k] \in S THEN Append(f[k - 1], s[k]) ELSE f[k - 1]
          BY <2>1, <5>1 DEF Steps
        <5> HIDE DEF g
        <5> QED
          BY <5>2, <5>3
      <4> QED
        BY <4>1, <4>2
    <3>2. g = [k \in 0 .. n |-> g[k]]
      OBVIOUS
    <3> HIDE DEF g
    <3> QED
      BY <3>1, <3>2 DEF Steps
  <2>4. n \in 0 .. N
    OBVIOUS
  <2> HIDE DEF g
  <2> QED
    BY <2>3, <2>4
<1>3. N \in 0 .. N
  OBVIOUS
<1> HIDE DEF B
<1>4. N \in B
  BY <1>1, <1>2, <1>3, CountUp
<1> QED
  BY <1>4 DEF B

\* SelectIn is the last value of a solution of its recursion.
LEMMA SelectInSteps ==
    ASSUME NEW T, NEW s \in Seq(T), NEW S
    PROVE  \E f : Steps(f, s, S, Len(s)) /\ SelectIn(s, S) = f[Len(s)]
<1> DEFINE N == Len(s)
           f == CHOOSE g : Steps(g, s, S, N)
<1>1. N \in Nat
  OBVIOUS
<1>2. Steps(f, s, S, N)
  BY <1>1, StepsExist, Zenon
<1>3. SelectIn(s, S) = f[N]
  BY DEF SelectIn, Steps
<1> QED
  BY <1>2, <1>3

\* No element twice.
Distinct(s) == \A i, j \in DOMAIN s : i # j => s[i] # s[j]

\* SelectIn keeps only the elements that are in both sets, and no element twice
\* when the sequence it starts from holds none twice.
LEMMA SelectInIs ==
    ASSUME NEW T, NEW s \in Seq(T), NEW S
    PROVE  SelectIn(s, S) \in Seq(T \cap S) /\ (Distinct(s) => Distinct(SelectIn(s, S)))
<1>1. PICK f : Steps(f, s, S, Len(s)) /\ SelectIn(s, S) = f[Len(s)]
  BY SelectInSteps
<1> DEFINE N == Len(s)
           Sound(n) == /\ f[n] \in Seq(T \cap S)
                       /\ \A i \in DOMAIN f[n] : \E j \in 1 .. n : f[n][i] = s[j]
                       /\ Distinct(s) => Distinct(f[n])
           B == {n \in 0 .. N : Sound(n)}
<1>n. N \in Nat /\ DOMAIN s = 1 .. N
  OBVIOUS
<1>s. \A n \in 0 .. N : f[n] = IF n = 0 THEN <<>>
                               ELSE IF s[n] \in S THEN Append(f[n - 1], s[n]) ELSE f[n - 1]
  BY <1>1 DEF Steps
<1> HIDE DEF N
<1>2. 0 \in B
  <2>1. f[0] = <<>>
    BY <1>s, <1>n
  <2>2. /\ <<>> \in Seq(T \cap S) /\ DOMAIN <<>> = {} /\ Distinct(<<>>)
    BY DEF Distinct
  <2>3. Sound(0)
    BY <2>1, <2>2
  <2> QED
    BY <2>3, <1>n
<1>3. ASSUME NEW n \in 1 .. N, n - 1 \in B PROVE n \in B
  <2>1. Sound(n - 1) /\ n \in 0 .. N /\ n # 0 /\ n - 1 \in Nat
    BY <1>3, <1>n
  <2>2. CASE s[n] \in S
    <3> DEFINE p == f[n - 1]
    <3>a. f[n] = Append(p, s[n])
      BY <1>s, <2>1, <2>2
    <3>b. s[n] \in T
      <4>1. n \in DOMAIN s
        BY <1>n
      <4> QED
        BY <4>1
    <3>1. f[n] = Append(p, s[n]) /\ s[n] \in T \cap S
      BY <3>a, <3>b, <2>2
    <3>p. /\ p \in Seq(T \cap S)
          /\ \A i \in DOMAIN p : \E j \in 1 .. (n - 1) : p[i] = s[j]
          /\ Distinct(s) => Distinct(p)
      BY <2>1
    <3> HIDE DEF p
    <3>2. /\ f[n] \in Seq(T \cap S) /\ DOMAIN f[n] = 1 .. (Len(p) + 1)
          /\ \A i \in 1 .. Len(p) : f[n][i] = p[i]
          /\ f[n][Len(p) + 1] = s[n] /\ Len(p) \in Nat /\ DOMAIN p = 1 .. Len(p)
      BY <3>1, <3>p
    <3>3. \A i \in DOMAIN f[n] : \E j \in 1 .. n : f[n][i] = s[j]
      <4> TAKE i \in DOMAIN f[n]
      <4>1. CASE i \in 1 .. Len(p)
        BY <4>1, <3>2, <3>p, <2>1
      <4>2. CASE i = Len(p) + 1
        BY <4>2, <3>2, <2>1
      <4> QED
        BY <4>1, <4>2, <3>2
    <3>4. ASSUME Distinct(s) PROVE Distinct(f[n])
      <4> SUFFICES ASSUME NEW i \in 1 .. (Len(p) + 1), NEW j \in 1 .. (Len(p) + 1), i < j
                   PROVE  f[n][i] # f[n][j]
        BY <3>2 DEF Distinct
      <4>1. i \in 1 .. Len(p) /\ f[n][i] = p[i]
        BY <3>2
      <4>2. CASE j \in 1 .. Len(p)
        <5>0. i # j /\ i \in DOMAIN p /\ j \in DOMAIN p
          BY <4>1, <4>2, <3>2
        <5>d. Distinct(p)
          BY <3>4, <3>p
        <5>2. p[i] # p[j]
          BY <5>0, <5>d DEF Distinct
        <5>1. f[n][j] = p[j] /\ p[i] # p[j]
          BY <4>2, <3>2, <5>2
        <5> QED
          BY <4>1, <5>1
      <4>3. CASE j = Len(p) + 1
        <5>1. PICK k \in 1 .. (n - 1) : p[i] = s[k]
          BY <4>1, <3>2, <3>p
        <5>2. s[k] # s[n]
          BY <3>4, <5>1, <1>n, <2>1 DEF Distinct
        <5> QED
          BY <4>1, <4>3, <5>1, <5>2, <3>2
      <4> QED
        BY <4>2, <4>3, <3>2
    <3> QED
      BY <2>1, <3>2, <3>3, <3>4
  <2>3. CASE s[n] \notin S
    <3>1. f[n] = f[n - 1]
      BY <1>s, <1>n, <2>1, <2>3
    <3>2. Sound(n)
      <4>1. \A i \in DOMAIN f[n] : \E j \in 1 .. n : f[n][i] = s[j]
        <5> TAKE i \in DOMAIN f[n]
        <5>1. PICK j \in 1 .. (n - 1) : f[n][i] = s[j]
          BY <2>1, <3>1
        <5> QED
          BY <5>1, <2>1
      <4> QED
        BY <2>1, <3>1, <4>1
    <3> QED
      BY <2>1, <3>2
  <2> QED
    BY <2>2, <2>3
<1> HIDE DEF B
<1>4. \A n \in 0 .. N : n \in B
  BY <1>2, <1>3, <1>n, CountUp
<1>5. N \in B
  BY <1>4, <1>n
<1>6. Sound(N)
  BY <1>5 DEF B
<1> QED
  BY <1>1, <1>6 DEF N

\* A sequence over a set is one over any larger set.
LEMMA SeqWidened ==
    ASSUME NEW A, NEW B, A \subseteq B, NEW s \in Seq(A) PROVE s \in Seq(B)
OBVIOUS

\* What every step but the write of the counter does to the rows.
LaterRow(r) ==
    /\ chains'[r].attempts = chains[r].attempts
    /\ chains'[r].status = "pending" => chains[r].status = "pending"
NewRow(r) == chains'[r].attempts = 0

RowsLater ==
    /\ DOMAIN chains \subseteq DOMAIN chains'
    /\ \A r \in DOMAIN chains : LaterRow(r)
    /\ \A r \in DOMAIN chains' \ DOMAIN chains : NewRow(r)

\* A step that leaves the table alone changes no row.
LEMMA ChainsSame == chains' = chains => RowsLater
BY DEF RowsLater, LaterRow

\* CompleteActiveRetry leaves the counters alone and makes no row pending.
LEMMA CompletionLater ==
    ASSUME Typed, NEW t, chains' = CompleteActiveRetry(t) PROVE RowsLater
<1>1. DOMAIN chains' = DOMAIN chains
  BY DEF CompleteActiveRetry
<1>2. ASSUME NEW r \in DOMAIN chains PROVE LaterRow(r)
  <2>1. chains[r] \in Chain
    BY RowTyped
  <2>2. CASE ActiveChain(r, t)
    <3>1. chains'[r] = [chains[r] EXCEPT !.status = "completed", !.answered = TRUE]
      BY <2>2 DEF CompleteActiveRetry
    <3> QED
      BY <2>1, <3>1 DEF Chain, LaterRow
  <2>3. CASE ~ActiveChain(r, t)
    <3>1. chains'[r] = chains[r]
      BY <2>3 DEF CompleteActiveRetry
    <3> QED
      BY <3>1 DEF LaterRow
  <2> QED
    BY <2>2, <2>3
<1> QED
  BY <1>1, <1>2 DEF RowsLater

\* CreateRetry adds a row at zero attempts, and touches no other.
LEMMA CreationLater ==
    ASSUME Typed, NEW h \in Handlers, CreateRetry(h) PROVE RowsLater
<1>1. PICK new \in checked[h] :
        \/ chains' = Append(chains, [target |-> new.target, attempts |-> 0,
                            status |-> "pending", answered |-> FALSE, seen |-> new.seen])
        \/ UNCHANGED chains
  BY DEF CreateRetry
<1>2. CASE UNCHANGED chains
  BY <1>2, ChainsSame
<1>3. CASE ~(UNCHANGED chains)
  <2> DEFINE row == [target |-> new.target, attempts |-> 0, status |-> "pending",
                     answered |-> FALSE, seen |-> new.seen]
  <2>1. chains' = Append(chains, row) /\ row.attempts = 0
    BY <1>1, <1>3
  <2>2. chains \in Seq(Chain)
    BY DEF Typed
  <2> HIDE DEF row
  <2>3. /\ DOMAIN chains' = DOMAIN chains \cup {Len(chains) + 1}
        /\ \A r \in DOMAIN chains : chains'[r] = chains[r]
        /\ chains'[Len(chains) + 1] = row
    BY <2>1, <2>2
  <2> QED
    BY <2>1, <2>3 DEF RowsLater, LaterRow, NewRow
<1> QED
  BY <1>2, <1>3

\* A row given up because its lead is missing keeps its counter.
LEMMA GivingUpLater ==
    ASSUME Typed, NEW w \in Workers, NEW r \in DOMAIN chains, LeadMissing(w, r) PROVE RowsLater
<1>1. chains[r] \in Chain /\ chains \in Seq(Chain)
  BY DEF Typed
<1> DEFINE row == [chains[r] EXCEPT !.status = "exhausted"]
<1>2. row.attempts = chains[r].attempts /\ row.status = "exhausted"
  BY <1>1 DEF Chain
<1>3. chains' = [chains EXCEPT ![r] = row]
  BY DEF LeadMissing
<1> HIDE DEF row
<1> QED
  BY <1>1, <1>2, <1>3 DEF RowsLater, LaterRow

\* Every step but the write of the counter.
LEMMA AllRowsLater ==
    ASSUME Typed, [Next]_vars,
           ~(\E w \in Workers, r \in DOMAIN chains : WriteAttempts(w, r))
    PROVE  RowsLater
<1>1. ASSUME NEW h \in Handlers, NEW c \in DOMAIN calls, ReceiveStatus(h, c) PROVE RowsLater
  <2>1. \E t : chains' = CompleteActiveRetry(t) \/ chains' = chains
    BY <1>1 DEF ReceiveStatus
  <2> QED
    BY <2>1, CompletionLater, ChainsSame
<1>2. ASSUME NEW w \in Workers, WorkerStep(w) PROVE RowsLater
  BY <1>2, GivingUpLater, ChainsSame DEF WorkerStep, ListDue, IncrFails, NoCredit, Dial, ReadAttempts
<1>3. CASE UNCHANGED chains
  BY <1>3, ChainsSame
<1> QED
  BY <1>1, <1>2, <1>3, CreationLater
  DEF Next, CampaignDial, SaveCallLog, CarrierEnds, BecomeDue, Crash, RunOut, vars

\* The write of the counter: only row r changes.
CounterWritten(w, r) ==
    /\ DOMAIN chains' = DOMAIN chains
    /\ \A i \in DOMAIN chains : i # r => chains'[i] = chains[i]
    /\ chains'[r].attempts = attempts[w] + 1
    /\ chains'[r].status = "pending" =>
           chains[r].status = "pending" /\ attempts[w] + 1 < MaxAttempts

\* IncrRetryAttempt writes one more than the worker read, and exhausts the row
\* when that is the last attempt.
LEMMA CounterIsWritten ==
    ASSUME Typed, NEW w \in Workers, NEW r \in DOMAIN chains, WriteAttempts(w, r)
    PROVE  CounterWritten(w, r)
<1>1. chains[r] \in Chain /\ attempts[w] + 1 \in Nat /\ chains \in Seq(Chain)
  BY DEF Typed
<1> DEFINE row == Incremented(chains[r], attempts[w] + 1)
<1>2. /\ row.attempts = attempts[w] + 1
      /\ row.status = "pending" => chains[r].status = "pending" /\ attempts[w] + 1 < MaxAttempts
  BY <1>1, BoundsAssumption DEF Chain, Incremented
<1>3. chains' = [chains EXCEPT ![r] = row]
  BY DEF WriteAttempts
<1> HIDE DEF row
<1> QED
  BY <1>1, <1>2, <1>3 DEF CounterWritten

\* No statement deletes from call_retries.
LEMMA RowsNeverRemoved == ASSUME Typed, [Next]_vars PROVE DOMAIN chains \subseteq DOMAIN chains'
BY AllRowsLater, CounterIsWritten DEF RowsLater, CounterWritten

\* A step that places no call, and one that places a call for q.
NoNewCall ==
    /\ DOMAIN calls' = DOMAIN calls
    /\ \A c \in DOMAIN calls : calls'[c].retry = calls[c].retry
Rung(q) ==
    /\ DOMAIN calls' = DOMAIN calls \cup {Len(calls) + 1}
    /\ \A c \in DOMAIN calls : calls'[c].retry = calls[c].retry
    /\ calls'[Len(calls) + 1].retry = q

\* Rewriting one call for the same row places no call.
LEMMA OneCallWritten ==
    ASSUME CallsTyped, NEW c \in DOMAIN calls, NEW call, call.retry = calls[c].retry,
           calls' = [calls EXCEPT ![c] = call]
    PROVE  NoNewCall
BY DEF NoNewCall, CallsTyped

\* Initiate places one call, for the row it was asked for.
LEMMA RingRings == ASSUME CallsTyped, NEW t, NEW q, Ring(t, q) PROVE Rung(q)
<1> DEFINE call == [target |-> t, retry |-> q, told |-> FALSE, left |-> 0,
                    log |-> "unsaved", outcome |-> "ringing"]
<1>1. calls \in Seq(Call) /\ calls' = Append(calls, call) /\ call.retry = q
  BY DEF CallsTyped, Ring
<1> HIDE DEF call
<1> QED
  BY <1>1 DEF Rung

\* A step places no call, or one of a campaign, or one for the row a worker is at.
LEMMA CallSteps ==
    ASSUME CallsTyped, [Next]_vars
    PROVE  \/ NoNewCall
           \/ \E t \in Targets : CampaignDial(t) /\ Rung(0)
           \/ \E w \in Workers, r \in DOMAIN chains : Dial(w, r) /\ Rung(r)
<1>0. calls' = calls => NoNewCall
  BY DEF NoNewCall
<1>1. ASSUME NEW t \in Targets, CampaignDial(t) PROVE Rung(0)
  BY <1>1, RingRings DEF CampaignDial
<1>2. ASSUME NEW w \in Workers, NEW r \in DOMAIN chains, Dial(w, r) PROVE NoNewCall \/ Rung(r)
  BY <1>0, <1>2, RingRings DEF Dial
<1>3. ASSUME NEW c \in DOMAIN calls, SaveCallLog(c) PROVE NoNewCall
  <2>1. PICK l \in {"saved", "lost"} : calls' = [calls EXCEPT ![c].log = l]
    BY <1>3 DEF SaveCallLog
  <2> DEFINE call == [calls[c] EXCEPT !.log = l]
  <2>2. calls' = [calls EXCEPT ![c] = call] /\ call.retry = calls[c].retry
    <3>1. calls[c] \in Call
      BY CallTyped
    <3> QED
      BY <2>1, <3>1 DEF Call
  <2> HIDE DEF call
  <2> QED
    BY <2>2, OneCallWritten
<1>4. ASSUME NEW c \in DOMAIN calls, CarrierEnds(c) PROVE NoNewCall
  <2>1. PICK n \in 0 .. MaxDeliveries - deliveries, o \in {"completed", "failed"} :
          calls' = [calls EXCEPT ![c].outcome = o, ![c].left = n]
    BY <1>4 DEF CarrierEnds
  <2> DEFINE call == [calls[c] EXCEPT !.outcome = o, !.left = n]
  <2>2. calls' = [calls EXCEPT ![c] = call] /\ call.retry = calls[c].retry
    <3>1. calls[c] \in Call
      BY CallTyped
    <3> QED
      BY <2>1, <3>1 DEF Call
  <2> HIDE DEF call
  <2> QED
    BY <2>2, OneCallWritten
<1>5. ASSUME NEW c \in DOMAIN calls, NEW h \in Handlers, ReceiveStatus(h, c) PROVE NoNewCall
  <2>1. calls' = [calls EXCEPT ![c].left = @ - 1, ![c].told = @ \/ calls[c].log = "saved"]
    BY <1>5 DEF ReceiveStatus
  <2> DEFINE call == [calls[c] EXCEPT !.left = @ - 1, !.told = @ \/ calls[c].log = "saved"]
  <2>2. calls' = [calls EXCEPT ![c] = call]
    BY <2>1
  <2>3. call.retry = calls[c].retry
    <3>1. calls[c] \in Call
      BY CallTyped
    <3> QED
      BY <3>1, Zenon DEF Call
  <2> HIDE DEF call
  <2> QED
    BY <2>2, <2>3, OneCallWritten
<1>6. ASSUME NEW w \in Workers, Crash(w) PROVE NoNewCall
  <2>1. DOMAIN calls' = DOMAIN calls
    BY <1>6 DEF Crash
  <2>2. ASSUME NEW c \in DOMAIN calls PROVE calls'[c].retry = calls[c].retry
    <3>1. calls[c] \in Call
      BY CallTyped
    <3>2. calls'[c] = [calls[c] EXCEPT !.log = "lost"] \/ calls'[c] = calls[c]
      BY <1>6 DEF Crash
    <3> QED
      BY <3>1, <3>2 DEF Call
  <2> QED
    BY <2>1, <2>2 DEF NoNewCall
<1>7. ASSUME NEW w \in Workers, WorkerStep(w)
      PROVE  NoNewCall \/ \E r \in DOMAIN chains : Dial(w, r) /\ Rung(r)
  BY <1>0, <1>2, <1>7 DEF WorkerStep, ListDue, IncrFails, NoCredit, LeadMissing, ReadAttempts, WriteAttempts
<1>8. CASE UNCHANGED calls
  BY <1>0, <1>8
<1> QED
  BY <1>1, <1>3, <1>4, <1>5, <1>6, <1>7, <1>8 DEF Next, CreateRetry, BecomeDue, RunOut, vars

\* The lists of rows: every worker's list has a first row while its tick runs,
\* and no list names a row twice.
Lists ==
    /\ due \in Seq(DOMAIN chains) /\ Distinct(due)
    /\ todo \in [Workers -> Seq(DOMAIN chains)]
    /\ step \in [Workers -> {"idle", "next", "dialed", "read"}]
    /\ \A w \in Workers : Distinct(todo[w]) /\ (step[w] # "idle" => todo[w] # <<>>)

\* The tail of a list without duplicates: what it holds, and that the head is not
\* in it.
LEMMA TailDistinct ==
    ASSUME NEW T, NEW s \in Seq(T), Distinct(s), s # <<>>
    PROVE  /\ Tail(s) \in Seq(T) /\ Distinct(Tail(s)) /\ Head(s) \in T
           /\ \A i \in DOMAIN Tail(s) : \E j \in DOMAIN s : Tail(s)[i] = s[j]
           /\ \A i \in DOMAIN Tail(s) : Tail(s)[i] # Head(s)
<1>1. /\ Tail(s) \in Seq(T) /\ Head(s) = s[1] /\ 1 \in DOMAIN s /\ Head(s) \in T
      /\ Len(s) \in Nat /\ Len(s) > 0 /\ DOMAIN s = 1 .. Len(s)
      /\ Len(Tail(s)) = Len(s) - 1 /\ DOMAIN Tail(s) = 1 .. (Len(s) - 1)
  OBVIOUS
<1>2. ASSUME NEW i \in 1 .. (Len(s) - 1)
      PROVE  Tail(s)[i] = s[i + 1] /\ i + 1 \in DOMAIN s /\ i + 1 # 1
  BY <1>1
<1>3. Distinct(Tail(s))
  <2> SUFFICES ASSUME NEW i \in 1 .. (Len(s) - 1), NEW j \in 1 .. (Len(s) - 1), i # j
               PROVE  Tail(s)[i] # Tail(s)[j]
    BY <1>1 DEF Distinct
  <2>1. i + 1 # j + 1
    OBVIOUS
  <2> QED
    BY <1>2, <2>1 DEF Distinct
<1> QED
  BY <1>1, <1>2, <1>3 DEF Distinct

\* Every step but those that change due keeps it.
LEMMA DueKept ==
    ASSUME Typed, Lists, [Next]_vars PROVE due' \in Seq(DOMAIN chains') /\ Distinct(due')
<1>w. DOMAIN chains \subseteq DOMAIN chains'
  BY RowsNeverRemoved
<1>t. due \in Seq(DOMAIN chains) /\ Distinct(due)
  BY DEF Lists
<1>0. ASSUME due' \in Seq(DOMAIN chains), Distinct(due') PROVE due' \in Seq(DOMAIN chains') /\ Distinct(due')
  BY <1>0, <1>w, SeqWidened
<1>1. ASSUME NEW r \in DOMAIN chains, BecomeDue(r)
      PROVE  due' \in Seq(DOMAIN chains) /\ Distinct(due')
  <2>1. due' = Append(due, r) /\ \A i \in DOMAIN due : due[i] # r
    BY <1>1 DEF BecomeDue
  <2>2. /\ due' \in Seq(DOMAIN chains) /\ DOMAIN due' = 1 .. (Len(due) + 1)
        /\ DOMAIN due = 1 .. Len(due) /\ Len(due) \in Nat
        /\ \A i \in DOMAIN due : due'[i] = due[i]
        /\ due'[Len(due) + 1] = r
    BY <1>t, <2>1
  <2>3. ASSUME NEW i \in DOMAIN due', NEW j \in DOMAIN due', i # j PROVE due'[i] # due'[j]
    <3>1. i \in DOMAIN due \/ i = Len(due) + 1
      BY <2>2
    <3>2. j \in DOMAIN due \/ j = Len(due) + 1
      BY <2>2
    <3> QED
      BY <1>t, <2>1, <2>2, <2>3, <3>1, <3>2 DEF Distinct
  <2> QED
    BY <2>2, <2>3 DEF Distinct
<1>2. ASSUME NEW w \in Workers, NEW r \in DOMAIN chains, WriteAttempts(w, r)
      PROVE  due' \in Seq(DOMAIN chains) /\ Distinct(due')
  <2>1. due' = SelectIn(due, DOMAIN chains \ {r})
    BY <1>2 DEF WriteAttempts
  <2>2. due' \in Seq(DOMAIN chains \cap (DOMAIN chains \ {r})) /\ Distinct(due')
    BY <1>t, <2>1, SelectInIs
  <2> QED
    BY <2>2, SeqWidened
<1>3. ASSUME UNCHANGED due PROVE due' \in Seq(DOMAIN chains) /\ Distinct(due')
  BY <1>t, <1>3
<1>4. due' \in Seq(DOMAIN chains) /\ Distinct(due')
  BY <1>1, <1>2, <1>3
  DEF Next, CampaignDial, SaveCallLog, CarrierEnds, ReceiveStatus, CreateRetry, Crash, RunOut, vars,
      WorkerStep, ListDue, IncrFails, LeadMissing, NoCredit, Dial, ReadAttempts
<1> QED
  BY <1>0, <1>4

\* What a step does to the list of worker w.
ListStep(w) ==
    \/ todo'[w] = todo[w] /\ step'[w] = step[w]
    \/ todo'[w] = todo[w] /\ step[w] = "next" /\ step'[w] = "dialed" /\ \E r \in DOMAIN chains : Dial(w, r)
    \/ todo'[w] = todo[w] /\ step[w] = "dialed" /\ step'[w] = "read"
       /\ \E r \in DOMAIN chains : ReadAttempts(w, r)
    \/ step[w] = "idle" /\ ListDue(w) /\ step'[w] = "next" /\ todo'[w] # <<>>
       /\ todo'[w] = SelectIn(due, {r \in DOMAIN chains : Pending(r)})
    \/ /\ step[w] # "idle" /\ todo'[w] = Tail(todo[w])
       /\ step'[w] = IF Tail(todo[w]) = <<>> THEN "idle" ELSE "next"
    \/ todo'[w] = <<>> /\ step'[w] = "idle"

\* ListStep covers every step.
LEMMA ListSteps ==
    ASSUME Lists, [Next]_vars, NEW w \in Workers PROVE ListStep(w)
<1>t. /\ todo \in [Workers -> Seq(DOMAIN chains)]
      /\ step \in [Workers -> {"idle", "next", "dialed", "read"}]
  BY DEF Lists
<1>0. CASE UNCHANGED <<todo, step>>
  BY <1>0 DEF ListStep
<1>1. ASSUME NEW v \in Workers, NextRow(v), step[v] # "idle" PROVE ListStep(w)
  <2>1. CASE v = w
    BY <1>t, <1>1, <2>1 DEF NextRow, ListStep
  <2>2. CASE v # w
    BY <1>t, <1>1, <2>2 DEF NextRow, ListStep
  <2> QED
    BY <2>1, <2>2
<1>2. ASSUME NEW v \in Workers,
             todo' = [todo EXCEPT ![v] = <<>>], step' = [step EXCEPT ![v] = "idle"]
      PROVE  ListStep(w)
  BY <1>t, <1>2 DEF ListStep
<1>3. ASSUME NEW v \in Workers, ListDue(v) PROVE ListStep(w)
  BY <1>t, <1>3 DEF ListDue, ListStep
<1>4. ASSUME NEW v \in Workers, NEW r \in DOMAIN chains, Dial(v, r) PROVE ListStep(w)
  <2>1. todo' = todo /\ step' = [step EXCEPT ![v] = "dialed"] /\ step[v] = "next"
    BY <1>4 DEF Dial, AtRow
  <2> QED
    BY <1>t, <1>4, <2>1 DEF ListStep
<1>5. ASSUME NEW v \in Workers, NEW r \in DOMAIN chains, ReadAttempts(v, r) PROVE ListStep(w)
  <2>1. todo' = todo /\ step' = [step EXCEPT ![v] = "read"] /\ step[v] = "dialed"
    BY <1>5 DEF ReadAttempts, AtRow
  <2> QED
    BY <1>t, <1>5, <2>1 DEF ListStep
<1>6. ASSUME NEW v \in Workers, WorkerStep(v) \/ Crash(v) PROVE ListStep(w)
  <2>1. ASSUME NEW r \in DOMAIN chains, LeadMissing(v, r) \/ WriteAttempts(v, r) PROVE ListStep(w)
    BY <1>1, <2>1 DEF LeadMissing, WriteAttempts, AtRow
  <2>2. ASSUME NEW r \in DOMAIN chains, NoCredit(v, r) PROVE ListStep(w)
    BY <1>2, <2>2 DEF NoCredit
  <2>3. IncrFails(v) => ListStep(w)
    BY <1>1 DEF IncrFails
  <2>4. Crash(v) => ListStep(w)
    BY <1>2 DEF Crash
  <2> QED
    BY <1>3, <1>4, <1>5, <1>6, <2>1, <2>2, <2>3, <2>4 DEF WorkerStep
<1> QED
  BY <1>0, <1>6
  DEF Next, CampaignDial, SaveCallLog, CarrierEnds, ReceiveStatus, CreateRetry, BecomeDue, RunOut, vars

\* A step keeps todo and step functions on the workers.
LEMMA StepDomains ==
    ASSUME Lists, [Next]_vars
    PROVE  /\ todo' = [w \in Workers |-> todo'[w]] /\ step' = [w \in Workers |-> step'[w]]
<1>t. /\ todo \in [Workers -> Seq(DOMAIN chains)]
      /\ step \in [Workers -> {"idle", "next", "dialed", "read"}]
  BY DEF Lists
<1> QED
  BY <1>t
  DEF Next, CampaignDial, SaveCallLog, CarrierEnds, ReceiveStatus, CreateRetry, BecomeDue, RunOut, vars,
      WorkerStep, ListDue, IncrFails, LeadMissing, NoCredit, Dial, ReadAttempts, WriteAttempts, Crash, NextRow

\* A step keeps the lists.
LEMMA ListsKept == ASSUME Typed, Lists, [Next]_vars PROVE Lists'
<1>w. DOMAIN chains \subseteq DOMAIN chains'
  BY RowsNeverRemoved
<1>1. ASSUME NEW w \in Workers
      PROVE  /\ todo'[w] \in Seq(DOMAIN chains') /\ Distinct(todo'[w])
             /\ step'[w] \in {"idle", "next", "dialed", "read"}
             /\ step'[w] # "idle" => todo'[w] # <<>>
  <2>t. /\ todo[w] \in Seq(DOMAIN chains) /\ Distinct(todo[w])
        /\ step[w] \in {"idle", "next", "dialed", "read"} /\ (step[w] # "idle" => todo[w] # <<>>)
        /\ due \in Seq(DOMAIN chains) /\ Distinct(due)
    BY DEF Lists
  <2>0. ListStep(w)
    BY ListSteps
  <2>1. todo'[w] \in Seq(DOMAIN chains) /\ Distinct(todo'[w])
    <3>1. CASE todo'[w] = todo[w]
      BY <2>t, <3>1
    <3>2. CASE todo'[w] = <<>>
      BY <3>2 DEF Distinct
    <3>3. CASE step[w] # "idle" /\ todo'[w] = Tail(todo[w])
      BY <2>t, <3>3, TailDistinct
    <3>4. CASE todo'[w] = SelectIn(due, {r \in DOMAIN chains : Pending(r)})
      <4> DEFINE S == {r \in DOMAIN chains : Pending(r)}
      <4>1. todo'[w] \in Seq(DOMAIN chains \cap S) /\ Distinct(todo'[w])
        BY <2>t, <3>4, SelectInIs
      <4> QED
        BY <4>1, SeqWidened
    <3> QED
      BY <2>0, <3>1, <3>2, <3>3, <3>4 DEF ListStep
  <2>2. step'[w] \in {"idle", "next", "dialed", "read"} /\ (step'[w] # "idle" => todo'[w] # <<>>)
    BY <2>0, <2>t DEF ListStep
  <2> QED
    BY <1>w, <2>1, <2>2, SeqWidened
<1>2. /\ todo' \in [Workers -> Seq(DOMAIN chains')]
      /\ step' \in [Workers -> {"idle", "next", "dialed", "read"}]
  BY <1>1, StepDomains
<1> QED
  BY <1>1, <1>2, DueKept DEF Lists

\* The other variables.
RestTyped ==
    /\ placed \in [Workers -> Nat]
    /\ deliveries \in 0 .. MaxDeliveries
    /\ faults \in 0 .. MaxFaults
    /\ broke \subseteq Orgs

\* A step keeps the typing of the bounds, the placed calls and the broke.
LEMMA RestTypedKept == ASSUME CallsTyped, RestTyped, [Next]_vars PROVE RestTyped'
<1>t. /\ placed \in [Workers -> Nat] /\ deliveries \in 0 .. MaxDeliveries
      /\ faults \in 0 .. MaxFaults /\ broke \subseteq Orgs /\ Len(calls) + 1 \in Nat
  BY DEF RestTyped, CallsTyped
<1>f. Fault => faults' \in 0 .. MaxFaults
  BY <1>t, BoundsAssumption DEF Fault
<1>1. faults' \in 0 .. MaxFaults
  BY <1>t, <1>f
  DEF Next, CampaignDial, SaveCallLog, CarrierEnds, ReceiveStatus, CreateRetry, BecomeDue, RunOut, vars,
      WorkerStep, ListDue, IncrFails, LeadMissing, NoCredit, Dial, ReadAttempts, WriteAttempts, Crash
<1>e. ASSUME NEW c \in DOMAIN calls, CarrierEnds(c) PROVE deliveries' \in 0 .. MaxDeliveries
  <2>1. PICK n \in 0 .. MaxDeliveries - deliveries : deliveries' = deliveries + n
    BY <1>e DEF CarrierEnds
  <2>2. n \in Int /\ 0 <= n /\ n <= MaxDeliveries - deliveries
    BY <1>t
  <2> QED
    BY <1>t, <2>1, <2>2, BoundsAssumption
<1>u. UNCHANGED deliveries => deliveries' \in 0 .. MaxDeliveries
  BY <1>t
<1>2. deliveries' \in 0 .. MaxDeliveries
  BY <1>e, <1>u
  DEF Next, CampaignDial, SaveCallLog, ReceiveStatus, CreateRetry, BecomeDue, RunOut, vars,
      WorkerStep, ListDue, IncrFails, LeadMissing, NoCredit, Dial, ReadAttempts, WriteAttempts, Crash
<1>3. broke' \subseteq Orgs
  BY <1>t
  DEF Next, CampaignDial, SaveCallLog, CarrierEnds, ReceiveStatus, CreateRetry, BecomeDue, RunOut, vars,
      WorkerStep, ListDue, IncrFails, LeadMissing, NoCredit, Dial, ReadAttempts, WriteAttempts, Crash
<1>p. ASSUME NEW v \in Workers, NEW n \in Nat, placed' = [placed EXCEPT ![v] = n]
      PROVE  placed' \in [Workers -> Nat]
  BY <1>t, <1>p
<1>d. ASSUME NEW v \in Workers, NEW r \in DOMAIN chains, Dial(v, r) PROVE placed' \in [Workers -> Nat]
  <2>1. placed' = [placed EXCEPT ![v] = Len(calls) + 1] \/ UNCHANGED placed
    BY <1>d DEF Dial
  <2> QED
    BY <1>t, <1>p, <2>1
<1>s. ASSUME NEW v \in Workers, WorkerStep(v) \/ Crash(v) PROVE placed' \in [Workers -> Nat]
  <2>1. 0 \in Nat
    OBVIOUS
  <2>2. (Crash(v) \/ \E r \in DOMAIN chains : ReadAttempts(v, r)) => placed' \in [Workers -> Nat]
    BY <1>p, <2>1 DEF Crash, ReadAttempts
  <2>3. UNCHANGED placed => placed' \in [Workers -> Nat]
    BY <1>t
  <2> QED
    BY <1>s, <1>d, <2>2, <2>3
    DEF WorkerStep, ListDue, IncrFails, LeadMissing, NoCredit, WriteAttempts
<1>4. placed' \in [Workers -> Nat]
  BY <1>t, <1>s
  DEF Next, CampaignDial, SaveCallLog, CarrierEnds, ReceiveStatus, CreateRetry, BecomeDue, RunOut, vars
<1> QED
  BY <1>1, <1>2, <1>3, <1>4 DEF RestTyped

\* The lists and the remaining variables, for any number of workers.
THEOREM ListsInvariant == Spec => [](Lists /\ RestTyped)
<1>1. Init => Lists /\ RestTyped
  <2> SUFFICES ASSUME Init PROVE Lists /\ RestTyped
    OBVIOUS
  <2>1. due = <<>> /\ \A w \in Workers : todo[w] = <<>> /\ step[w] = "idle"
    BY DEF Init
  <2>2. Distinct(<<>>) /\ \A T : <<>> \in Seq(T)
    BY DEF Distinct
  <2>3. todo \in [Workers -> Seq(DOMAIN chains)] /\ step \in [Workers -> {"idle", "next", "dialed", "read"}]
    BY <2>2 DEF Init
  <2>4. Lists
    BY <2>1, <2>2, <2>3 DEF Lists
  <2>5. RestTyped
    BY BoundsAssumption DEF Init, RestTyped
  <2> QED
    BY <2>4, <2>5
<1>2. Typed /\ CallsTyped /\ Lists /\ RestTyped /\ [Next]_vars => Lists' /\ RestTyped'
  BY ListsKept, RestTypedKept
<1> QED
  BY <1>1, <1>2, ChainInvariant, QueueInvariant, PTL DEF Spec

\* Every variable of RetryQueue has its type, for any workers, handlers, targets,
\* organisations and bounds.
THEOREM TypeCorrect == Spec => []TypeOK
<1>1. Typed /\ CallsTyped /\ Lists /\ RestTyped => TypeOK
  BY DEF Typed, CallsTyped, Lists, RestTyped, TypeOK
<1> QED
  BY <1>1, ChainInvariant, QueueInvariant, ListsInvariant, PTL

-----------------------------------------------------------------------------
(* Dials per chain, with one worker.                                         *)

\* The worker has dialled r, or failed to, and not yet written the counter.
InFlight(r) == \E w \in Workers : step[w] \in {"dialed", "read"} /\ Head(todo[w]) = r
Extra(r) == IF InFlight(r) THEN 1 ELSE 0

\* Every row on the worker's list has an attempt left; the counter it has read is
\* still the row's; a counter never passes the maximum; every dial is counted, in
\* flight, or lost to a fault.
Listed(w) == \A i \in DOMAIN todo[w] : chains[todo[w][i]].attempts < MaxAttempts
ReadIs(w) == step[w] = "read" => attempts[w] = chains[Head(todo[w])].attempts
Bounded(r) ==
    /\ chains[r].attempts <= MaxAttempts
    /\ Pending(r) => chains[r].attempts < MaxAttempts
DialsCounted(r) == Cardinality(CallOf(r)) <= chains[r].attempts + faults + Extra(r)

CountInv ==
    /\ \A w \in Workers : Listed(w) /\ ReadIs(w)
    /\ \A c \in DOMAIN calls : calls[c].retry \in {0} \cup DOMAIN chains
    /\ \A r \in DOMAIN chains : Bounded(r) /\ DialsCounted(r)

\* The invariants established above, at the start of a step.
Known == Typed /\ CallsTyped /\ Lists /\ RestTyped

\* A worker in a tick is at the first row of its list, and that row exists.
LEMMA HeadIsListed ==
    ASSUME Known, NEW w \in Workers, step[w] # "idle"
    PROVE  /\ todo[w] \in Seq(DOMAIN chains) /\ todo[w] # <<>> /\ Distinct(todo[w])
           /\ Head(todo[w]) \in DOMAIN chains /\ 1 \in DOMAIN todo[w] /\ Head(todo[w]) = todo[w][1]
<1>1. todo[w] \in Seq(DOMAIN chains) /\ todo[w] # <<>> /\ Distinct(todo[w])
  BY DEF Known, Lists
<1> QED
  BY <1>1

\* With one worker, the counter it writes back is one more than the row's, and
\* the row still had an attempt left.
LEMMA CountSeen ==
    ASSUME Known, NEW w, Workers = {w}, Listed(w), ReadIs(w), NEW r \in DOMAIN chains, WriteAttempts(w, r)
    PROVE  attempts[w] = chains[r].attempts /\ attempts[w] < MaxAttempts
<1>1. step[w] = "read" /\ r = Head(todo[w]) /\ w \in Workers
  BY DEF WriteAttempts, AtRow
<1>2. r = todo[w][1] /\ 1 \in DOMAIN todo[w]
  BY <1>1, HeadIsListed
<1> QED
  BY <1>1, <1>2 DEF Listed, ReadIs

\* With one worker, the rows of its list keep an attempt left: only the row it is
\* at is counted, and that row leaves the list.
LEMMA ListedKept ==
    ASSUME Known, NEW w, Workers = {w}, Listed(w), [Next]_vars,
           \A r \in DOMAIN chains : Bounded(r)
    PROVE  Listed(w)'
<1>w. w \in Workers
  OBVIOUS
<1>t. /\ todo[w] \in Seq(DOMAIN chains) /\ due \in Seq(DOMAIN chains) /\ Distinct(todo[w])
      /\ step[w] # "idle" => todo[w] # <<>>
  BY <1>w DEF Known, Lists
<1>1. ASSUME NEW r \in DOMAIN chains, WriteAttempts(w, r) PROVE Listed(w)'
  <2>1. step[w] = "read" /\ r = Head(todo[w]) /\ NextRow(w) /\ todo[w] # <<>>
    BY <1>1, <1>t DEF WriteAttempts, AtRow
  <2>2. todo'[w] = Tail(todo[w])
    BY <1>w, <2>1 DEF NextRow, Known, Lists
  <2>3. CounterWritten(w, r)
    BY <1>1, <1>w, CounterIsWritten DEF Known
  <2>4. ASSUME NEW i \in DOMAIN todo'[w] PROVE chains'[todo'[w][i]].attempts < MaxAttempts
    <3>1. PICK j \in DOMAIN todo[w] : todo'[w][i] = todo[w][j]
      BY <1>t, <2>1, <2>2, TailDistinct
    <3>2. todo'[w][i] # r
      BY <1>t, <2>1, <2>2, TailDistinct
    <3>3. todo[w][j] \in DOMAIN chains
      BY <1>t
    <3>4. chains'[todo[w][j]] = chains[todo[w][j]]
      BY <2>3, <3>1, <3>2, <3>3 DEF CounterWritten
    <3> QED
      BY <3>1, <3>4 DEF Listed
  <2> QED
    BY <2>4 DEF Listed
<1>2. CASE ~(\E r \in DOMAIN chains : WriteAttempts(w, r))
  <2>1. RowsLater
    BY <1>2, AllRowsLater DEF Known
  <2>2. ASSUME NEW i \in DOMAIN todo'[w]
        PROVE  todo'[w][i] \in DOMAIN chains /\ chains[todo'[w][i]].attempts < MaxAttempts
    <3>1. CASE todo'[w] = todo[w]
      BY <1>t, <3>1 DEF Listed
    <3>2. CASE todo'[w] = <<>>
      BY <3>2
    <3>3. CASE step[w] # "idle" /\ todo'[w] = Tail(todo[w])
      <4>1. PICK j \in DOMAIN todo[w] : todo'[w][i] = todo[w][j]
        BY <1>t, <3>3, TailDistinct
      <4> QED
        BY <1>t, <4>1 DEF Listed
    <3>4. CASE todo'[w] = SelectIn(due, {r \in DOMAIN chains : Pending(r)})
      <4> DEFINE S == {r \in DOMAIN chains : Pending(r)}
      <4>1. todo'[w] \in Seq(DOMAIN chains \cap S)
        BY <1>t, <3>4, SelectInIs
      <4>2. todo'[w][i] \in DOMAIN chains \cap S
        BY <4>1
      <4> QED
        BY <4>2 DEF Bounded
    <3> QED
      BY <1>w, <3>1, <3>2, <3>3, <3>4, ListSteps DEF ListStep, Known
  <2> QED
    BY <2>1, <2>2 DEF Listed, RowsLater, LaterRow
<1> QED
  BY <1>1, <1>2

\* With one worker, nobody writes the counter between its read and its write.
LEMMA ReadIsKept ==
    ASSUME Known, NEW w, Workers = {w}, ReadIs(w), [Next]_vars
    PROVE  ReadIs(w)'
<1>w. w \in Workers
  OBVIOUS
<1> SUFFICES ASSUME step'[w] = "read" PROVE attempts'[w] = chains'[Head(todo'[w])].attempts
  BY DEF ReadIs
<1>t. /\ attempts \in [Workers -> Nat] /\ step \in [Workers -> {"idle", "next", "dialed", "read"}]
      /\ todo \in [Workers -> Seq(DOMAIN chains)]
  BY DEF Known, Typed, Lists
<1>0. ListStep(w)
  BY <1>w, ListSteps DEF Known
<1>1. ASSUME NEW r \in DOMAIN chains, ReadAttempts(w, r)
      PROVE  attempts'[w] = chains'[Head(todo'[w])].attempts
  BY <1>t, <1>1 DEF ReadAttempts, AtRow
<1>2. CASE ~(\E r \in DOMAIN chains : ReadAttempts(w, r))
  <2>1. todo'[w] = todo[w] /\ step[w] = "read"
    BY <1>0, <1>2 DEF ListStep
  <2>2. ~(\E r \in DOMAIN chains : WriteAttempts(w, r)) /\ ~IncrFails(w) /\ ~Crash(w)
    <3>1. NextRow(w) => step'[w] \in {"idle", "next"}
      BY <1>t, <1>w DEF NextRow
    <3>2. Crash(w) => step'[w] = "idle"
      BY <1>t, <1>w DEF Crash
    <3> QED
      BY <3>1, <3>2 DEF WriteAttempts, IncrFails
  <2>3. attempts' = attempts
    BY <1>2, <2>2
    DEF Next, CampaignDial, SaveCallLog, CarrierEnds, ReceiveStatus, CreateRetry, BecomeDue, RunOut, vars,
        WorkerStep, ListDue, LeadMissing, NoCredit, Dial
  <2>4. RowsLater
    BY <2>2, AllRowsLater DEF Known
  <2>5. Head(todo[w]) \in DOMAIN chains
    BY <1>w, <2>1, HeadIsListed
  <2> QED
    BY <2>1, <2>3, <2>4, <2>5 DEF ReadIs, RowsLater, LaterRow
<1> QED
  BY <1>1, <1>2

\* With one worker, no counter passes max_attempts.
LEMMA BoundedKept ==
    ASSUME Known, NEW w, Workers = {w}, Listed(w), ReadIs(w), [Next]_vars,
           \A r \in DOMAIN chains : Bounded(r), NEW i \in DOMAIN chains'
    PROVE  Bounded(i)'
<1>w. w \in Workers
  OBVIOUS
<1>1. ASSUME NEW r \in DOMAIN chains, WriteAttempts(w, r) PROVE Bounded(i)'
  <2>1. CounterWritten(w, r) /\ attempts[w] < MaxAttempts /\ attempts[w] \in Nat
    BY <1>1, <1>w, CounterIsWritten, CountSeen DEF Known, Typed
  <2>2. i \in DOMAIN chains
    BY <2>1 DEF CounterWritten
  <2>3. CASE i = r
    BY <2>1, <2>3, BoundsAssumption DEF CounterWritten, Bounded, Pending
  <2>4. CASE i # r
    BY <2>1, <2>2, <2>4 DEF CounterWritten, Bounded, Pending
  <2> QED
    BY <2>3, <2>4
<1>2. CASE ~(\E r \in DOMAIN chains : WriteAttempts(w, r))
  <2>1. RowsLater
    BY <1>2, AllRowsLater DEF Known
  <2>2. CASE i \in DOMAIN chains
    BY <2>1, <2>2 DEF RowsLater, LaterRow, Bounded, Pending
  <2>3. CASE i \notin DOMAIN chains
    BY <2>1, <2>3, BoundsAssumption DEF RowsLater, NewRow, Bounded, Pending
  <2> QED
    BY <2>2, <2>3
<1> QED
  BY <1>1, <1>2

\* Every call was placed by a campaign or for a row of the table.
LEMMA RetriesKept ==
    ASSUME Known, \A c \in DOMAIN calls : calls[c].retry \in {0} \cup DOMAIN chains, [Next]_vars,
           NEW c \in DOMAIN calls'
    PROVE  calls'[c].retry \in {0} \cup DOMAIN chains'
<1>1. DOMAIN chains \subseteq DOMAIN chains'
  BY RowsNeverRemoved DEF Known
<1>2. NoNewCall \/ \E q \in {0} \cup DOMAIN chains : Rung(q)
  BY CallSteps DEF Known
<1>3. CASE NoNewCall
  BY <1>1, <1>3 DEF NoNewCall
<1>4. ASSUME NEW q \in {0} \cup DOMAIN chains, Rung(q)
      PROVE  calls'[c].retry \in {0} \cup DOMAIN chains'
  <2>1. CASE c \in DOMAIN calls
    BY <1>1, <1>4, <2>1 DEF Rung
  <2>2. CASE c = Len(calls) + 1
    BY <1>1, <1>4, <2>2 DEF Rung
  <2> QED
    BY <1>4, <2>1, <2>2 DEF Rung
<1> QED
  BY <1>2, <1>3, <1>4

\* The calls of a row can be counted.
LEMMA CallOfCounted ==
    ASSUME CallsTyped, NEW r PROVE IsFiniteSet(CallOf(r)) /\ Cardinality(CallOf(r)) \in Nat
<1>1. CallOf(r) \subseteq 1 .. Len(calls) /\ Len(calls) \in Nat
  BY DEF CallOf, CallsTyped
<1>2. IsFiniteSet(1 .. Len(calls))
  BY <1>1, FS_Interval
<1>3. IsFiniteSet(CallOf(r))
  BY <1>1, <1>2, FS_Subset
<1> QED
  BY <1>3, FS_CardinalityType

\* A step that places no call leaves the calls of every row.
LEMMA CallOfSame == ASSUME NoNewCall, NEW r PROVE CallOf(r)' = CallOf(r)
BY DEF NoNewCall, CallOf

\* A call for one row leaves the calls of the others.
LEMMA CallOfOther ==
    ASSUME CallsTyped, NEW q, Rung(q), NEW r, r # q PROVE CallOf(r)' = CallOf(r)
BY DEF Rung, CallOf

\* A call for a row adds one to its calls.
LEMMA CallOfRung ==
    ASSUME CallsTyped, NEW q, Rung(q)
    PROVE  Cardinality(CallOf(q)') = Cardinality(CallOf(q)) + 1
<1>1. CallOf(q)' = CallOf(q) \cup {Len(calls) + 1} /\ Len(calls) + 1 \notin CallOf(q)
  BY DEF Rung, CallOf, CallsTyped
<1> DEFINE S == CallOf(q)
           x == Len(calls) + 1
<1>2. IsFiniteSet(S)
  BY CallOfCounted
<1>3. CallOf(q)' = S \cup {x} /\ x \notin S
  BY <1>1
<1>4. Cardinality(S) = Cardinality(CallOf(q))
  OBVIOUS
<1> HIDE DEF S, x
<1>5. Cardinality(S \cup {x}) = Cardinality(S) + 1
  BY <1>2, <1>3, FS_AddElement
<1> QED
  BY <1>3, <1>4, <1>5

\* Faults are counted and never forgotten.
LEMMA FaultsGrow == ASSUME faults \in Nat, [Next]_vars PROVE faults' \in Nat /\ faults' >= faults
<1>1. Fault => faults' = faults + 1
  BY DEF Fault
<1>2. ASSUME NEW w \in Workers, WorkerStep(w) \/ Crash(w) PROVE faults' = faults \/ Fault
  <2>1. \A r \in DOMAIN chains : Dial(w, r) => faults' = faults \/ Fault
    BY DEF Dial
  <2> QED
    BY <1>2, <2>1 DEF WorkerStep, ListDue, IncrFails, LeadMissing, NoCredit, ReadAttempts, WriteAttempts, Crash
<1>3. faults' = faults \/ Fault
  BY <1>2
  DEF Next, CampaignDial, SaveCallLog, CarrierEnds, ReceiveStatus, CreateRetry, BecomeDue, RunOut, vars
<1> QED
  BY <1>1, <1>3

\* A row in flight stays so until its count is written or a fault loses it.
LEMMA InFlightEnds ==
    ASSUME Known, NEW w, Workers = {w}, [Next]_vars, NEW r, InFlight(r),
           ~(\E i \in DOMAIN chains : WriteAttempts(w, i))
    PROVE  InFlight(r)' \/ faults' = faults + 1
<1>1. w \in Workers /\ step[w] \in {"dialed", "read"} /\ Head(todo[w]) = r
  BY DEF InFlight
<1>2. CASE UNCHANGED <<todo, step>>
  BY <1>1, <1>2 DEF InFlight
<1>3. ASSUME NEW i \in DOMAIN chains, ReadAttempts(w, i) PROVE InFlight(r)'
  <2>1. todo' = todo /\ step' = [step EXCEPT ![w] = "read"]
        /\ step \in [Workers -> {"idle", "next", "dialed", "read"}]
    BY <1>3 DEF ReadAttempts, Known, Lists
  <2>2. step'[w] = "read"
    BY <1>1, <2>1
  <2> QED
    BY <1>1, <2>1, <2>2 DEF InFlight
<1>4. ~ListDue(w) /\ \A i \in DOMAIN chains : ~LeadMissing(w, i) /\ ~NoCredit(w, i) /\ ~Dial(w, i)
  BY <1>1 DEF ListDue, LeadMissing, NoCredit, Dial, AtRow
<1>5. IncrFails(w) \/ Crash(w) => faults' = faults + 1
  BY DEF IncrFails, Crash, Fault
<1>6. WorkerStep(w) => InFlight(r)' \/ faults' = faults + 1
  BY <1>3, <1>4, <1>5 DEF WorkerStep
<1>7. UNCHANGED <<todo, step>> \/ WorkerStep(w) \/ Crash(w)
  BY DEF Next, CampaignDial, SaveCallLog, CarrierEnds, ReceiveStatus, CreateRetry, BecomeDue, RunOut, vars
<1> QED
  BY <1>2, <1>5, <1>6, <1>7

\* With one worker, every dial of a chain is counted, in flight or lost to a fault.
LEMMA DialsCountedKept ==
    ASSUME Known, Known', NEW w, Workers = {w}, CountInv, [Next]_vars, NEW i \in DOMAIN chains'
    PROVE  DialsCounted(i)'
<1>w. w \in Workers /\ Listed(w) /\ ReadIs(w)
  BY DEF CountInv
<1>t. faults \in Nat /\ faults' \in Nat /\ faults' >= faults /\ chains'[i].attempts \in Nat
  <2>1. faults \in Nat /\ chains' \in Seq(Chain)
    BY DEF Known, Typed, CallsTyped
  <2>2. chains'[i] \in Chain
    BY <2>1
  <2> QED
    BY <2>1, <2>2, FaultsGrow DEF Chain
<1>c. Cardinality(CallOf(i)) \in Nat
  BY CallOfCounted DEF Known
<1>e. Extra(i) \in {0, 1} /\ Extra(i)' \in {0, 1} /\ (InFlight(i)' => Extra(i)' = 1)
      /\ (~InFlight(i) => Extra(i) = 0)
  BY DEF Extra
<1>1. CASE i \notin DOMAIN chains
  <2>1. UNCHANGED chains => FALSE
    BY <1>1
  <2>2. NoNewCall
    BY <2>1, CallSteps DEF Known, CampaignDial, Dial
  <2>3. i # 0
    <3>1. chains' \in Seq(Chain)
      BY DEF Known, Typed
    <3> QED
      BY <3>1
  <2>4. CallOf(i) = {}
    BY <1>1, <2>3 DEF CallOf, CountInv
  <2>5. Cardinality(CallOf(i)') = 0
    BY <2>2, <2>4, CallOfSame, FS_EmptySet
  <2> QED
    BY <1>t, <1>e, <2>5 DEF DialsCounted
<1>2. CASE i \in DOMAIN chains
  <2>h. Cardinality(CallOf(i)) <= chains[i].attempts + faults + Extra(i) /\ chains[i].attempts \in Nat
    <3>1. DialsCounted(i) /\ chains[i] \in Chain
      BY <1>2, RowTyped DEF CountInv, Known
    <3> QED
      BY <3>1 DEF DialsCounted, Chain
  <2>0. i # 0
    BY <1>2 DEF Known, Typed
  <2>1. ASSUME NEW r \in DOMAIN chains, Dial(w, r), Rung(r) PROVE DialsCounted(i)'
    <3>1. chains' = chains /\ todo' = todo /\ step[w] = "next" /\ r = Head(todo[w])
          /\ step' = [step EXCEPT ![w] = "dialed"] /\ step \in [Workers -> {"idle", "next", "dialed", "read"}]
      BY <2>1 DEF Dial, AtRow, Known, Lists
    <3>2. CASE i = r
      <4>1. Cardinality(CallOf(i)') = Cardinality(CallOf(i)) + 1
        BY <2>1, <3>2, CallOfRung DEF Known
      <4>2. ~InFlight(i)
        BY <3>1 DEF InFlight
      <4>3. InFlight(i)'
        <5>1. step'[w] = "dialed"
          BY <1>w, <3>1
        <5> QED
          BY <1>w, <3>1, <3>2, <5>1 DEF InFlight
      <4> QED
        BY <1>t, <1>c, <1>e, <2>h, <3>1, <4>1, <4>2, <4>3 DEF DialsCounted
    <3>3. CASE i # r
      <4>1. Cardinality(CallOf(i)') = Cardinality(CallOf(i))
        BY <2>1, <3>3, CallOfOther DEF Known
      <4>2. ~InFlight(i)
        BY <3>1 DEF InFlight
      <4> QED
        BY <1>t, <1>c, <1>e, <2>h, <3>1, <4>1, <4>2 DEF DialsCounted
    <3> QED
      BY <3>2, <3>3
  <2>2. ASSUME Cardinality(CallOf(i)') = Cardinality(CallOf(i)) PROVE DialsCounted(i)'
    <3>1. ASSUME NEW r \in DOMAIN chains, WriteAttempts(w, r) PROVE DialsCounted(i)'
      <4>1. /\ CounterWritten(w, r) /\ attempts[w] = chains[r].attempts
            /\ step[w] = "read" /\ r = Head(todo[w])
        BY <1>w, <3>1, CounterIsWritten, CountSeen DEF Known, WriteAttempts, AtRow
      <4>2. CASE i = r
        <5>1. chains'[i].attempts = chains[i].attempts + 1
          BY <4>1, <4>2 DEF CounterWritten
        <5> QED
          BY <1>t, <1>c, <1>e, <2>2, <2>h, <5>1 DEF DialsCounted
      <4>3. CASE i # r
        <5>1. chains'[i].attempts = chains[i].attempts
          BY <1>2, <4>1, <4>3 DEF CounterWritten
        <5>2. ~InFlight(i)
          BY <4>1, <4>3 DEF InFlight
        <5> QED
          BY <1>t, <1>c, <1>e, <2>2, <2>h, <5>1, <5>2 DEF DialsCounted
      <4> QED
        BY <4>2, <4>3
    <3>2. CASE ~(\E r \in DOMAIN chains : WriteAttempts(w, r))
      <4>1. chains'[i].attempts = chains[i].attempts
        BY <1>2, <3>2, AllRowsLater DEF Known, RowsLater, LaterRow
      <4>2. InFlight(i) => InFlight(i)' \/ faults' = faults + 1
        BY <3>2, InFlightEnds
      <4> QED
        BY <1>t, <1>c, <1>e, <2>2, <2>h, <4>1, <4>2 DEF DialsCounted
    <3> QED
      BY <3>1, <3>2
  <2>3. NoNewCall => Cardinality(CallOf(i)') = Cardinality(CallOf(i))
    BY CallOfSame
  <2>4. Rung(0) => Cardinality(CallOf(i)') = Cardinality(CallOf(i))
    BY <2>0, CallOfOther DEF Known
  <2> QED
    BY <2>1, <2>2, <2>3, <2>4, CallSteps DEF Known
<1> QED
  BY <1>1, <1>2

\* With one retry worker, however many handlers, targets and calls: no chain is
\* dialled more often than max_attempts plus one call for each fault that lost a
\* count, its counter never passes max_attempts, and a pending chain has an
\* attempt left.
THEOREM DialsAccountedWithOneWorker ==
    ASSUME NEW w, Workers = {w}
    PROVE  Spec => []DialsPerChainAccounted
<1>1. Init => CountInv
  <2> SUFFICES ASSUME Init PROVE CountInv
    OBVIOUS
  <2>1. DOMAIN chains = {} /\ DOMAIN calls = {}
    BY DEF Init
  <2>2. \A v \in Workers : DOMAIN todo[v] = {} /\ step[v] = "idle"
    BY DEF Init
  <2> QED
    BY <2>1, <2>2 DEF CountInv, Listed, ReadIs
<1>2. Known /\ Known' /\ CountInv /\ [Next]_vars => CountInv'
  <2> SUFFICES ASSUME Known, Known', CountInv, [Next]_vars PROVE CountInv'
    OBVIOUS
  <2>0. Listed(w) /\ ReadIs(w) /\ (\A r \in DOMAIN chains : Bounded(r))
        /\ (\A c \in DOMAIN calls : calls[c].retry \in {0} \cup DOMAIN chains)
    BY DEF CountInv
  <2>1. \A v \in Workers : Listed(v)' /\ ReadIs(v)'
    BY <2>0, ListedKept, ReadIsKept
  <2>2. \A c \in DOMAIN calls' : calls'[c].retry \in {0} \cup DOMAIN chains'
    BY <2>0, RetriesKept
  <2>3. \A r \in DOMAIN chains' : Bounded(r)' /\ DialsCounted(r)'
    BY <2>0, BoundedKept, DialsCountedKept
  <2> QED
    BY <2>1, <2>2, <2>3 DEF CountInv
<1>3. Known /\ CountInv => DialsPerChainAccounted
  <2> SUFFICES ASSUME Known, CountInv, NEW r \in DOMAIN chains
               PROVE  /\ Cardinality(CallOf(r)) <= MaxAttempts + faults
                      /\ Bounded(r)
    BY DEF DialsPerChainAccounted, Bounded
  <2>1. Bounded(r) /\ DialsCounted(r) /\ chains[r].attempts \in Nat /\ faults \in Nat
        /\ Cardinality(CallOf(r)) \in Nat
    BY RowTyped, CallOfCounted DEF CountInv, Known, CallsTyped
  <2>2. InFlight(r) => chains[r].attempts < MaxAttempts
    <3> SUFFICES ASSUME NEW v \in Workers, step[v] \in {"dialed", "read"}, Head(todo[v]) = r
                 PROVE  chains[r].attempts < MaxAttempts
      BY DEF InFlight
    <3>1. 1 \in DOMAIN todo[v] /\ r = todo[v][1]
      BY HeadIsListed
    <3> QED
      BY <3>1 DEF CountInv, Listed
  <2>3. Extra(r) + chains[r].attempts <= MaxAttempts /\ Extra(r) \in {0, 1}
    BY <2>1, <2>2, BoundsAssumption DEF Extra, Bounded
  <2> QED
    BY <2>1, <2>3, BoundsAssumption DEF DialsCounted
<1>4. Spec => []Known
  BY ChainInvariant, QueueInvariant, ListsInvariant, PTL DEF Known
<1> QED
  BY <1>1, <1>2, <1>3, <1>4, PTL DEF Spec

-----------------------------------------------------------------------------
(* The counters, with any number of workers.                                 *)

\* The workers that have r on their list, and those that have read its counter.
Holders(r) == {w \in Workers : \E i \in DOMAIN todo[w] : todo[w][i] = r}
Reading(w, r) == step[w] = "read" /\ r = Head(todo[w])

\* What a counter, and who still has the row before him, can come to.
Overrun == MaxAttempts + Cardinality(Workers) - 1
WithinReach(n, r) == n + Cardinality(Holders(r)) <= Overrun

\* A pending row has an attempt left, also by the counter somebody has read.  Once it
\* is not pending nobody lists it again, and each who still holds it counts once.
ReachInv ==
    \A r \in DOMAIN chains :
        /\ IF Pending(r) THEN chains[r].attempts < MaxAttempts ELSE WithinReach(chains[r].attempts, r)
        /\ \A w \in Workers : Reading(w, r) =>
               IF Pending(r) THEN attempts[w] < MaxAttempts ELSE WithinReach(attempts[w], r)

\* The holders of a row are counted, among the workers.
LEMMA HoldersCounted ==
    ASSUME IsFiniteSet(Workers), NEW r
    PROVE  /\ IsFiniteSet(Holders(r)) /\ Cardinality(Holders(r)) \in Nat
           /\ Cardinality(Holders(r)) <= Cardinality(Workers) /\ Cardinality(Workers) \in Nat
<1>1. Holders(r) \subseteq Workers
  BY DEF Holders
<1> QED
  BY <1>1, FS_Subset, FS_CardinalityType

\* Whether it is pending or not, a row's counter and the counter somebody has read of
\* it are within reach.
LEMMA ReachOfEach ==
    ASSUME IsFiniteSet(Workers), Known, ReachInv, NEW r \in DOMAIN chains
    PROVE  /\ WithinReach(chains[r].attempts, r)
           /\ \A w \in Workers : Reading(w, r) => WithinReach(attempts[w], r)
<1>t. /\ Cardinality(Holders(r)) \in Nat /\ Cardinality(Workers) \in Nat
      /\ Cardinality(Holders(r)) <= Cardinality(Workers)
      /\ chains[r].attempts \in Nat /\ attempts \in [Workers -> Nat]
  BY HoldersCounted, RowTyped DEF Known, Typed
<1>1. WithinReach(chains[r].attempts, r)
  BY <1>t, BoundsAssumption DEF ReachInv, WithinReach, Overrun
<1>2. ASSUME NEW w \in Workers, Reading(w, r) PROVE WithinReach(attempts[w], r)
  <2>1. IF Pending(r) THEN attempts[w] < MaxAttempts ELSE WithinReach(attempts[w], r)
    BY <1>2 DEF ReachInv
  <2>2. attempts[w] \in Nat
    BY <1>t
  <2> QED
    BY <1>t, <2>1, <2>2, BoundsAssumption DEF WithinReach, Overrun
<1> QED
  BY <1>1, <1>2

\* Nobody gets a row that is not pending.
LEMMA HoldersShrink ==
    ASSUME Known, [Next]_vars, NEW r \in DOMAIN chains, ~Pending(r)'
    PROVE  Holders(r)' \subseteq Holders(r)
<1> SUFFICES ASSUME NEW w \in Workers, NEW i \in DOMAIN todo'[w], todo'[w][i] = r
             PROVE  \E j \in DOMAIN todo[w] : todo[w][j] = r
  BY DEF Holders
<1>t. /\ todo[w] \in Seq(DOMAIN chains) /\ due \in Seq(DOMAIN chains) /\ Distinct(todo[w])
      /\ step[w] # "idle" => todo[w] # <<>>
  BY DEF Known, Lists
<1>1. CASE todo'[w] = todo[w]
  BY <1>1
<1>2. CASE todo'[w] = <<>>
  BY <1>2
<1>3. CASE step[w] # "idle" /\ todo'[w] = Tail(todo[w])
  BY <1>t, <1>3, TailDistinct
<1>4. CASE ListDue(w) /\ todo'[w] = SelectIn(due, {n \in DOMAIN chains : Pending(n)})
  <2> DEFINE S == {n \in DOMAIN chains : Pending(n)}
  <2>1. todo'[w] \in Seq(DOMAIN chains \cap S)
    BY <1>t, <1>4, SelectInIs
  <2>2. todo'[w][i] \in DOMAIN chains \cap S
    BY <2>1
  <2>3. chains' = chains
    BY <1>4 DEF ListDue
  <2> QED
    BY <2>2, <2>3 DEF Pending
<1> QED
  BY <1>1, <1>2, <1>3, <1>4, ListSteps DEF ListStep, Known

\* A counter that somebody has in hand after a step he had before, or he read it in
\* this one.
LEMMA ReadersBefore ==
    ASSUME Known, [Next]_vars, NEW w \in Workers, NEW r, Reading(w, r)'
    PROVE  \/ Reading(w, r) /\ attempts'[w] = attempts[w]
           \/ r \in DOMAIN chains /\ chains' = chains /\ attempts'[w] = chains[r].attempts
<1>t. /\ attempts \in [Workers -> Nat] /\ step \in [Workers -> {"idle", "next", "dialed", "read"}]
      /\ todo \in [Workers -> Seq(DOMAIN chains)] /\ step'[w] = "read" /\ r = Head(todo'[w])
  BY DEF Known, Typed, Lists, Reading
<1>0. ListStep(w)
  BY ListSteps DEF Known
<1>1. ASSUME NEW i \in DOMAIN chains, ReadAttempts(w, i)
      PROVE  r \in DOMAIN chains /\ chains' = chains /\ attempts'[w] = chains[r].attempts
  BY <1>t, <1>1 DEF ReadAttempts, AtRow
<1>2. CASE ~(\E i \in DOMAIN chains : ReadAttempts(w, i))
  <2>1. todo'[w] = todo[w] /\ step[w] = "read"
    BY <1>0, <1>t, <1>2 DEF ListStep
  <2>2. ASSUME NEW v \in Workers, NextRow(v) \/ Crash(v) PROVE v # w
    <3>1. NextRow(v) => step'[v] \in {"idle", "next"}
      BY <1>t DEF NextRow
    <3>2. Crash(v) => step'[v] = "idle"
      BY <1>t DEF Crash
    <3> QED
      BY <1>t, <2>2, <3>1, <3>2
  <2>3. ASSUME NEW v \in Workers, NEW n, v # w, attempts' = [attempts EXCEPT ![v] = n]
        PROVE  attempts'[w] = attempts[w]
    BY <1>t, <2>3
  <2>4. ASSUME NEW v \in Workers, WorkerStep(v) \/ Crash(v) PROVE attempts'[w] = attempts[w]
    <3>1. IncrFails(v) \/ Crash(v) => attempts'[w] = attempts[w]
      BY <2>2, <2>3 DEF IncrFails, Crash
    <3>2. ASSUME NEW i \in DOMAIN chains, WriteAttempts(v, i) PROVE attempts'[w] = attempts[w]
      BY <2>2, <2>3, <3>2 DEF WriteAttempts
    <3>3. ASSUME NEW i \in DOMAIN chains, ReadAttempts(v, i) PROVE attempts'[w] = attempts[w]
      BY <1>2, <2>3, <3>3 DEF ReadAttempts
    <3> QED
      BY <2>4, <3>1, <3>2, <3>3 DEF WorkerStep, ListDue, LeadMissing, NoCredit, Dial
  <2>5. attempts'[w] = attempts[w]
    BY <2>4
    DEF Next, CampaignDial, SaveCallLog, CarrierEnds, ReceiveStatus, CreateRetry, BecomeDue, RunOut, vars
  <2> QED
    BY <1>t, <2>1, <2>5 DEF Reading
<1> QED
  BY <1>1, <1>2

\* Who reads or writes a counter holds the row, and the writer does not afterwards.
LEMMA WriterLetsGo ==
    ASSUME IsFiniteSet(Workers), Known, [Next]_vars, NEW w \in Workers, NEW r \in DOMAIN chains,
           WriteAttempts(w, r), ~Pending(r)'
    PROVE  Cardinality(Holders(r)') + 1 <= Cardinality(Holders(r)) /\ Cardinality(Holders(r)') \in Nat
<1>t. /\ todo \in [Workers -> Seq(DOMAIN chains)] /\ step[w] = "read" /\ r = Head(todo[w])
      /\ NextRow(w)
  BY DEF Known, Lists, WriteAttempts, AtRow
<1>h. /\ todo[w] \in Seq(DOMAIN chains) /\ todo[w] # <<>> /\ Distinct(todo[w])
      /\ 1 \in DOMAIN todo[w] /\ Head(todo[w]) = todo[w][1]
  BY <1>t, HeadIsListed
<1>1. w \in Holders(r)
  BY <1>t, <1>h DEF Holders
<1>2. w \notin Holders(r)'
  <2>1. todo'[w] = Tail(todo[w])
    BY <1>t DEF NextRow
  <2>2. \A i \in DOMAIN Tail(todo[w]) : Tail(todo[w])[i] # r
    BY <1>t, <1>h, TailDistinct
  <2> QED
    BY <2>1, <2>2 DEF Holders
<1>3. Holders(r)' \subseteq Holders(r)
  BY HoldersShrink
<1> DEFINE H == Holders(r)
           K == Holders(r)'
<1>4. IsFiniteSet(H) /\ K \subseteq H \ {w} /\ w \in H
  BY <1>1, <1>2, <1>3, HoldersCounted
<1> HIDE DEF H, K
<1>5. IsFiniteSet(H \ {w}) /\ Cardinality(H \ {w}) = Cardinality(H) - 1 /\ Cardinality(H) \in Nat
  BY <1>4, FS_RemoveElement, FS_CardinalityType
<1>6. Cardinality(K) <= Cardinality(H \ {w}) /\ Cardinality(K) \in Nat
  BY <1>4, <1>5, FS_Subset, FS_CardinalityType
<1>7. Cardinality(K) + 1 <= Cardinality(H)
  BY <1>5, <1>6
<1> QED
  BY <1>6, <1>7 DEF H, K

\* A number within reach stays so while nobody gets the row.
LEMMA ReachKept ==
    ASSUME IsFiniteSet(Workers), Known, [Next]_vars, NEW r \in DOMAIN chains, ~Pending(r)',
           NEW n \in Nat, WithinReach(n, r)
    PROVE  WithinReach(n, r)'
<1> DEFINE H == Holders(r)
           K == Holders(r)'
<1>1. K \subseteq H /\ IsFiniteSet(H) /\ n + Cardinality(H) <= Overrun
  BY HoldersShrink, HoldersCounted DEF WithinReach
<1>2. Cardinality(Workers) \in Nat
  BY HoldersCounted
<1>3. WithinReach(n, r)' <=> n + Cardinality(K) <= Overrun
  BY DEF WithinReach, Overrun
<1> HIDE DEF H, K
<1>4. Cardinality(K) <= Cardinality(H) /\ Cardinality(H) \in Nat /\ Cardinality(K) \in Nat
  BY <1>1, FS_Subset, FS_CardinalityType
<1> QED
  BY <1>1, <1>2, <1>3, <1>4, BoundsAssumption DEF Overrun

\* ReachInv is inductive.
LEMMA ReachInvKept ==
    ASSUME IsFiniteSet(Workers), Known, Known', ReachInv, [Next]_vars PROVE ReachInv'
<1> SUFFICES ASSUME NEW r \in DOMAIN chains'
             PROVE  /\ IF Pending(r)' THEN chains'[r].attempts < MaxAttempts
                       ELSE WithinReach(chains[r].attempts, r)'
                    /\ \A w \in Workers : Reading(w, r)' =>
                           IF Pending(r)' THEN attempts'[w] < MaxAttempts ELSE WithinReach(attempts[w], r)'
  BY DEF ReachInv
<1>t. /\ attempts \in [Workers -> Nat] /\ chains \in Seq(Chain)
  BY DEF Known, Typed
<1>1. CASE r \notin DOMAIN chains
  <2>1. RowsLater
    BY <1>1, AllRowsLater, CounterIsWritten DEF Known, CounterWritten
  <2>2. chains'[r].attempts = 0
    BY <1>1, <2>1 DEF RowsLater, NewRow
  <2>3. /\ Cardinality(Holders(r)') \in Nat /\ Cardinality(Holders(r)') <= Cardinality(Workers)
        /\ Cardinality(Workers) \in Nat
    <3>1. Holders(r)' \subseteq Workers
      BY DEF Holders
    <3> QED
      BY <3>1, FS_Subset, FS_CardinalityType
  <2>4. WithinReach(chains[r].attempts, r)'
    BY <2>2, <2>3, BoundsAssumption DEF WithinReach, Overrun
  <2>5. ASSUME NEW w \in Workers, Reading(w, r)' PROVE FALSE
    <3>1. Reading(w, r)
      BY <1>1, <2>5, ReadersBefore
    <3> QED
      BY <1>1, <3>1, HeadIsListed DEF Reading
  <2> QED
    BY <2>2, <2>4, <2>5, BoundsAssumption
<1>2. CASE r \in DOMAIN chains
  <2>0. /\ chains[r].attempts \in Nat /\ WithinReach(chains[r].attempts, r)
        /\ \A w \in Workers : Reading(w, r) => WithinReach(attempts[w], r)
        /\ Pending(r) => chains[r].attempts < MaxAttempts
    BY <1>2, ReachOfEach, RowTyped DEF Known, ReachInv
  <2>1. /\ Pending(r)' => Pending(r)
        /\ IF Pending(r)' THEN chains'[r].attempts < MaxAttempts ELSE WithinReach(chains[r].attempts, r)'
    <3>1. ASSUME NEW w \in Workers, WriteAttempts(w, r)
          PROVE  /\ Pending(r)' => Pending(r)
                 /\ IF Pending(r)' THEN chains'[r].attempts < MaxAttempts
                    ELSE WithinReach(chains[r].attempts, r)'
      <4>1. CounterWritten(w, r) /\ Reading(w, r) /\ attempts[w] \in Nat
        BY <1>2, <1>t, <3>1, CounterIsWritten DEF Known, WriteAttempts, AtRow, Reading
      <4>2. ASSUME ~Pending(r)' PROVE WithinReach(chains[r].attempts, r)'
        <5>1. /\ Cardinality(Holders(r)') + 1 <= Cardinality(Holders(r))
              /\ Cardinality(Holders(r)') \in Nat /\ Cardinality(Holders(r)) \in Nat
              /\ Cardinality(Workers) \in Nat
          BY <1>2, <3>1, <4>2, WriterLetsGo, HoldersCounted
        <5>2. attempts[w] + Cardinality(Holders(r)) <= Overrun /\ chains'[r].attempts = attempts[w] + 1
          BY <2>0, <4>1 DEF WithinReach, CounterWritten
        <5>3. chains'[r].attempts + Cardinality(Holders(r)') <= Overrun
          BY <4>1, <5>1, <5>2, BoundsAssumption DEF Overrun
        <5> QED
          BY <5>3 DEF WithinReach, Overrun
      <4>3. Pending(r)' => Pending(r) /\ chains'[r].attempts < MaxAttempts
        BY <4>1 DEF CounterWritten, Pending
      <4> QED
        BY <4>2, <4>3
    <3>2. ASSUME chains'[r].attempts = chains[r].attempts, Pending(r)' => Pending(r)
          PROVE  IF Pending(r)' THEN chains'[r].attempts < MaxAttempts
                 ELSE WithinReach(chains[r].attempts, r)'
      <4>1. ~Pending(r)' => WithinReach(chains[r].attempts, r)'
        <5> DEFINE n == chains[r].attempts
        <5>1. ~Pending(r)' => n + Cardinality(Holders(r)') <= Overrun
          <6> SUFFICES ASSUME ~Pending(r)' PROVE n + Cardinality(Holders(r)') <= Overrun
            OBVIOUS
          <6>1. Holders(r)' \subseteq Holders(r) /\ IsFiniteSet(Holders(r))
            BY <1>2, HoldersShrink, HoldersCounted
          <6>2. /\ Cardinality(Holders(r)') <= Cardinality(Holders(r))
                /\ Cardinality(Holders(r)') \in Nat /\ Cardinality(Holders(r)) \in Nat
            BY <6>1, FS_Subset, FS_CardinalityType
          <6>3. Cardinality(Workers) \in Nat /\ n + Cardinality(Holders(r)) <= Overrun
            BY <2>0, HoldersCounted DEF WithinReach
          <6> QED
            BY <2>0, <6>2, <6>3, BoundsAssumption DEF Overrun
        <5> QED
          BY <3>2, <5>1 DEF WithinReach, Overrun
      <4> QED
        BY <2>0, <3>2, <4>1
    <3>3. ASSUME NEW w \in Workers, NEW i \in DOMAIN chains, i # r, WriteAttempts(w, i)
          PROVE  chains'[r].attempts = chains[r].attempts /\ (Pending(r)' => Pending(r))
      BY <1>2, <3>3, CounterIsWritten DEF Known, CounterWritten, Pending
    <3>4. CASE ~(\E w \in Workers, i \in DOMAIN chains : WriteAttempts(w, i))
      <4>1. chains'[r].attempts = chains[r].attempts /\ (Pending(r)' => Pending(r))
        BY <1>2, <3>4, AllRowsLater DEF Known, RowsLater, LaterRow, Pending
      <4> QED
        BY <3>2, <4>1
    <3> QED
      BY <3>1, <3>2, <3>3, <3>4
  <2>2. ASSUME NEW w \in Workers, Reading(w, r)'
        PROVE  IF Pending(r)' THEN attempts'[w] < MaxAttempts ELSE WithinReach(attempts[w], r)'
    <3>1. PICK n \in Nat : /\ n = attempts'[w] /\ WithinReach(n, r)
                           /\ Pending(r) => n < MaxAttempts
      <4>1. CASE Reading(w, r) /\ attempts'[w] = attempts[w]
        <5>1. attempts[w] \in Nat /\ WithinReach(attempts[w], r) /\ (Pending(r) => attempts[w] < MaxAttempts)
          BY <1>2, <1>t, <2>0, <4>1 DEF ReachInv
        <5> QED
          BY <4>1, <5>1
      <4>2. CASE attempts'[w] = chains[r].attempts
        BY <2>0, <4>2
      <4> QED
        BY <2>2, <4>1, <4>2, ReadersBefore
    <3>2. ~Pending(r)' => n + Cardinality(Holders(r)') <= Overrun
      <4>1. ~Pending(r)' => WithinReach(n, r)'
        BY <1>2, <3>1, ReachKept
      <4> QED
        BY <4>1 DEF WithinReach, Overrun
    <3>3. ~Pending(r)' => WithinReach(attempts[w], r)'
      BY <3>1, <3>2 DEF WithinReach, Overrun
    <3> QED
      BY <2>1, <3>1, <3>3
  <2> QED
    BY <2>1, <2>2
<1> QED
  BY <1>1, <1>2

\* However many workers run, as two do during a deployment: a pending chain has an
\* attempt left, and a counter passes max_attempts by less than the number of workers.
CountersInReach ==
    \A r \in DOMAIN chains :
        /\ Pending(r) => chains[r].attempts < MaxAttempts
        /\ chains[r].attempts < MaxAttempts + Cardinality(Workers)

\* It holds for every finite number of workers, handlers, targets and faults.
THEOREM CountersStayInReach == ASSUME IsFiniteSet(Workers) PROVE Spec => []CountersInReach
<1>1. Init => ReachInv
  BY DEF Init, ReachInv
<1>2. Known /\ Known' /\ ReachInv /\ [Next]_vars => ReachInv'
  BY ReachInvKept
<1>3. Known /\ ReachInv => CountersInReach
  <2> SUFFICES ASSUME Known, ReachInv, NEW r \in DOMAIN chains
               PROVE  /\ Pending(r) => chains[r].attempts < MaxAttempts
                      /\ chains[r].attempts < MaxAttempts + Cardinality(Workers)
    BY DEF CountersInReach
  <2>1. /\ chains[r].attempts + Cardinality(Holders(r)) <= Overrun /\ chains[r].attempts \in Nat
        /\ Cardinality(Holders(r)) \in Nat /\ Cardinality(Workers) \in Nat
    BY ReachOfEach, HoldersCounted, RowTyped DEF WithinReach, Known
  <2> QED
    BY <2>1, BoundsAssumption DEF ReachInv, Overrun
<1>4. Spec => []Known
  BY ChainInvariant, QueueInvariant, ListsInvariant, PTL DEF Known
<1> QED
  BY <1>1, <1>2, <1>3, <1>4, PTL DEF Spec
=============================================================================
