--------------------------- MODULE PrewarmProofs ---------------------------
(***************************************************************************)
(* Proofs about the pool of prestarted processes: what the mutex and the  *)
(* epoch guarantee for any number of selections, processes and requests.  *)
(***************************************************************************)
EXTENDS Prewarm, TLAPS

\* What the thread holds at each place of its loop; it exists when the slot
\* says so.
ThreadPlaces ==
    /\ slot.running <=> thread.pc # "off"
    /\ thread.pc \in {"off", "top", "exit"} => thread.job = None
    /\ thread.pc \in {"start", "probe", "place", "discard"} => thread.job # None
    /\ thread.old # {} => thread.pc = "retire"
    /\ thread.made # None => thread.pc \in {"probe", "place", "discard"}
    /\ thread.pc = "probe" => thread.made # None
    /\ slot.preparing # None =>
          slot.preparing = thread.job /\ thread.pc \in {"retire", "start", "probe", "place"}

\* The epoch orders requests and invalidations: a pending request is the
\* latest, a job the thread works on is the latest only while nothing is
\* pending, and what is ready has no successor.
EpochOrders ==
    /\ slot.pending # None => slot.pending.gen = epoch /\ slot.running
    /\ thread.job # None => thread.job.gen <= epoch
    /\ slot.pending # None /\ thread.job # None => thread.job.gen < epoch
    /\ slot.ready # None => slot.pending = None /\ thread.job = None
    /\ epoch > MaxEpoch => slot.stopped

\* Whatever is of the latest generation serves the latest selection.
ServesWanted ==
    /\ slot.target # None => slot.target.sel = wanted
    /\ slot.pending # None => slot.pending.key.sel = wanted
    /\ thread.job # None /\ thread.job.gen = epoch => thread.job.key.sel = wanted

\* A process is started under the key of the thread's job.
StartedUnderKey ==
    /\ \A w \in Workers : proc[w].status # "unborn" => proc[w].key \in Keys
    /\ thread.made # None => proc[thread.made].key.sel = thread.job.key.sel

\* A process that may still be handed out has read the settings in force.
Fresh ==
    /\ settings.applied <= settings.now
    /\ slot.ready # None => proc[slot.ready].basis >= settings.applied
    /\ thread.made # None /\ thread.job.gen = epoch
          => proc[thread.made].basis >= settings.applied

\* OneOwner, owner by owner.
OwnedOnce ==
    \A w \in Workers :
        /\ proc[w].status \in {"live", "dead"} <=>
              \/ slot.ready = w \/ w \in slot.retired
              \/ thread.made = w \/ w \in thread.old
              \/ w \in doomed \/ w \in taken
        /\ slot.ready = w => w \notin slot.retired /\ thread.made # w /\ w \notin thread.old
        /\ slot.ready = w \/ w \in slot.retired => w \notin doomed /\ w \notin taken
        /\ w \in slot.retired => thread.made # w /\ w \notin thread.old
        /\ thread.made = w => w \notin thread.old
        /\ thread.made = w \/ w \in thread.old => w \notin doomed /\ w \notin taken
        /\ ~(w \in doomed /\ w \in taken)

IInv ==
    /\ TypeOK /\ OwnedOnce /\ ReadyIsWanted
    /\ ThreadPlaces /\ EpochOrders /\ ServesWanted /\ StartedUnderKey /\ Fresh

----------------------------------------------------------------------------
\* None is told apart from everything else.
LEMMA NoneApart == None \notin Workers /\ None \notin Keys /\ None \notin Jobs /\ None \notin Sels
  BY NoneAssumption

\* A process has one owner when each of the six excludes the others.
LEMMA OwnerByOwner == TypeOK /\ OwnedOnce => OneOwner
  BY NoneApart DEF TypeOK, Slots, Threads, OwnedOnce, OneOwner, Owners, Held, InSlot

\* The thread before its first and after its last step.
LEMMA Records == Off \in Threads /\ [Off EXCEPT !.pc = "top"] \in Threads
  BY DEF Off, Threads

\* An empty pool satisfies the invariant.
LEMMA InitInv == Init => IInv
  BY BoundsAssumption, NoneApart DEF Init, IInv, TypeOK, Slots, Threads, Processes, OwnedOnce, ReadyIsWanted,
     ThreadPlaces, EpochOrders, ServesWanted, StartedUnderKey, Fresh, Off, Unborn

\* schedule: an answer at once, a new request, or one that cannot start its
\* thread, for a key of the wanted selection.
LEMMA ScheduleInv ==
  ASSUME IInv, NEW k \in Keys, ~slot.stopped, Schedule(k), UNCHANGED <<taken, settings>>,
         wanted' = k.sel
  PROVE  IInv'
<1> USE BoundsAssumption, NoneApart
<1>0. k.sel \in Sels BY DEF Keys
<1>1. ASSUME Covered(k), slot' = [slot EXCEPT !.target = k], UNCHANGED <<epoch, thread, proc, doomed>>
      PROVE  IInv'
  <2>1. TypeOK'
        BY <1>0, <1>1 DEF IInv, TypeOK, Slots, Threads, Processes,
           ThreadPlaces, EpochOrders, StartedUnderKey, Covered, Alive
  <2>2. OwnedOnce'
        BY <1>0, <1>1 DEF IInv, TypeOK, Slots, Threads, Processes, OwnedOnce,
           ThreadPlaces, Covered, Alive
  <2>3. ReadyIsWanted'
    <3>1. [key |-> k, gen |-> epoch] \in Jobs
          BY DEF IInv, TypeOK, EpochOrders, Jobs
    <3>2. slot.ready # None => proc[slot.ready].key = k
          BY <1>1, <3>1 DEF IInv, EpochOrders, ThreadPlaces, Covered
    <3>. QED BY <1>1, <3>2 DEF IInv, TypeOK, Slots, ReadyIsWanted
  <2>4. ThreadPlaces'
        BY <1>0, <1>1 DEF IInv, TypeOK, Slots, Threads, Processes,
           ThreadPlaces, EpochOrders, Covered, Alive
  <2>5. EpochOrders'
        BY <1>0, <1>1 DEF IInv, TypeOK, Slots, Threads, Processes,
           EpochOrders, ThreadPlaces, Jobs, Covered, Alive
  <2>6. ServesWanted'
        BY <1>0, <1>1 DEF IInv, TypeOK, Slots, Threads, Processes,
           ServesWanted, EpochOrders, ThreadPlaces, StartedUnderKey,
           ReadyIsWanted, Jobs, Covered, Alive
  <2>7. StartedUnderKey'
        BY <1>0, <1>1 DEF IInv, TypeOK, Slots, Threads, Processes,
           StartedUnderKey, ThreadPlaces, OwnedOnce, Covered, Alive
  <2>8. Fresh'
        BY <1>0, <1>1 DEF IInv, TypeOK, Slots, Threads, Processes, Fresh,
           EpochOrders, ThreadPlaces, OwnedOnce, Jobs, Covered, Alive
  <2>. QED BY <2>1, <2>2, <2>3, <2>4, <2>5, <2>6, <2>7, <2>8 DEF IInv
<1>2. ASSUME Enqueue(k)
      PROVE  IInv'
  <2>1. TypeOK'
    <3>0. [key |-> k, gen |-> epoch + 1] \in Jobs
          BY <1>2 DEF IInv, TypeOK, Enqueue, Jobs
    <3>1. slot' \in Slots
          BY <1>2, <3>0 DEF IInv, TypeOK, Enqueue, InSlot, Slots
    <3>2. thread' \in Threads
          BY <1>0, <1>2, Records DEF IInv, TypeOK, Enqueue, InSlot, Off,
             Threads
    <3>3. proc' \in [Workers -> Processes]
          BY <1>0, <1>2, Records DEF IInv, TypeOK, ThreadPlaces, Enqueue,
             InSlot, Off, Processes
    <3>. QED
          BY <1>0, <1>2, <3>1, <3>2, <3>3 DEF IInv, TypeOK, Slots,
             EpochOrders, Enqueue, InSlot, Off
  <2>2. OwnedOnce'
        BY <1>0, <1>2 DEF IInv, TypeOK, Slots, Threads, Processes, OwnedOnce,
           ThreadPlaces, Enqueue, InSlot, Off
  <2>3. ReadyIsWanted'
        BY <1>0, <1>2 DEF IInv, TypeOK, Slots, Threads, Processes,
           ReadyIsWanted, ThreadPlaces, EpochOrders, ServesWanted,
           StartedUnderKey, OwnedOnce, Enqueue, InSlot, Off
  <2>4. ThreadPlaces'
        BY <1>0, <1>2 DEF IInv, TypeOK, Slots, Threads, Processes,
           ThreadPlaces, EpochOrders, Enqueue, InSlot, Off
  <2>5. EpochOrders'
        BY <1>0, <1>2 DEF IInv, TypeOK, Slots, Threads, Processes,
           EpochOrders, ThreadPlaces, Jobs, Enqueue, InSlot, Off
  <2>6. ServesWanted'
        BY <1>0, <1>2 DEF IInv, TypeOK, Slots, Threads, Processes,
           ServesWanted, EpochOrders, ThreadPlaces, StartedUnderKey,
           ReadyIsWanted, Jobs, Enqueue, InSlot, Off
  <2>7. StartedUnderKey'
        BY <1>0, <1>2 DEF IInv, TypeOK, Slots, Threads, Processes,
           StartedUnderKey, ThreadPlaces, OwnedOnce, Enqueue, InSlot, Off
  <2>8. Fresh'
        BY <1>0, <1>2 DEF IInv, TypeOK, Slots, Threads, Processes, Fresh,
           EpochOrders, ThreadPlaces, OwnedOnce, Jobs, Enqueue, InSlot, Off
  <2>. QED BY <2>1, <2>2, <2>3, <2>4, <2>5, <2>6, <2>7, <2>8 DEF IInv
<1>3. ASSUME EnqueueFails(k)
      PROVE  IInv'
  <2>1. TypeOK'
    <3>1. slot' \in Slots
          BY <1>0, <1>3, Records DEF IInv, TypeOK, EnqueueFails, InSlot, Slots
    <3>2. thread' \in Threads
          BY <1>0, <1>3, Records DEF IInv, TypeOK, EnqueueFails, InSlot,
             Threads
    <3>3. proc' \in [Workers -> Processes]
          BY <1>0, <1>3, Records DEF IInv, TypeOK, ThreadPlaces, EnqueueFails,
             InSlot, Processes
    <3>. QED
          BY <1>0, <1>3, <3>1, <3>2, <3>3 DEF IInv, TypeOK, Slots,
             EpochOrders, EnqueueFails, InSlot
  <2>2. OwnedOnce'
        BY <1>0, <1>3 DEF IInv, TypeOK, Slots, Threads, Processes, OwnedOnce,
           ThreadPlaces, EnqueueFails, InSlot
  <2>3. ReadyIsWanted'
        BY <1>0, <1>3 DEF IInv, TypeOK, Slots, Threads, Processes,
           ReadyIsWanted, ThreadPlaces, EpochOrders, ServesWanted,
           StartedUnderKey, OwnedOnce, EnqueueFails, InSlot
  <2>4. ThreadPlaces'
        BY <1>0, <1>3 DEF IInv, TypeOK, Slots, Threads, Processes,
           ThreadPlaces, EpochOrders, EnqueueFails, InSlot
  <2>5. EpochOrders'
        BY <1>0, <1>3 DEF IInv, TypeOK, Slots, Threads, Processes,
           EpochOrders, ThreadPlaces, Jobs, EnqueueFails, InSlot
  <2>6. ServesWanted'
        BY <1>0, <1>3 DEF IInv, TypeOK, Slots, Threads, Processes,
           ServesWanted, EpochOrders, ThreadPlaces, StartedUnderKey,
           ReadyIsWanted, Jobs, EnqueueFails, InSlot
  <2>7. StartedUnderKey'
        BY <1>0, <1>3 DEF IInv, TypeOK, Slots, Threads, Processes,
           StartedUnderKey, ThreadPlaces, OwnedOnce, EnqueueFails, InSlot
  <2>8. Fresh'
        BY <1>0, <1>3 DEF IInv, TypeOK, Slots, Threads, Processes, Fresh,
           EpochOrders, ThreadPlaces, OwnedOnce, Jobs, EnqueueFails, InSlot
  <2>. QED BY <2>1, <2>2, <2>3, <2>4, <2>5, <2>6, <2>7, <2>8 DEF IInv
<1>. QED BY <1>1, <1>2, <1>3 DEF Schedule

\* Every step of the pool keeps the invariant.
LEMMA Invariance == IInv /\ [Next]_vars => IInv'
<1> SUFFICES ASSUME IInv, [Next]_vars PROVE IInv'
  OBVIOUS
<1> USE BoundsAssumption, NoneApart
<1>1. ASSUME NEW k \in Keys, Request(k) PROVE IInv'
  BY <1>1, ScheduleInv DEF Request
<1>2. ASSUME NEW k \in Keys, Refill(k) PROVE IInv'
  BY <1>2, ScheduleInv DEF Refill, IInv, ServesWanted
<1>3. ASSUME NEW k \in Keys, TakeDead(k) PROVE IInv'
  <2>1. TypeOK'
        BY <1>3 DEF IInv, TypeOK, Slots, Threads, Processes, ThreadPlaces,
           EpochOrders, StartedUnderKey, TakeDead, Alive
  <2>2. OwnedOnce'
        BY <1>3 DEF IInv, TypeOK, Slots, Threads, Processes, OwnedOnce,
           ThreadPlaces, TakeDead, Alive
  <2>3. ReadyIsWanted'
        BY <1>3 DEF IInv, TypeOK, Slots, Threads, Processes, ReadyIsWanted,
           ThreadPlaces, EpochOrders, ServesWanted, StartedUnderKey,
           OwnedOnce, TakeDead, Alive
  <2>4. ThreadPlaces'
        BY <1>3 DEF IInv, TypeOK, Slots, Threads, Processes, ThreadPlaces,
           EpochOrders, TakeDead, Alive
  <2>5. EpochOrders'
        BY <1>3 DEF IInv, TypeOK, Slots, Threads, Processes, EpochOrders,
           ThreadPlaces, Jobs, TakeDead, Alive
  <2>6. ServesWanted'
        BY <1>3 DEF IInv, TypeOK, Slots, Threads, Processes, ServesWanted,
           EpochOrders, ThreadPlaces, StartedUnderKey, ReadyIsWanted, Jobs,
           TakeDead, Alive
  <2>7. StartedUnderKey'
        BY <1>3 DEF IInv, TypeOK, Slots, Threads, Processes, StartedUnderKey,
           ThreadPlaces, OwnedOnce, TakeDead, Alive
  <2>8. Fresh'
        BY <1>3 DEF IInv, TypeOK, Slots, Threads, Processes, Fresh,
           EpochOrders, ThreadPlaces, OwnedOnce, Jobs, TakeDead, Alive
  <2>. QED BY <2>1, <2>2, <2>3, <2>4, <2>5, <2>6, <2>7, <2>8 DEF IInv
<1>4. ASSUME NEW k \in Keys, TakeRefused(k) PROVE IInv'
  <2>1. TypeOK'
        BY <1>4 DEF IInv, TypeOK, Slots, Threads, Processes, ThreadPlaces,
           EpochOrders, StartedUnderKey, TakeRefused, Alive
  <2>2. OwnedOnce'
        BY <1>4 DEF IInv, TypeOK, Slots, Threads, Processes, OwnedOnce,
           ThreadPlaces, TakeRefused, Alive
  <2>3. ReadyIsWanted'
        BY <1>4 DEF IInv, TypeOK, Slots, Threads, Processes, ReadyIsWanted,
           ThreadPlaces, EpochOrders, ServesWanted, StartedUnderKey,
           OwnedOnce, TakeRefused, Alive
  <2>4. ThreadPlaces'
        BY <1>4 DEF IInv, TypeOK, Slots, Threads, Processes, ThreadPlaces,
           EpochOrders, TakeRefused, Alive
  <2>5. EpochOrders'
        BY <1>4 DEF IInv, TypeOK, Slots, Threads, Processes, EpochOrders,
           ThreadPlaces, Jobs, TakeRefused, Alive
  <2>6. ServesWanted'
        BY <1>4 DEF IInv, TypeOK, Slots, Threads, Processes, ServesWanted,
           EpochOrders, ThreadPlaces, StartedUnderKey, ReadyIsWanted, Jobs,
           TakeRefused, Alive
  <2>7. StartedUnderKey'
        BY <1>4 DEF IInv, TypeOK, Slots, Threads, Processes, StartedUnderKey,
           ThreadPlaces, OwnedOnce, TakeRefused, Alive
  <2>8. Fresh'
        BY <1>4 DEF IInv, TypeOK, Slots, Threads, Processes, Fresh,
           EpochOrders, ThreadPlaces, OwnedOnce, Jobs, TakeRefused, Alive
  <2>. QED BY <2>1, <2>2, <2>3, <2>4, <2>5, <2>6, <2>7, <2>8 DEF IInv
<1>5. ASSUME NEW k \in Keys, Take(k) PROVE IInv'
  <2>1. TypeOK'
        BY <1>5 DEF IInv, TypeOK, Slots, Threads, Processes, ThreadPlaces,
           EpochOrders, StartedUnderKey, Take, Alive
  <2>2. OwnedOnce'
        BY <1>5 DEF IInv, TypeOK, Slots, Threads, Processes, OwnedOnce,
           ThreadPlaces, Take, Alive
  <2>3. ReadyIsWanted'
        BY <1>5 DEF IInv, TypeOK, Slots, Threads, Processes, ReadyIsWanted,
           ThreadPlaces, EpochOrders, ServesWanted, StartedUnderKey,
           OwnedOnce, Take, Alive
  <2>4. ThreadPlaces'
        BY <1>5 DEF IInv, TypeOK, Slots, Threads, Processes, ThreadPlaces,
           EpochOrders, Take, Alive
  <2>5. EpochOrders'
        BY <1>5 DEF IInv, TypeOK, Slots, Threads, Processes, EpochOrders,
           ThreadPlaces, Jobs, Take, Alive
  <2>6. ServesWanted'
        BY <1>5 DEF IInv, TypeOK, Slots, Threads, Processes, ServesWanted,
           EpochOrders, ThreadPlaces, StartedUnderKey, ReadyIsWanted, Jobs,
           Take, Alive
  <2>7. StartedUnderKey'
        BY <1>5 DEF IInv, TypeOK, Slots, Threads, Processes, StartedUnderKey,
           ThreadPlaces, OwnedOnce, Take, Alive
  <2>8. Fresh'
        BY <1>5 DEF IInv, TypeOK, Slots, Threads, Processes, Fresh,
           EpochOrders, ThreadPlaces, OwnedOnce, Jobs, Take, Alive
  <2>. QED BY <2>1, <2>2, <2>3, <2>4, <2>5, <2>6, <2>7, <2>8 DEF IInv
<1>6. ASSUME ChangeSettings PROVE IInv'
  <2>1. TypeOK'
        BY <1>6 DEF IInv, TypeOK, Slots, Threads, Processes, ThreadPlaces,
           EpochOrders, StartedUnderKey, ChangeSettings
  <2>2. OwnedOnce'
        BY <1>6 DEF IInv, TypeOK, Slots, Threads, Processes, OwnedOnce,
           ThreadPlaces, ChangeSettings
  <2>3. ReadyIsWanted'
        BY <1>6 DEF IInv, TypeOK, Slots, Threads, Processes, ReadyIsWanted,
           ThreadPlaces, EpochOrders, ServesWanted, StartedUnderKey,
           OwnedOnce, ChangeSettings
  <2>4. ThreadPlaces'
        BY <1>6 DEF IInv, TypeOK, Slots, Threads, Processes, ThreadPlaces,
           EpochOrders, ChangeSettings
  <2>5. EpochOrders'
        BY <1>6 DEF IInv, TypeOK, Slots, Threads, Processes, EpochOrders,
           ThreadPlaces, Jobs, ChangeSettings
  <2>6. ServesWanted'
        BY <1>6 DEF IInv, TypeOK, Slots, Threads, Processes, ServesWanted,
           EpochOrders, ThreadPlaces, StartedUnderKey, ReadyIsWanted, Jobs,
           ChangeSettings
  <2>7. StartedUnderKey'
        BY <1>6 DEF IInv, TypeOK, Slots, Threads, Processes, StartedUnderKey,
           ThreadPlaces, OwnedOnce, ChangeSettings
  <2>8. Fresh'
        BY <1>6 DEF IInv, TypeOK, Slots, Threads, Processes, Fresh,
           EpochOrders, ThreadPlaces, OwnedOnce, Jobs, ChangeSettings
  <2>. QED BY <2>1, <2>2, <2>3, <2>4, <2>5, <2>6, <2>7, <2>8 DEF IInv
<1>7. ASSUME Invalidate PROVE IInv'
  <2>1. TypeOK'
    <3>1. slot' \in Slots
          BY <1>7, Records DEF IInv, TypeOK, Invalidate, Clear, InSlot, Slots
    <3>2. thread' \in Threads
          BY <1>7, Records DEF IInv, TypeOK, Invalidate, Clear, InSlot,
             Threads
    <3>3. proc' \in [Workers -> Processes]
          BY <1>7, Records DEF IInv, TypeOK, ThreadPlaces, Invalidate, Clear,
             InSlot, Processes
    <3>. QED
          BY <1>7, <3>1, <3>2, <3>3 DEF IInv, TypeOK, Slots, EpochOrders,
             Invalidate, Clear, InSlot
  <2>2. OwnedOnce'
        BY <1>7 DEF IInv, TypeOK, Slots, Threads, Processes, OwnedOnce,
           ThreadPlaces, Invalidate, Clear, InSlot
  <2>3. ReadyIsWanted'
        BY <1>7 DEF IInv, TypeOK, Slots, Threads, Processes, ReadyIsWanted,
           ThreadPlaces, EpochOrders, ServesWanted, StartedUnderKey,
           OwnedOnce, Invalidate, Clear, InSlot
  <2>4. ThreadPlaces'
        BY <1>7 DEF IInv, TypeOK, Slots, Threads, Processes, ThreadPlaces,
           EpochOrders, Invalidate, Clear, InSlot
  <2>5. EpochOrders'
        BY <1>7 DEF IInv, TypeOK, Slots, Threads, Processes, EpochOrders,
           ThreadPlaces, Jobs, Invalidate, Clear, InSlot
  <2>6. ServesWanted'
        BY <1>7 DEF IInv, TypeOK, Slots, Threads, Processes, ServesWanted,
           EpochOrders, ThreadPlaces, StartedUnderKey, ReadyIsWanted, Jobs,
           Invalidate, Clear, InSlot
  <2>7. StartedUnderKey'
        BY <1>7 DEF IInv, TypeOK, Slots, Threads, Processes, StartedUnderKey,
           ThreadPlaces, OwnedOnce, Invalidate, Clear, InSlot
  <2>8. Fresh'
        BY <1>7 DEF IInv, TypeOK, Slots, Threads, Processes, Fresh,
           EpochOrders, ThreadPlaces, OwnedOnce, Jobs, Invalidate, Clear,
           InSlot
  <2>. QED BY <2>1, <2>2, <2>3, <2>4, <2>5, <2>6, <2>7, <2>8 DEF IInv
<1>8. ASSUME Shutdown PROVE IInv'
  <2>1. TypeOK'
    <3>1. slot' \in Slots
          BY <1>8, Records DEF IInv, TypeOK, Shutdown, Clear, InSlot, Slots
    <3>2. thread' \in Threads
          BY <1>8, Records DEF IInv, TypeOK, Shutdown, Clear, InSlot, Threads
    <3>3. proc' \in [Workers -> Processes]
          BY <1>8, Records DEF IInv, TypeOK, ThreadPlaces, Shutdown, Clear,
             InSlot, Processes
    <3>. QED
          BY <1>8, <3>1, <3>2, <3>3 DEF IInv, TypeOK, Slots, EpochOrders,
             Shutdown, Clear, InSlot
  <2>2. OwnedOnce'
        BY <1>8 DEF IInv, TypeOK, Slots, Threads, Processes, OwnedOnce,
           ThreadPlaces, Shutdown, Clear, InSlot
  <2>3. ReadyIsWanted'
        BY <1>8 DEF IInv, TypeOK, Slots, Threads, Processes, ReadyIsWanted,
           ThreadPlaces, EpochOrders, ServesWanted, StartedUnderKey,
           OwnedOnce, Shutdown, Clear, InSlot
  <2>4. ThreadPlaces'
        BY <1>8 DEF IInv, TypeOK, Slots, Threads, Processes, ThreadPlaces,
           EpochOrders, Shutdown, Clear, InSlot
  <2>5. EpochOrders'
    <3>1. (slot.stopped \/ TRUE) = TRUE OBVIOUS
    <3>2. slot' = [slot EXCEPT !.stopped = TRUE, !.target = None, !.pending = None,
                               !.retired = {}, !.ready = None]
          BY <1>8, <3>1, Zenon DEF Shutdown, Clear
    <3>3. slot'.stopped = TRUE /\ slot'.pending = None /\ slot'.ready = None
          BY <3>2 DEF IInv, TypeOK, Slots
    <3>4. thread.job # None => thread.job.gen \in Nat
          BY DEF IInv, TypeOK, Threads, Jobs
    <3>. QED BY <1>8, <3>3, <3>4 DEF IInv, TypeOK, EpochOrders, Shutdown, Clear
  <2>6. ServesWanted'
        BY <1>8 DEF IInv, TypeOK, Slots, Threads, Processes, ServesWanted,
           EpochOrders, ThreadPlaces, StartedUnderKey, ReadyIsWanted, Jobs,
           Shutdown, Clear, InSlot
  <2>7. StartedUnderKey'
        BY <1>8 DEF IInv, TypeOK, Slots, Threads, Processes, StartedUnderKey,
           ThreadPlaces, OwnedOnce, Shutdown, Clear, InSlot
  <2>8. Fresh'
        BY <1>8 DEF IInv, TypeOK, Slots, Threads, Processes, Fresh,
           EpochOrders, ThreadPlaces, OwnedOnce, Jobs, Shutdown, Clear, InSlot
  <2>. QED BY <2>1, <2>2, <2>3, <2>4, <2>5, <2>6, <2>7, <2>8 DEF IInv
<1>9. ASSUME NEW v \in Workers, RetireDoomed(v) PROVE IInv'
  <2>1. TypeOK'
        BY <1>9 DEF IInv, TypeOK, Slots, Threads, Processes, ThreadPlaces,
           EpochOrders, StartedUnderKey, RetireDoomed, Retire
  <2>2. OwnedOnce'
        BY <1>9 DEF IInv, TypeOK, Slots, Threads, Processes, OwnedOnce,
           ThreadPlaces, RetireDoomed, Retire
  <2>3. ReadyIsWanted'
        BY <1>9 DEF IInv, TypeOK, Slots, Threads, Processes, ReadyIsWanted,
           ThreadPlaces, EpochOrders, ServesWanted, StartedUnderKey,
           OwnedOnce, RetireDoomed, Retire
  <2>4. ThreadPlaces'
        BY <1>9 DEF IInv, TypeOK, Slots, Threads, Processes, ThreadPlaces,
           EpochOrders, RetireDoomed, Retire
  <2>5. EpochOrders'
        BY <1>9 DEF IInv, TypeOK, Slots, Threads, Processes, EpochOrders,
           ThreadPlaces, Jobs, RetireDoomed, Retire
  <2>6. ServesWanted'
        BY <1>9 DEF IInv, TypeOK, Slots, Threads, Processes, ServesWanted,
           EpochOrders, ThreadPlaces, StartedUnderKey, ReadyIsWanted, Jobs,
           RetireDoomed, Retire
  <2>7. StartedUnderKey'
        BY <1>9 DEF IInv, TypeOK, Slots, Threads, Processes, StartedUnderKey,
           ThreadPlaces, OwnedOnce, RetireDoomed, Retire
  <2>8. Fresh'
        BY <1>9 DEF IInv, TypeOK, Slots, Threads, Processes, Fresh,
           EpochOrders, ThreadPlaces, OwnedOnce, Jobs, RetireDoomed, Retire
  <2>. QED BY <2>1, <2>2, <2>3, <2>4, <2>5, <2>6, <2>7, <2>8 DEF IInv
<1>10. ASSUME NEW v \in Workers, Dies(v) PROVE IInv'
  <2>1. TypeOK'
        BY <1>10 DEF IInv, TypeOK, Slots, Threads, Processes, ThreadPlaces,
           EpochOrders, StartedUnderKey, Dies, Alive
  <2>2. OwnedOnce'
        BY <1>10 DEF IInv, TypeOK, Slots, Threads, Processes, OwnedOnce,
           ThreadPlaces, Dies, Alive
  <2>3. ReadyIsWanted'
        BY <1>10 DEF IInv, TypeOK, Slots, Threads, Processes, ReadyIsWanted,
           ThreadPlaces, EpochOrders, ServesWanted, StartedUnderKey,
           OwnedOnce, Dies, Alive
  <2>4. ThreadPlaces'
        BY <1>10 DEF IInv, TypeOK, Slots, Threads, Processes, ThreadPlaces,
           EpochOrders, Dies, Alive
  <2>5. EpochOrders'
        BY <1>10 DEF IInv, TypeOK, Slots, Threads, Processes, EpochOrders,
           ThreadPlaces, Jobs, Dies, Alive
  <2>6. ServesWanted'
        BY <1>10 DEF IInv, TypeOK, Slots, Threads, Processes, ServesWanted,
           EpochOrders, ThreadPlaces, StartedUnderKey, ReadyIsWanted, Jobs,
           Dies, Alive
  <2>7. StartedUnderKey'
        BY <1>10 DEF IInv, TypeOK, Slots, Threads, Processes, StartedUnderKey,
           ThreadPlaces, OwnedOnce, Dies, Alive
  <2>8. Fresh'
        BY <1>10 DEF IInv, TypeOK, Slots, Threads, Processes, Fresh,
           EpochOrders, ThreadPlaces, OwnedOnce, Jobs, Dies, Alive
  <2>. QED BY <2>1, <2>2, <2>3, <2>4, <2>5, <2>6, <2>7, <2>8 DEF IInv
<1>11. ASSUME Top PROVE IInv'
  <2>1. TypeOK'
        BY <1>11 DEF IInv, TypeOK, Slots, Threads, Processes, ThreadPlaces,
           EpochOrders, StartedUnderKey, Top
  <2>2. OwnedOnce'
        BY <1>11 DEF IInv, TypeOK, Slots, Threads, Processes, OwnedOnce,
           ThreadPlaces, Top
  <2>3. ReadyIsWanted'
        BY <1>11 DEF IInv, TypeOK, Slots, Threads, Processes, ReadyIsWanted,
           ThreadPlaces, EpochOrders, ServesWanted, StartedUnderKey,
           OwnedOnce, Top
  <2>4. ThreadPlaces'
        BY <1>11 DEF IInv, TypeOK, Slots, Threads, Processes, ThreadPlaces,
           EpochOrders, Top
  <2>5. EpochOrders'
        BY <1>11 DEF IInv, TypeOK, Slots, Threads, Processes, EpochOrders,
           ThreadPlaces, Jobs, Top
  <2>6. ServesWanted'
        BY <1>11 DEF IInv, TypeOK, Slots, Threads, Processes, ServesWanted,
           EpochOrders, ThreadPlaces, StartedUnderKey, ReadyIsWanted, Jobs,
           Top
  <2>7. StartedUnderKey'
        BY <1>11 DEF IInv, TypeOK, Slots, Threads, Processes, StartedUnderKey,
           ThreadPlaces, OwnedOnce, Top
  <2>8. Fresh'
        BY <1>11 DEF IInv, TypeOK, Slots, Threads, Processes, Fresh,
           EpochOrders, ThreadPlaces, OwnedOnce, Jobs, Top
  <2>. QED BY <2>1, <2>2, <2>3, <2>4, <2>5, <2>6, <2>7, <2>8 DEF IInv
<1>12. ASSUME RetireOld PROVE IInv'
  <2>1. TypeOK'
    <3>1. slot' \in Slots
          BY <1>12, Records DEF IInv, TypeOK, RetireOld, Retire, Slots
    <3>2. thread' \in Threads
          BY <1>12, Records DEF IInv, TypeOK, RetireOld, Retire, Threads
    <3>3. proc' \in [Workers -> Processes]
          BY <1>12, Records DEF IInv, TypeOK, ThreadPlaces, RetireOld, Retire,
             Processes
    <3>. QED
          BY <1>12, <3>1, <3>2, <3>3 DEF IInv, TypeOK, Slots, EpochOrders,
             RetireOld, Retire
  <2>2. OwnedOnce'
        BY <1>12 DEF IInv, TypeOK, Slots, Threads, Processes, OwnedOnce,
           ThreadPlaces, RetireOld, Retire
  <2>3. ReadyIsWanted'
        BY <1>12 DEF IInv, TypeOK, Slots, Threads, Processes, ReadyIsWanted,
           ThreadPlaces, EpochOrders, ServesWanted, StartedUnderKey,
           OwnedOnce, RetireOld, Retire
  <2>4. ThreadPlaces'
        BY <1>12 DEF IInv, TypeOK, Slots, Threads, Processes, ThreadPlaces,
           EpochOrders, RetireOld, Retire
  <2>5. EpochOrders'
        BY <1>12 DEF IInv, TypeOK, Slots, Threads, Processes, EpochOrders,
           ThreadPlaces, Jobs, RetireOld, Retire
  <2>6. ServesWanted'
        BY <1>12 DEF IInv, TypeOK, Slots, Threads, Processes, ServesWanted,
           EpochOrders, ThreadPlaces, StartedUnderKey, ReadyIsWanted, Jobs,
           RetireOld, Retire
  <2>7. StartedUnderKey'
        BY <1>12 DEF IInv, TypeOK, Slots, Threads, Processes, StartedUnderKey,
           ThreadPlaces, OwnedOnce, RetireOld, Retire
  <2>8. Fresh'
        BY <1>12 DEF IInv, TypeOK, Slots, Threads, Processes, Fresh,
           EpochOrders, ThreadPlaces, OwnedOnce, Jobs, RetireOld, Retire
  <2>. QED BY <2>1, <2>2, <2>3, <2>4, <2>5, <2>6, <2>7, <2>8 DEF IInv
<1>13. ASSUME Exit PROVE IInv'
  <2>1. TypeOK'
    <3>1. slot' \in Slots BY <1>13, Records DEF IInv, TypeOK, Exit, Off, Slots
    <3>2. thread' \in Threads
          BY <1>13, Records DEF IInv, TypeOK, Exit, Off, Threads
    <3>3. proc' \in [Workers -> Processes]
          BY <1>13, Records DEF IInv, TypeOK, ThreadPlaces, Exit, Off,
             Processes
    <3>. QED
          BY <1>13, <3>1, <3>2, <3>3 DEF IInv, TypeOK, Slots, EpochOrders,
             Exit, Off
  <2>2. OwnedOnce'
        BY <1>13 DEF IInv, TypeOK, Slots, Threads, Processes, OwnedOnce,
           ThreadPlaces, Exit, Off
  <2>3. ReadyIsWanted'
        BY <1>13 DEF IInv, TypeOK, Slots, Threads, Processes, ReadyIsWanted,
           ThreadPlaces, EpochOrders, ServesWanted, StartedUnderKey,
           OwnedOnce, Exit, Off
  <2>4. ThreadPlaces'
        BY <1>13 DEF IInv, TypeOK, Slots, Threads, Processes, ThreadPlaces,
           EpochOrders, Exit, Off
  <2>5. EpochOrders'
        BY <1>13 DEF IInv, TypeOK, Slots, Threads, Processes, EpochOrders,
           ThreadPlaces, Jobs, Exit, Off
  <2>6. ServesWanted'
        BY <1>13 DEF IInv, TypeOK, Slots, Threads, Processes, ServesWanted,
           EpochOrders, ThreadPlaces, StartedUnderKey, ReadyIsWanted, Jobs,
           Exit, Off
  <2>7. StartedUnderKey'
        BY <1>13 DEF IInv, TypeOK, Slots, Threads, Processes, StartedUnderKey,
           ThreadPlaces, OwnedOnce, Exit, Off
  <2>8. Fresh'
        BY <1>13 DEF IInv, TypeOK, Slots, Threads, Processes, Fresh,
           EpochOrders, ThreadPlaces, OwnedOnce, Jobs, Exit, Off
  <2>. QED BY <2>1, <2>2, <2>3, <2>4, <2>5, <2>6, <2>7, <2>8 DEF IInv
<1>14. ASSUME Start PROVE IInv'
  <2>1. TypeOK'
    <3>1. slot' \in Slots
          BY <1>14, Records DEF IInv, TypeOK, Start, Cancelled, Slots
    <3>2. thread' \in Threads
          BY <1>14, Records DEF IInv, TypeOK, Start, Cancelled, Threads
    <3>0. thread.job.key \in Keys
          BY <1>14 DEF IInv, TypeOK, Threads, ThreadPlaces, Start, Jobs
    <3>3. proc' \in [Workers -> Processes]
          BY <1>14, <3>0 DEF IInv, TypeOK, Start, Processes
    <3>. QED
          BY <1>14, <3>1, <3>2, <3>3 DEF IInv, TypeOK, Slots, EpochOrders,
             Start, Cancelled
  <2>2. OwnedOnce'
        BY <1>14 DEF IInv, TypeOK, Slots, Threads, Processes, OwnedOnce,
           ThreadPlaces, Start, Cancelled
  <2>3. ReadyIsWanted'
        BY <1>14 DEF IInv, TypeOK, Slots, Threads, Processes, ReadyIsWanted,
           ThreadPlaces, EpochOrders, ServesWanted, StartedUnderKey,
           OwnedOnce, Start, Cancelled
  <2>4. ThreadPlaces'
        BY <1>14 DEF IInv, TypeOK, Slots, Threads, Processes, ThreadPlaces,
           EpochOrders, Start, Cancelled
  <2>5. EpochOrders'
        BY <1>14 DEF IInv, TypeOK, Slots, Threads, Processes, EpochOrders,
           ThreadPlaces, Jobs, Start, Cancelled
  <2>6. ServesWanted'
        BY <1>14 DEF IInv, TypeOK, Slots, Threads, Processes, ServesWanted,
           EpochOrders, ThreadPlaces, StartedUnderKey, ReadyIsWanted, Jobs,
           Start, Cancelled
  <2>7. StartedUnderKey'
        BY <1>14 DEF IInv, TypeOK, Slots, Threads, Processes, StartedUnderKey,
           ThreadPlaces, OwnedOnce, Start, Cancelled, Jobs
  <2>8. Fresh'
        BY <1>14 DEF IInv, TypeOK, Slots, Threads, Processes, Fresh,
           EpochOrders, ThreadPlaces, OwnedOnce, Jobs, Start, Cancelled
  <2>. QED BY <2>1, <2>2, <2>3, <2>4, <2>5, <2>6, <2>7, <2>8 DEF IInv
<1>15. ASSUME StartFails PROVE IInv'
  <2>1. TypeOK'
        BY <1>15 DEF IInv, TypeOK, Slots, Threads, Processes, ThreadPlaces,
           EpochOrders, StartedUnderKey, StartFails
  <2>2. OwnedOnce'
        BY <1>15 DEF IInv, TypeOK, Slots, Threads, Processes, OwnedOnce,
           ThreadPlaces, StartFails
  <2>3. ReadyIsWanted'
        BY <1>15 DEF IInv, TypeOK, Slots, Threads, Processes, ReadyIsWanted,
           ThreadPlaces, EpochOrders, ServesWanted, StartedUnderKey,
           OwnedOnce, StartFails
  <2>4. ThreadPlaces'
        BY <1>15 DEF IInv, TypeOK, Slots, Threads, Processes, ThreadPlaces,
           EpochOrders, StartFails
  <2>5. EpochOrders'
        BY <1>15 DEF IInv, TypeOK, Slots, Threads, Processes, EpochOrders,
           ThreadPlaces, Jobs, StartFails
  <2>6. ServesWanted'
        BY <1>15 DEF IInv, TypeOK, Slots, Threads, Processes, ServesWanted,
           EpochOrders, ThreadPlaces, StartedUnderKey, ReadyIsWanted, Jobs,
           StartFails
  <2>7. StartedUnderKey'
        BY <1>15 DEF IInv, TypeOK, Slots, Threads, Processes, StartedUnderKey,
           ThreadPlaces, OwnedOnce, StartFails
  <2>8. Fresh'
        BY <1>15 DEF IInv, TypeOK, Slots, Threads, Processes, Fresh,
           EpochOrders, ThreadPlaces, OwnedOnce, Jobs, StartFails
  <2>. QED BY <2>1, <2>2, <2>3, <2>4, <2>5, <2>6, <2>7, <2>8 DEF IInv
<1>16. ASSUME Probe PROVE IInv'
  <2>1. TypeOK'
        BY <1>16 DEF IInv, TypeOK, Slots, Threads, Processes, ThreadPlaces,
           EpochOrders, StartedUnderKey, Probe, Cancelled, Alive, Keys
  <2>2. OwnedOnce'
        BY <1>16 DEF IInv, TypeOK, Slots, Threads, Processes, OwnedOnce,
           ThreadPlaces, Probe, Cancelled, Alive
  <2>3. ReadyIsWanted'
        BY <1>16 DEF IInv, TypeOK, Slots, Threads, Processes, ReadyIsWanted,
           ThreadPlaces, EpochOrders, ServesWanted, StartedUnderKey,
           OwnedOnce, Probe, Cancelled, Alive
  <2>4. ThreadPlaces'
        BY <1>16 DEF IInv, TypeOK, Slots, Threads, Processes, ThreadPlaces,
           EpochOrders, Probe, Cancelled, Alive
  <2>5. EpochOrders'
        BY <1>16 DEF IInv, TypeOK, Slots, Threads, Processes, EpochOrders,
           ThreadPlaces, Jobs, Probe, Cancelled, Alive
  <2>6. ServesWanted'
        BY <1>16 DEF IInv, TypeOK, Slots, Threads, Processes, ServesWanted,
           EpochOrders, ThreadPlaces, StartedUnderKey, ReadyIsWanted, Jobs,
           Probe, Cancelled, Alive
  <2>7. StartedUnderKey'
        BY <1>16 DEF IInv, TypeOK, Slots, Threads, Processes, StartedUnderKey,
           ThreadPlaces, OwnedOnce, Probe, Cancelled, Alive, Keys
  <2>8. Fresh'
        BY <1>16 DEF IInv, TypeOK, Slots, Threads, Processes, Fresh,
           EpochOrders, ThreadPlaces, OwnedOnce, Jobs, Probe, Cancelled, Alive
  <2>. QED BY <2>1, <2>2, <2>3, <2>4, <2>5, <2>6, <2>7, <2>8 DEF IInv
<1>17. ASSUME ProbeFails PROVE IInv'
  <2>1. TypeOK'
    <3>1. slot' \in Slots
          BY <1>17, Records DEF IInv, TypeOK, ProbeFails, Retire, Slots
    <3>2. thread' \in Threads
          BY <1>17, Records DEF IInv, TypeOK, ProbeFails, Retire, Threads
    <3>3. proc' \in [Workers -> Processes]
          BY <1>17, Records DEF IInv, TypeOK, ThreadPlaces, ProbeFails,
             Retire, Processes
    <3>. QED
          BY <1>17, <3>1, <3>2, <3>3 DEF IInv, TypeOK, Slots, EpochOrders,
             ProbeFails, Retire
  <2>2. OwnedOnce'
        BY <1>17 DEF IInv, TypeOK, Slots, Threads, Processes, OwnedOnce,
           ThreadPlaces, ProbeFails, Retire
  <2>3. ReadyIsWanted'
        BY <1>17 DEF IInv, TypeOK, Slots, Threads, Processes, ReadyIsWanted,
           ThreadPlaces, EpochOrders, ServesWanted, StartedUnderKey,
           OwnedOnce, ProbeFails, Retire
  <2>4. ThreadPlaces'
        BY <1>17 DEF IInv, TypeOK, Slots, Threads, Processes, ThreadPlaces,
           EpochOrders, ProbeFails, Retire
  <2>5. EpochOrders'
        BY <1>17 DEF IInv, TypeOK, Slots, Threads, Processes, EpochOrders,
           ThreadPlaces, Jobs, ProbeFails, Retire
  <2>6. ServesWanted'
        BY <1>17 DEF IInv, TypeOK, Slots, Threads, Processes, ServesWanted,
           EpochOrders, ThreadPlaces, StartedUnderKey, ReadyIsWanted, Jobs,
           ProbeFails, Retire
  <2>7. StartedUnderKey'
        BY <1>17 DEF IInv, TypeOK, Slots, Threads, Processes, StartedUnderKey,
           ThreadPlaces, OwnedOnce, ProbeFails, Retire
  <2>8. Fresh'
        BY <1>17 DEF IInv, TypeOK, Slots, Threads, Processes, Fresh,
           EpochOrders, ThreadPlaces, OwnedOnce, Jobs, ProbeFails, Retire
  <2>. QED BY <2>1, <2>2, <2>3, <2>4, <2>5, <2>6, <2>7, <2>8 DEF IInv
<1>18. ASSUME Place PROVE IInv'
  <2>0. CASE ~(thread.made # None /\ ~Cancelled /\ ~slot.stopped)
    <3>0. /\ slot' = [slot EXCEPT !.preparing = None]
          /\ thread' = [thread EXCEPT !.pc = "discard"]
          /\ UNCHANGED <<epoch, proc, doomed, taken, settings, wanted>>
          BY <1>18, <2>0 DEF Place
    <3>1. TypeOK'
          BY <1>18, <3>0 DEF IInv, TypeOK, Slots, Threads, Processes, Place
    <3>2. OwnedOnce'
          BY <1>18, <3>0 DEF IInv, TypeOK, Slots, Threads, OwnedOnce
    <3>3. ReadyIsWanted' BY <1>18, <3>0 DEF IInv, TypeOK, Slots, ReadyIsWanted
    <3>4. ThreadPlaces'
          BY <1>18, <3>0 DEF IInv, TypeOK, Slots, Threads, ThreadPlaces, Place
    <3>5. EpochOrders'
          BY <1>18, <3>0 DEF IInv, TypeOK, Slots, Threads, EpochOrders
    <3>6. ServesWanted'
          BY <1>18, <3>0 DEF IInv, TypeOK, Slots, Threads, ServesWanted
    <3>7. StartedUnderKey'
          BY <1>18, <3>0 DEF IInv, TypeOK, Slots, Threads, StartedUnderKey
    <3>8. Fresh' BY <1>18, <3>0 DEF IInv, TypeOK, Slots, Threads, Fresh
    <3>. QED BY <3>1, <3>2, <3>3, <3>4, <3>5, <3>6, <3>7, <3>8 DEF IInv
  <2>1. CASE thread.made # None /\ ~Cancelled /\ ~slot.stopped
    <3>0. /\ slot' = [slot EXCEPT !.ready = thread.made, !.preparing = None,
                                 !.target = proc[thread.made].key]
          /\ thread' = [Off EXCEPT !.pc = "top"]
          /\ UNCHANGED <<epoch, proc, doomed, taken, settings, wanted>>
          BY <1>18, <2>1 DEF Place
    <3>a. /\ thread.made \in Workers /\ thread.job # None
          /\ thread.job.gen = epoch /\ slot.pending = None
          /\ slot.ready = None /\ thread.old = {}
          BY <1>18, <2>1 DEF IInv, TypeOK, Threads, Slots, Jobs, ThreadPlaces, EpochOrders,
                             Place, Cancelled
    <3>b. /\ proc[thread.made].key \in Keys
          /\ proc[thread.made].key.sel = wanted
          BY <3>a DEF IInv, TypeOK, Processes, OwnedOnce, StartedUnderKey, ServesWanted
    <3>1. TypeOK'
          BY <3>0, <3>a, <3>b, Records DEF IInv, TypeOK, Slots, Threads,
             Processes, Off
    <3>2. OwnedOnce'
          BY <3>0, <3>a, <3>b, Records DEF IInv, TypeOK, Slots, Threads,
             OwnedOnce, Off
    <3>3. ReadyIsWanted'
          BY <3>0, <3>a, <3>b, Records DEF IInv, TypeOK, Slots, ReadyIsWanted
    <3>4. ThreadPlaces'
          BY <3>0, <3>a, <3>b, Records DEF IInv, TypeOK, Slots, Threads,
             ThreadPlaces, Place, Off
    <3>5. EpochOrders'
          BY <3>0, <3>a, <3>b, Records DEF IInv, TypeOK, Slots, Threads,
             EpochOrders, Off
    <3>6. ServesWanted'
          BY <3>0, <3>a, <3>b, Records DEF IInv, TypeOK, Slots, Threads,
             ServesWanted, Off
    <3>7. StartedUnderKey'
          BY <3>0, <3>a, <3>b, Records DEF IInv, TypeOK, Slots, Threads,
             StartedUnderKey, Off
    <3>8. Fresh'
          BY <3>0, <3>a, <3>b, Records DEF IInv, TypeOK, Slots, Threads,
             Fresh, Off
    <3>. QED BY <3>1, <3>2, <3>3, <3>4, <3>5, <3>6, <3>7, <3>8 DEF IInv
  <2>. QED BY <2>0, <2>1
<1>19. ASSUME Discard PROVE IInv'
  <2>1. TypeOK'
    <3>1. slot' \in Slots
          BY <1>19, Records DEF IInv, TypeOK, Discard, Retire, Off, Slots
    <3>2. thread' \in Threads
          BY <1>19, Records DEF IInv, TypeOK, Discard, Retire, Off, Threads
    <3>3. proc' \in [Workers -> Processes]
          BY <1>19, Records DEF IInv, TypeOK, ThreadPlaces, Discard, Retire,
             Off, Processes
    <3>. QED
          BY <1>19, <3>1, <3>2, <3>3 DEF IInv, TypeOK, Slots, EpochOrders,
             Discard, Retire, Off
  <2>2. OwnedOnce'
        BY <1>19 DEF IInv, TypeOK, Slots, Threads, Processes, OwnedOnce,
           ThreadPlaces, Discard, Retire, Off
  <2>3. ReadyIsWanted'
        BY <1>19 DEF IInv, TypeOK, Slots, Threads, Processes, ReadyIsWanted,
           ThreadPlaces, EpochOrders, ServesWanted, StartedUnderKey,
           OwnedOnce, Discard, Retire, Off
  <2>4. ThreadPlaces'
        BY <1>19 DEF IInv, TypeOK, Slots, Threads, Processes, ThreadPlaces,
           EpochOrders, Discard, Retire, Off
  <2>5. EpochOrders'
        BY <1>19 DEF IInv, TypeOK, Slots, Threads, Processes, EpochOrders,
           ThreadPlaces, Jobs, Discard, Retire, Off
  <2>6. ServesWanted'
        BY <1>19 DEF IInv, TypeOK, Slots, Threads, Processes, ServesWanted,
           EpochOrders, ThreadPlaces, StartedUnderKey, ReadyIsWanted, Jobs,
           Discard, Retire, Off
  <2>7. StartedUnderKey'
        BY <1>19 DEF IInv, TypeOK, Slots, Threads, Processes, StartedUnderKey,
           ThreadPlaces, OwnedOnce, Discard, Retire, Off
  <2>8. Fresh'
        BY <1>19 DEF IInv, TypeOK, Slots, Threads, Processes, Fresh,
           EpochOrders, ThreadPlaces, OwnedOnce, Jobs, Discard, Retire, Off
  <2>. QED BY <2>1, <2>2, <2>3, <2>4, <2>5, <2>6, <2>7, <2>8 DEF IInv
<1>20. CASE UNCHANGED vars
  BY <1>20 DEF vars, IInv, TypeOK, OwnedOnce, ReadyIsWanted, ThreadPlaces, EpochOrders,
     ServesWanted, StartedUnderKey, Fresh
<1>. QED
  BY <1>1, <1>2, <1>3, <1>4, <1>5, <1>6, <1>7, <1>8, <1>9, <1>10, <1>11,
     <1>12, <1>13, <1>14, <1>15, <1>16, <1>17, <1>18, <1>19, <1>20 DEF Next,
     Prepare

\* The mutex and the epoch are enough: whatever the order of requests,
\* refills, invalidations, takes and preparations, every process has one
\* owner and the ready one is the one last asked for.
THEOREM PoolIsSafe == Spec => []PoolSafe
<1>1. IInv => PoolSafe BY OwnerByOwner DEF IInv, PoolSafe
<1>. QED BY <1>1, InitInv, Invariance, PTL DEF Spec

\* No execution gets a process that was started before a change of login or
\* extensions whose invalidation is over.
THEOREM TakenIsFresh == Spec => TakesFresh
<1>1. IInv /\ [Next]_vars => [\A w \in taken' \ taken : proc[w].basis >= settings.applied]_vars
  BY DEF IInv, Fresh, Next, Request, Refill, TakeDead, TakeRefused, Take, ChangeSettings,
     Invalidate, Shutdown, Clear, RetireDoomed, Dies, Prepare, Top, RetireOld, Exit, Start,
     StartFails, Probe, ProbeFails, Place, Discard, vars
<1>. QED BY <1>1, InitInv, Invariance, PTL DEF Spec, TakesFresh
============================================================================
