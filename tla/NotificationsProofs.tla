------------------------- MODULE NotificationsProofs -------------------------
(***************************************************************************)
(* The trails of the writes, the pushes and the pages of Notifications, for *)
(* every set of requests, operations within the catalogue, events,         *)
(* subscriptions, workers and users.                                       *)
(***************************************************************************)
EXTENDS Notifications, SumTheorems

-----------------------------------------------------------------------------
(* The trails: what is left to a request, and what follows its writes.     *)

Announces(s) == s.does \in {"audit", "emit"}

\* Two steps of one item of one request, and of one row of it.
Beside(s, t) == s.item = t.item
OfOneRow(s, t) == Beside(s, t) /\ s.of = t.of

\* The steps left are those of the catalogue: one row after the other, each
\* committed once and first; an archive undoes an item and stands alone.
Shaped(op, steps) ==
  /\ \A s \in steps :
       /\ s.item \in Nat /\ s.n \in Nat /\ s.does \in Kinds
       /\ SoundUndo(op, s.undo)
       /\ s.of = "archive" => DOMAIN s.undo = {} /\ ~op.keyed
       /\ op.style = "one" \/ s.of \in {"row", "archive"} \/ Archives(s.undo)
       /\ IsCommit(s) => s.of # "read"
  /\ \A s, t \in steps : Beside(s, t) =>
       /\ s.n = t.n => s = t
       /\ IsCommit(s) /\ IsCommit(t) /\ s.of = t.of => s = t
       /\ op.style = "bulk" => s.of = t.of
       /\ s.of = "archive" => t.of = "archive"
       /\ s.n < t.n /\ s.of # t.of =>
            \E d \in steps : IsCommit(d) /\ OfOneRow(d, t) /\ s.n < d.n /\ d.n <= t.n

\* A request with steps left runs, and does something of the catalogue.
RequestsRun ==
  /\ DOMAIN job = Requests /\ DOMAIN todo = Requests /\ DOMAIN tries = Requests
  /\ DOMAIN answer = Requests /\ DOMAIN failed = Requests
  /\ \A r \in Requests :
       /\ tries[r] \in Nat
       /\ job[r] # NoJob => job[r].op \in Operations /\ job[r].items \in Nat
       /\ todo[r] # {} => Running(r) /\ job[r] # NoJob /\ Shaped(job[r].op, todo[r])

\* Writes are of tries that were made, what is owed is to follow one of them,
\* and the log holds what is owed or tells of a read.
WritesAreTried ==
  /\ \A w \in writes :
       /\ w.by \in Requests /\ w.try \in Nat /\ w.try <= tries[w.by]
       /\ w.try = tries[w.by] => w = WriteOf(w.by, w)
  /\ \A e \in owed : e[1] \in writes
  /\ \A e \in log : e[1].by \in Requests /\ e[1].try \in Nat /\ e[1].try <= tries[e[1].by]

\* What a request has still to commit is not written, and an archive is not
\* written while other steps of its item are left.
CommitsAreLeft == \A r \in Requests : \A s \in todo[r] :
  /\ IsCommit(s) => WriteOf(r, s) \notin writes
  /\ s.of # "archive" => \A w \in Behind(r) : w.item = s.item => w.of # "archive"

\* What is left to announce is not in the log, and is owed already or follows a
\* commit that is left.
AnnouncementsAreLeft == \A r \in Requests : \A u \in todo[r] : Announces(u) =>
  /\ Entry(r, u) \notin log
  /\ u.of = "read" \/ Entry(r, u) \in owed
       \/ \E c \in todo[r] : IsCommit(c) /\ OfOneRow(c, u) /\ c.n < u.n

\* Once owed, an announcement waits for no commit of its item, and for no
\* earlier item unless all of them are stored first.
OwedIsNext == \A r \in Requests : \A u \in todo[r] : Entry(r, u) \in owed =>
  /\ Announces(u)
  /\ \A c \in todo[r] : IsCommit(c) /\ Beside(c, u) => u.n < c.n /\ job[r].op.style # "bulk"
  /\ job[r].op.style # "bulk" => \A s \in todo[r] : u.item <= s.item

\* Failed items are archived, or broke off after the write.
FailedItemsAreUndone == \A r \in Requests : answer[r] \in {"none", "ok"} =>
  /\ \A s \in todo[r] : s.item \in failed[r] => s.of = "archive"
  /\ \A w \in Behind(r) : w.item \in failed[r] /\ w.of = "row" /\ w \notin broken =>
       \/ \E v \in Behind(r) : v.item = w.item /\ v.of = "archive"
       \/ \E c \in todo[r] : IsCommit(c) /\ c.item = w.item /\ c.of = "archive"

TrailInv ==
  /\ RequestsRun /\ WritesAreTried /\ CommitsAreLeft /\ AnnouncementsAreLeft /\ OwedIsNext
  /\ FailedItemsAreUndone /\ TrailsTellTheWrites

-----------------------------------------------------------------------------
(* The pushes: what is queued, held by a worker, sent.                     *)

\* What the rows and the processes are.
DeliveryRows == [status: {"pending", "failed", "processing", "processed"},
                 attempts: Nat, due: BOOLEAN, place: Nat]
HandlerRows == [at: {"idle", "order", "channels", "list", "enqueue", "done"},
                to: Profiles \cup {Nobody}, asked: SUBSET Channels, on: SUBSET Channels,
                left: SUBSET SubIds]
WorkerRows == [at: {"idle", "read", "send", "sent", "gone", "cleared", "failed"},
               claimed: SUBSET Keys, batch: SUBSET Keys, cur: Keys \cup {<<>>}]
RowsAreSound ==
  /\ DOMAIN notes = Events /\ DOMAIN subs = SubIds /\ DOMAIN delivery = Keys /\ placed \in Nat
  /\ \A e \in Events : notes[e] # NoNote => notes[e] \in NoteRows /\ notes[e].key % PerMilli = 0
  /\ \A k \in Keys : delivery[k] # NoDelivery =>
       delivery[k] \in DeliveryRows
  /\ handler \in [Events -> HandlerRows]
  /\ worker \in [Workers -> WorkerRows]
  /\ \A c \in calls :
       c.does = "register" => [endpoint |-> c.on, profile |-> c.who] # Unused

Held(w) == worker[w].claimed \cup worker[w].batch \cup ({worker[w].cur} \ {<<>>})

\* Nothing is queued for a pair yet, nor sent.
IsNew(k) ==
  /\ delivery[k] = NoDelivery
  /\ \A w \in Workers : k \notin Held(w)
  /\ \A p \in pushed : p[1] # k

\* A subscription of a profile, unless it changed hands or was removed.
IsOf(i, profile) ==
  subs[i] # Unused /\ (i \in moved \/ i \notin Live \/ subs[i].profile = profile)

\* An event that a request is to publish has no notification yet, and no other
\* request has it.
EventsAreNew == \A r \in Requests : job[r] # NoJob /\ job[r].event # NoEvent =>
  /\ job[r].event \in Events /\ tries[r] = MaxTries
  /\ \A q \in Requests \ {r} : job[q] # NoJob => job[q].event # job[r].event
  /\ \A s \in todo[r] : s.does = "emit" /\ todo[r] = {s}
  /\ todo[r] # {} =>
       /\ handler[job[r].event].at = "idle" /\ notes[job[r].event] = NoNote
       /\ \A i \in SubIds : IsNew(<<job[r].event, i>>)

\* The dispatcher creates one notification, and queues one delivery to each of
\* the subscriptions its recipient had.
HandlersGoAhead == \A e \in Events :
  /\ handler[e].at \in {"order", "channels"} => notes[e] = NoNote
  /\ handler[e].at \in {"order", "channels", "list"} => \A i \in SubIds : IsNew(<<e, i>>)
  /\ handler[e].at = "channels" => handler[e].to \in Profiles
  /\ handler[e].at \in {"list", "enqueue"} =>
       notes[e] # NoNote /\ notes[e].to = handler[e].to
  /\ handler[e].at = "enqueue" =>
       \A i \in handler[e].left : IsNew(<<e, i>>) /\ IsOf(i, handler[e].to)

\* A row of the queue is for the recipient of its notification.
QueueIsRight == \A k \in Keys :
  delivery[k] # NoDelivery \/ (\E w \in Workers : k \in Held(w)) => IsOf(k[2], notes[k[1]].to)

\* A row is held by one worker, in one place, and nobody else claims it.
WorkersHoldApart ==
  /\ \A w \in Workers :
       /\ worker[w].at # "read" => worker[w].claimed = {}
       /\ worker[w].at = "idle" => worker[w].batch = {}
       /\ worker[w].at \in {"idle", "read", "send"} <=> worker[w].cur = <<>>
       /\ worker[w].claimed \cap worker[w].batch = {}
       /\ worker[w].cur \notin worker[w].claimed \cup worker[w].batch
       /\ \A k \in Held(w) : delivery[k] = NoDelivery \/ delivery[k].status = "processing"
  /\ \A v, w \in Workers : v # w => Held(v) \cap Held(w) = {}

\* The pushes of a delivery are numbered as they arrive.
PushesAreNumbered ==
  /\ IsFiniteSet(pushed)
  /\ \A p \in pushed : p[3] \in Nat /\ p[3] < Pushes(p[1])

\* A row whose push is out is not sent again, unless the push was lost.
SentIsNotQueued == \A p \in pushed : p[1] \in Keys /\ (p \notin lost =>
  /\ delivery[p[1]] = NoDelivery \/ delivery[p[1]].status \in {"processing", "processed"}
  /\ \A w \in Workers :
       /\ p[1] \notin worker[w].claimed \cup worker[w].batch
       /\ p[1] = worker[w].cur => worker[w].at = "sent")

PushInv ==
  /\ RowsAreSound /\ EventsAreNew /\ HandlersGoAhead /\ QueueIsRight /\ WorkersHoldApart
  /\ PushesAreNumbered /\ SentIsNotQueued /\ PushesReachTheRecipientOnce

-----------------------------------------------------------------------------
(* The pages of an inbox.                                                  *)

\* The cursor is past a row that was there all the time once it was shown.
PagesAreKept ==
  LET behind(e) == reader.cursor # NoCursor /\ ~PastCursor(Newest, reader.cursor,
                                                           [id |-> e, key |-> notes[e].key])
  IN  /\ reader = [at |-> reader.at, who |-> reader.who, cursor |-> reader.cursor,
                   shown |-> reader.shown, still |-> reader.still]
      /\ reader.at = "reading" => reader.cursor = NoCursor \/ reader.cursor \in [p: Int, t: Int]
      /\ reader.at \in {"idle", "reading", "done"} /\ DOMAIN reader.shown = Events
      /\ \A e \in reader.still :
           /\ e \in Events /\ notes[e] # NoNote
           /\ reader.shown[e] = IF reader.at = "done" \/ behind(e) THEN 1 ELSE 0

-----------------------------------------------------------------------------
(* The steps of an item, numbered.                                         *)

\* A numbered step is the step of the item with its number.
LEMMA NumberedIn ==
  ASSUME NEW i, NEW item, NEW s \in Numbered(i, item)
  PROVE  /\ s.n \in DOMAIN item /\ s.item = i /\ s = NumberedStep(item[s.n], i, s.n)
         /\ s.does = item[s.n].does /\ s.of = item[s.n].of /\ s.undo = item[s.n].undo
BY DEF Numbered, NumberedStep

\* Every step of an item is numbered.
LEMMA NumberedOf ==
  ASSUME NEW i, NEW item, NEW n \in DOMAIN item
  PROVE  LET s == NumberedStep(item[n], i, n)
         IN  /\ s \in Numbered(i, item) /\ s.n = n /\ s.item = i
             /\ s.does = item[n].does /\ s.of = item[n].of /\ s.undo = item[n].undo
BY DEF Numbered, NumberedStep

\* A numbered item is one row after the other, each committed once and first.
LEMMA NumberedIsSound ==
  ASSUME NEW op, NEW i \in Nat, NEW item, SoundSteps(op, item)
  PROVE  LET T == Numbered(i, item) IN
         /\ \A s \in T : s.n \in Nat /\ s.does \in Kinds /\ (IsCommit(s) => s.of # "read")
         /\ \A s \in T : Announces(s) /\ s.of # "read" =>
              \E c \in T : IsCommit(c) /\ OfOneRow(c, s) /\ c.n < s.n
         /\ \A s, t \in T :
              /\ s.n = t.n => s = t
              /\ IsCommit(s) /\ IsCommit(t) /\ s.of = t.of => s = t
              /\ op.style = "bulk" => s.of = t.of
              /\ s.n < t.n /\ s.of # t.of =>
                   \E d \in T : IsCommit(d) /\ OfOneRow(d, t) /\ s.n < d.n /\ d.n <= t.n
<1> DEFINE T == Numbered(i, item)
<1>1. \A s \in T : s.n \in DOMAIN item /\ s.n \in Nat /\ s.item = i
        /\ s = NumberedStep(item[s.n], i, s.n)
        /\ s.does = item[s.n].does /\ s.of = item[s.n].of
  BY NumberedIn DEF SoundSteps
<1>2. \A m \in DOMAIN item : \E c \in T :
        c.n = m /\ c.item = i /\ c.does = item[m].does /\ c.of = item[m].of
  <2> TAKE m \in DOMAIN item
  <2>1. NumberedStep(item[m], i, m) \in T
    BY DEF Numbered
  <2> WITNESS NumberedStep(item[m], i, m) \in T
  <2> QED
    BY DEF NumberedStep
<1>3. \A m \in DOMAIN item : m \in Nat
  BY DEF SoundSteps
<1> HIDE DEF T
<1>4. \A s \in T : s.does \in Kinds /\ (IsCommit(s) => s.of # "read")
  BY <1>1 DEF SoundSteps, IsCommit
<1>5. ASSUME NEW s \in T, s.of # "read"
      PROVE  \E c \in T : /\ IsCommit(c) /\ OfOneRow(c, s) /\ c.n <= s.n
                         /\ \A t \in T : c.n <= t.n /\ t.n <= s.n => t.of = s.of
  <2>1. PICK m \in DOMAIN item : /\ m <= s.n /\ IsCommit(item[m])
          /\ \A l \in DOMAIN item : m <= l /\ l <= s.n => item[l].of = item[s.n].of
    BY <1>1, <1>5 DEF SoundSteps
  <2>2. PICK c \in T : c.n = m /\ c.item = i /\ c.does = item[m].does /\ c.of = item[m].of
    BY <1>2
  <2>3. item[m].of = item[s.n].of
    BY <2>1, <1>1, <1>3
  <2>4. IsCommit(c) /\ OfOneRow(c, s)
    BY <2>1, <2>2, <2>3, <1>1, <1>5 DEF IsCommit, OfOneRow, Beside
  <2> QED
    BY <2>1, <2>2, <2>4, <1>1, <1>5
<1>6. ASSUME NEW s \in T, Announces(s), s.of # "read"
      PROVE  \E c \in T : IsCommit(c) /\ OfOneRow(c, s) /\ c.n < s.n
  <2>1. PICK c \in T : IsCommit(c) /\ OfOneRow(c, s) /\ c.n <= s.n
    BY <1>5, <1>6
  <2>2. c # s
    BY <2>1, <1>6 DEF Announces, IsCommit
  <2>3. c.n # s.n
    BY <2>2, <1>1, <1>6
  <2> QED
    BY <2>1, <2>3, <1>1, <1>6
<1>7. ASSUME NEW s \in T, NEW t \in T
      PROVE  /\ s.n = t.n => s = t
             /\ IsCommit(s) /\ IsCommit(t) /\ s.of = t.of => s = t
             /\ op.style = "bulk" => s.of = t.of
             /\ s.of = "read" => t.of = "read"
  <2>1. s.n = t.n => s = t
    BY <1>1
  <2>2. /\ op.style = "bulk" \/ item[s.n].of = "read" => item[s.n].of = item[t.n].of
        /\ IsCommit(item[s.n]) /\ IsCommit(item[t.n]) /\ item[s.n].of = item[t.n].of => s.n = t.n
    BY <1>1 DEF SoundSteps
  <2> QED
    BY <2>1, <2>2, <1>1 DEF IsCommit
<1>8. ASSUME NEW s \in T, NEW t \in T, s.n < t.n, s.of # t.of
      PROVE  \E d \in T : IsCommit(d) /\ OfOneRow(d, t) /\ s.n < d.n /\ d.n <= t.n
  <2>1. t.of # "read"
    BY <1>7, <1>8
  <2>2. PICK d \in T : /\ IsCommit(d) /\ OfOneRow(d, t) /\ d.n <= t.n
                       /\ \A u \in T : d.n <= u.n /\ u.n <= t.n => u.of = t.of
    BY <1>5, <1>8, <2>1
  <2>3. s.n < d.n
    BY <2>2, <1>8, <1>1
  <2> QED
    BY <2>2, <2>3
<1>9. \A s \in T : s.n \in Nat /\ s.does \in Kinds /\ (IsCommit(s) => s.of # "read")
  BY <1>1, <1>4
<1>10. \A s, t \in T :
         /\ s.n = t.n => s = t
         /\ IsCommit(s) /\ IsCommit(t) /\ s.of = t.of => s = t
         /\ op.style = "bulk" => s.of = t.of
         /\ s.n < t.n /\ s.of # t.of =>
              \E d \in T : IsCommit(d) /\ OfOneRow(d, t) /\ s.n < d.n /\ d.n <= t.n
  BY <1>7, <1>8
<1> QED
  BY <1>6, <1>9, <1>10 DEF T

\* A request that is sent has the steps of the catalogue to do, and commits
\* before it announces.
LEMMA ProgramIsShaped ==
  ASSUME NEW op, Sound(op), NEW k \in Nat, NEW chosen \in [1..k -> op.items]
  PROVE  /\ Shaped(op, Program(chosen))
         /\ \A s \in Program(chosen) :
              /\ s.of # "archive"
              /\ Announces(s) /\ s.of # "read" =>
                   \E c \in Program(chosen) : IsCommit(c) /\ OfOneRow(c, s) /\ c.n < s.n
<1> DEFINE T == Program(chosen)
           Part(i) == Numbered(i, chosen[i])
<1>1. \A i \in 1..k : i \in Nat /\ chosen[i] \in op.items /\ SoundSteps(op, chosen[i])
  BY DEF Sound
<1>2. \A s \in T : s.item \in 1..k /\ s.item \in Nat /\ s \in Part(s.item)
  <2> SUFFICES ASSUME NEW s \in T PROVE s.item \in 1..k /\ s \in Part(s.item)
    BY <1>1
  <2>1. PICK i \in 1..k : s \in Numbered(i, chosen[i])
    BY DEF Program
  <2>2. s.item = i
    BY <2>1, NumberedIn
  <2> QED
    BY <2>1, <2>2
<1>3. \A i \in 1..k : \A c \in Part(i) : c \in T /\ c.item = i
  BY NumberedIn DEF Program
<1>4. \A s \in T : s.n \in DOMAIN chosen[s.item] /\ s.of = chosen[s.item][s.n].of
                   /\ s.undo = chosen[s.item][s.n].undo
  BY <1>2, NumberedIn
<1>5. \A s, t \in T : Beside(s, t) => s \in Part(s.item) /\ t \in Part(s.item)
  BY <1>2 DEF Beside
<1> HIDE DEF T, Part
<1>6. ASSUME NEW s \in T
      PROVE  /\ s.of # "archive" /\ SoundUndo(op, s.undo)
             /\ op.style = "one" \/ s.of = "row" \/ Archives(s.undo)
  BY <1>1, <1>2, <1>4 DEF Sound
<1>7. ASSUME NEW s \in T
      PROVE  /\ s.n \in Nat /\ s.does \in Kinds /\ (IsCommit(s) => s.of # "read")
             /\ Announces(s) /\ s.of # "read" =>
                  \E c \in T : IsCommit(c) /\ OfOneRow(c, s) /\ c.n < s.n
  <2>1. SoundSteps(op, chosen[s.item]) /\ s.item \in Nat /\ s \in Part(s.item)
    BY <1>1, <1>2
  <2> QED
    BY <2>1, <1>2, <1>3, NumberedIsSound DEF Part
<1>8. ASSUME NEW s \in T, NEW t \in T, Beside(s, t)
      PROVE  /\ s.n = t.n => s = t
             /\ IsCommit(s) /\ IsCommit(t) /\ s.of = t.of => s = t
             /\ op.style = "bulk" => s.of = t.of
             /\ s.n < t.n /\ s.of # t.of =>
                  \E d \in T : IsCommit(d) /\ OfOneRow(d, t) /\ s.n < d.n /\ d.n <= t.n
  <2>1. SoundSteps(op, chosen[s.item]) /\ s.item \in Nat /\ s \in Part(s.item) /\ t \in Part(s.item)
    BY <1>1, <1>2, <1>5, <1>8
  <2> QED
    BY <2>1, <1>2, <1>3, NumberedIsSound DEF Part
<1>9. Shaped(op, T)
  BY <1>2, <1>6, <1>7, <1>8 DEF Shaped
<1> QED
  BY <1>9, <1>6, <1>7 DEF T

Rest(T, s) == {t \in T : t.item # s.item}
Undone(s) == Numbered(s.item, s.undo)

\* What a failed step leaves of its request is shaped: its item gives way to
\* what undoes it.
LEMMA UndoIsShaped ==
  ASSUME NEW op, NEW T, Shaped(op, T), NEW s \in T
  PROVE  /\ Shaped(op, Rest(T, s) \cup Undone(s))
         /\ \A u \in Undone(s) :
              /\ u.item = s.item /\ u.of = "archive" /\ s.of # "archive"
              /\ Announces(u) => \E c \in Undone(s) : IsCommit(c) /\ OfOneRow(c, u) /\ c.n < u.n
         /\ Archives(s.undo) => \E c \in Undone(s) : IsCommit(c)
<1> DEFINE rest == Rest(T, s)
           undo == Undone(s)
<1>1. /\ s.item \in Nat /\ SoundSteps(op, s.undo)
      /\ \A n \in DOMAIN s.undo : s.undo[n].of = "archive" /\ DOMAIN s.undo[n].undo = {}
      /\ op.keyed => DOMAIN s.undo = {}
      /\ s.of = "archive" => DOMAIN s.undo = {}
  BY DEF Shaped, SoundUndo
<1>2. \A u \in undo : /\ u.item = s.item /\ u.of = "archive" /\ DOMAIN u.undo = {}
                      /\ s.of # "archive" /\ ~op.keyed
  BY <1>1, NumberedIn DEF Undone
<1>3. Archives(s.undo) => \E c \in undo : IsCommit(c)
  <2> SUFFICES ASSUME NEW n \in DOMAIN s.undo, IsCommit(s.undo[n]) PROVE \E c \in undo : IsCommit(c)
    BY DEF Archives
  <2>1. NumberedStep(s.undo[n], s.item, n) \in undo
    BY DEF Numbered, Undone
  <2> WITNESS NumberedStep(s.undo[n], s.item, n) \in undo
  <2> QED
    BY DEF NumberedStep, IsCommit
<1>4. /\ \A u \in undo : u.n \in Nat /\ u.does \in Kinds /\ (IsCommit(u) => u.of # "read")
      /\ \A u \in undo : Announces(u) /\ u.of # "read" =>
           \E c \in undo : IsCommit(c) /\ OfOneRow(c, u) /\ c.n < u.n
      /\ \A u, v \in undo : /\ u.n = v.n => u = v
                            /\ IsCommit(u) /\ IsCommit(v) /\ u.of = v.of => u = v
  <2> HIDE <1>2, <1>3
  <2>1. s.item \in Nat /\ SoundSteps(op, s.undo)
    BY <1>1
  <2> QED
    BY <2>1, NumberedIsSound DEF Undone
<1> HIDE DEF undo, rest
<1>5. \A t \in rest : t \in T /\ t.item # s.item
  BY DEF rest, Rest
<1>6. \A t \in T : t.item # s.item => t \in rest
  BY DEF rest, Rest
<1>7. \A u \in undo : SoundUndo(op, u.undo)
  BY <1>2 DEF SoundUndo, SoundSteps
<1>8. ASSUME NEW t \in rest \cup undo
      PROVE  /\ t.item \in Nat /\ t.n \in Nat /\ t.does \in Kinds
             /\ SoundUndo(op, t.undo)
             /\ t.of = "archive" => DOMAIN t.undo = {} /\ ~op.keyed
             /\ op.style = "one" \/ t.of \in {"row", "archive"} \/ Archives(t.undo)
             /\ IsCommit(t) => t.of # "read"
  <2>1. CASE t \in rest
    BY <2>1, <1>5 DEF Shaped
  <2>2. CASE t \in undo
    BY <2>2, <1>1, <1>2, <1>4, <1>7
  <2> QED
    BY <2>1, <2>2
<1>9. ASSUME NEW t \in rest \cup undo, NEW u \in rest \cup undo, Beside(t, u)
      PROVE  /\ t.n = u.n => t = u
             /\ IsCommit(t) /\ IsCommit(u) /\ t.of = u.of => t = u
             /\ op.style = "bulk" => t.of = u.of
             /\ t.of = "archive" => u.of = "archive"
             /\ t.n < u.n /\ t.of # u.of =>
                  \E d \in rest \cup undo : IsCommit(d) /\ OfOneRow(d, u) /\ t.n < d.n /\ d.n <= u.n
  <2>1. CASE t \in rest
    <3>1. u \in rest /\ t \in T /\ u \in T
      BY <2>1, <1>2, <1>5, <1>9 DEF Beside
    <3>2. /\ t.n = u.n => t = u
          /\ IsCommit(t) /\ IsCommit(u) /\ t.of = u.of => t = u
          /\ op.style = "bulk" => t.of = u.of
          /\ t.of = "archive" => u.of = "archive"
      BY <3>1, <1>9 DEF Shaped
    <3>3. ASSUME t.n < u.n, t.of # u.of
          PROVE  \E d \in rest : IsCommit(d) /\ OfOneRow(d, u) /\ t.n < d.n /\ d.n <= u.n
      <4>1. PICK d \in T : IsCommit(d) /\ OfOneRow(d, u) /\ t.n < d.n /\ d.n <= u.n
        BY <3>1, <3>3, <1>9 DEF Shaped
      <4>2. d \in rest
        BY <4>1, <3>1, <1>5, <1>6 DEF OfOneRow, Beside
      <4> QED
        BY <4>1, <4>2
    <3> QED
      BY <3>2, <3>3
  <2>2. CASE t \in undo
    <3>1. u \in undo
      BY <2>2, <1>2, <1>5, <1>9 DEF Beside
    <3> QED
      BY <2>2, <3>1, <1>2, <1>4
  <2> QED
    BY <2>1, <2>2
<1>10. Shaped(op, rest \cup undo)
  BY <1>8, <1>9 DEF Shaped
<1>11. \A u \in undo :
         /\ u.item = s.item /\ u.of = "archive" /\ s.of # "archive"
         /\ Announces(u) => \E c \in undo : IsCommit(c) /\ OfOneRow(c, u) /\ c.n < u.n
  BY <1>2, <1>4
<1> QED
  BY <1>3, <1>10, <1>11 DEF rest, undo

\* Fewer steps are shaped, unless a commit goes before the steps of its row.
LEMMA LessIsShaped ==
  ASSUME NEW op, NEW T, Shaped(op, T), NEW U, U \subseteq T,
         \A s \in U, t \in U, d \in T \ U :
           ~(IsCommit(d) /\ Beside(s, t) /\ s.of # t.of /\ OfOneRow(d, t) /\ s.n < d.n)
  PROVE  Shaped(op, U)
<1>1. ASSUME NEW s \in U, NEW t \in U, Beside(s, t), s.n < t.n, s.of # t.of
      PROVE  \E d \in U : IsCommit(d) /\ OfOneRow(d, t) /\ s.n < d.n /\ d.n <= t.n
  <2>1. s \in T /\ t \in T
    OBVIOUS
  <2>2. PICK d \in T : IsCommit(d) /\ OfOneRow(d, t) /\ s.n < d.n /\ d.n <= t.n
    BY <2>1, <1>1 DEF Shaped
  <2>3. d \in U
    BY <2>2, <1>1
  <2> QED
    BY <2>2, <2>3
<1>2. \A s, t \in U : Beside(s, t) =>
        /\ s.n = t.n => s = t
        /\ IsCommit(s) /\ IsCommit(t) /\ s.of = t.of => s = t
        /\ op.style = "bulk" => s.of = t.of
        /\ s.of = "archive" => t.of = "archive"
  <2> SUFFICES ASSUME NEW s \in U, NEW t \in U, Beside(s, t)
               PROVE  /\ s.n = t.n => s = t
                      /\ IsCommit(s) /\ IsCommit(t) /\ s.of = t.of => s = t
                      /\ op.style = "bulk" => s.of = t.of
                      /\ s.of = "archive" => t.of = "archive"
    OBVIOUS
  <2>1. s \in T /\ t \in T
    OBVIOUS
  <2> QED
    BY <2>1 DEF Shaped
<1>3. \A s \in U : s \in T
  OBVIOUS
<1>4. \A s, t \in U : Beside(s, t) =>
        /\ s.n = t.n => s = t
        /\ IsCommit(s) /\ IsCommit(t) /\ s.of = t.of => s = t
        /\ op.style = "bulk" => s.of = t.of
        /\ s.of = "archive" => t.of = "archive"
        /\ s.n < t.n /\ s.of # t.of =>
             \E d \in U : IsCommit(d) /\ OfOneRow(d, t) /\ s.n < d.n /\ d.n <= t.n
  BY <1>1, <1>2
<1> QED
  BY <1>3, <1>4 DEF Shaped

-----------------------------------------------------------------------------
(* The trails, action by action.                                           *)

\* The write and the announcement of a step.
LEMMA WriteFields ==
  ASSUME NEW r, NEW s
  PROVE  /\ WriteOf(r, s).by = r /\ WriteOf(r, s).try = tries[r]
         /\ WriteOf(r, s).item = s.item /\ WriteOf(r, s).of = s.of
         /\ Entry(r, s)[1] = WriteOf(r, s) /\ Entry(r, s)[2] = s.n
BY DEF WriteOf, Entry

\* A row of an item has one write in a try.
LEMMA SameWrite ==
  ASSUME NEW r, NEW s, NEW t, OfOneRow(s, t)
  PROVE  WriteOf(r, s) = WriteOf(r, t)
BY DEF WriteOf, OfOneRow, Beside

\* Steps that are left differ in what they announce.
LEMMA EntriesDiffer ==
  ASSUME RequestsRun, NEW r \in Requests, NEW s \in todo[r],
         NEW q \in Requests, NEW t \in todo[q], Entry(r, s) = Entry(q, t)
  PROVE  r = q /\ s = t
<1>1. r = q /\ s.item = t.item /\ s.n = t.n
  BY WriteFields
<1> QED
  BY <1>1 DEF RequestsRun, Shaped, Beside

\* The step that is next precedes the others; a bulk announces when all is stored.
LEMMA NextIsLeast ==
  ASSUME RequestsRun, NEW r \in Requests, NEW does, NEW s \in Ready(r, does)
  PROVE  /\ s \in todo[r] /\ s.does = does /\ Running(r) /\ job[r] # NoJob
         /\ Shaped(job[r].op, todo[r]) /\ s.item \in Nat /\ s.n \in Nat
         /\ \A t \in todo[r] : t # s =>
              /\ t.item \in Nat /\ t.n \in Nat
              /\ job[r].op.style # "bulk" => s.item < t.item \/ (s.item = t.item /\ s.n < t.n)
              /\ IsCommit(t) /\ ~IsCommit(s) => job[r].op.style # "bulk"
<1>1. s \in todo[r] /\ s.does = does /\ Running(r) /\ \A t \in todo[r] \ {s} : Sooner(r, s, t)
  BY DEF Ready
<1>2. job[r] # NoJob /\ Shaped(job[r].op, todo[r])
  BY <1>1 DEF RequestsRun
<1>3. \A t \in todo[r] : t.item \in Nat /\ t.n \in Nat
  BY <1>2 DEF Shaped
<1>4. ASSUME NEW t \in todo[r], t # s, job[r].op.style # "bulk"
      PROVE  s.item < t.item \/ (s.item = t.item /\ s.n < t.n)
  BY <1>1, <1>4 DEF Sooner
<1>5. ASSUME NEW t \in todo[r], t # s, IsCommit(t), ~IsCommit(s)
      PROVE  job[r].op.style # "bulk"
  <2>1. Sooner(r, s, t)
    BY <1>1, <1>5
  <2> QED
    BY <2>1, <1>5 DEF Sooner, IsCommit
<1> QED
  BY <1>1, <1>2, <1>3, <1>4, <1>5

\* What is pending.
LEMMA PendingIs ==
  ASSUME NEW e
  PROVE  e \in Pending <=> \E r \in Requests : \E s \in todo[r] : e = Entry(r, s)
BY DEF Pending

\* A step that commits nothing is done: the rest is shaped, commits and
\* announcements are left.
LEMMA StepDone ==
  ASSUME TrailInv, NEW r \in Requests, NEW does, NEW s \in Ready(r, does), ~IsCommit(s),
         GoOn(r, todo[r] \ {s}),
         UNCHANGED <<job, tries, answer, failed, writes, owed, broken>>
  PROVE  /\ RequestsRun' /\ CommitsAreLeft' /\ OwedIsNext' /\ FailedItemsAreUndone'
         /\ \A q \in Requests : todo'[q] \subseteq todo[q]
         /\ \A q \in Requests : \A t \in todo[q] : t # s \/ q # r => t \in todo'[q]
         /\ s \notin todo'[r]
<1>1. /\ s \in todo[r] /\ Running(r) /\ Shaped(job[r].op, todo[r])
  BY NextIsLeast DEF TrailInv
<1>2. /\ DOMAIN todo' = Requests /\ todo'[r] = todo[r] \ {s}
      /\ \A q \in Requests : q # r => todo'[q] = todo[q]
  BY DEF GoOn, TrailInv, RequestsRun
<1>3. Shaped(job[r].op, todo[r] \ {s})
  BY <1>1, LessIsShaped
<1>4. RequestsRun'
  BY <1>1, <1>2, <1>3 DEF TrailInv, RequestsRun, Running
<1>5. /\ \A q \in Requests : todo'[q] \subseteq todo[q]
      /\ \A q \in Requests : \A t \in todo[q] : t # s \/ q # r => t \in todo'[q]
      /\ s \notin todo'[r]
  BY <1>2
<1>6. \A q, t : WriteOf(q, t)' = WriteOf(q, t) /\ Entry(q, t)' = Entry(q, t)
  BY DEF WriteOf, Entry
<1>7. \A q : Behind(q)' = Behind(q)
  BY DEF Behind
<1>8. CommitsAreLeft'
  BY <1>5, <1>6, <1>7 DEF TrailInv, CommitsAreLeft
<1>9. OwedIsNext'
  BY <1>5, <1>6 DEF TrailInv, OwedIsNext
<1>10. FailedItemsAreUndone'
  <2> SUFFICES ASSUME NEW q \in Requests, answer[q] \in {"none", "ok"}
      PROVE /\ \A t \in todo'[q] : t.item \in failed[q] => t.of = "archive"
            /\ \A w \in Behind(q) : w.item \in failed[q] /\ w.of = "row" /\ w \notin broken =>
                 \/ \E v \in Behind(q) : v.item = w.item /\ v.of = "archive"
                 \/ \E c \in todo'[q] : IsCommit(c) /\ c.item = w.item /\ c.of = "archive"
    BY <1>7 DEF FailedItemsAreUndone
  <2> QED
    BY <1>5 DEF TrailInv, FailedItemsAreUndone
<1> QED
  BY <1>4, <1>5, <1>8, <1>9, <1>10

\* An audit row or an event is there: it was owed, or tells of a read.
LEMMA RecordKeeps ==
  ASSUME TrailInv, NEW r \in Requests, NEW does \in {"audit", "emit"}, NEW s \in Ready(r, does),
         Record(r, s)
  PROVE  TrailInv'
<1> DEFINE e == Entry(r, s)
<1>1. /\ s \in todo[r] /\ Running(r) /\ Shaped(job[r].op, todo[r]) /\ Announces(s) /\ ~IsCommit(s)
      /\ s.n \in Nat
  BY NextIsLeast DEF TrailInv, Announces, IsCommit
<1>2. /\ log' = log \cup {e} /\ doubled' = doubled \cup ({e} \cap log) /\ GoOn(r, todo[r] \ {s})
      /\ UNCHANGED <<job, tries, answer, failed, writes, owed, broken>>
  BY DEF Record
<1>3. /\ RequestsRun' /\ CommitsAreLeft' /\ OwedIsNext' /\ FailedItemsAreUndone'
      /\ \A q \in Requests : todo'[q] \subseteq todo[q]
      /\ \A q \in Requests : \A t \in todo[q] : t # s \/ q # r => t \in todo'[q]
      /\ s \notin todo'[r]
  BY <1>1, <1>2, StepDone
<1>4. \A q, t : WriteOf(q, t)' = WriteOf(q, t) /\ Entry(q, t)' = Entry(q, t)
  BY <1>2 DEF WriteOf, Entry
<1>5. \A q \in Requests : \A t \in todo'[q] : Entry(q, t) # e
  BY <1>1, <1>3, EntriesDiffer DEF TrailInv
<1>6. e \notin log
  BY <1>1 DEF TrailInv, AnnouncementsAreLeft
<1>7. s.of = "read" \/ e \in owed
  <2> SUFFICES ASSUME NEW c \in todo[r], IsCommit(c), OfOneRow(c, s), c.n < s.n PROVE FALSE
    BY <1>1 DEF TrailInv, AnnouncementsAreLeft
  <2>1. c # s /\ c.item = s.item /\ c.n \in Nat
    BY <1>1, NextIsLeast DEF OfOneRow, Beside, TrailInv
  <2> QED
    BY <1>1, <2>1, NextIsLeast DEF TrailInv
<1>8. e[1].by = r /\ e[1].try = tries[r] /\ e[1].of = s.of /\ tries[r] \in Nat
  BY WriteFields DEF TrailInv, RequestsRun
<1> HIDE DEF e
<1>9. WritesAreTried'
  <2>1. \A x \in log' : x[1].by \in Requests /\ x[1].try \in Nat /\ x[1].try <= tries[x[1].by]
    BY <1>2, <1>8 DEF TrailInv, WritesAreTried
  <2> QED
    BY <2>1, <1>2, <1>4 DEF TrailInv, WritesAreTried
<1>10. AnnouncementsAreLeft'
  <2> SUFFICES ASSUME NEW q \in Requests, NEW u \in todo'[q], Announces(u)
               PROVE  /\ Entry(q, u) \notin log'
                      /\ u.of = "read" \/ Entry(q, u) \in owed
                           \/ \E c \in todo'[q] : IsCommit(c) /\ OfOneRow(c, u) /\ c.n < u.n
    BY <1>2, <1>4 DEF AnnouncementsAreLeft
  <2>1. u \in todo[q]
    BY <1>3
  <2>2. Entry(q, u) \notin log
    BY <2>1 DEF TrailInv, AnnouncementsAreLeft
  <2>3. Entry(q, u) \notin log'
    BY <2>2, <1>2, <1>5
  <2>4. \A c \in todo[q] : IsCommit(c) => c \in todo'[q]
    BY <1>1, <1>3
  <2> QED
    BY <2>1, <2>3, <2>4 DEF TrailInv, AnnouncementsAreLeft
<1>11. TrailsTellTheWrites'
  <2>1. doubled' = {}
    BY <1>2, <1>6 DEF TrailInv, TrailsTellTheWrites
  <2>2. \A x \in log' : x[1].of = "read" \/ x \in owed
    BY <1>2, <1>7, <1>8 DEF TrailInv, TrailsTellTheWrites
  <2>3. ASSUME NEW x \in owed \ log' PROVE x \in Pending' \/ x[1] \in broken
    <3>1. x \in owed \ log /\ x # e
      BY <2>3, <1>2
    <3>2. CASE x \in Pending
      <4>1. PICK q \in Requests : \E t \in todo[q] : x = Entry(q, t)
        BY <3>2, PendingIs
      <4>2. PICK t \in todo[q] : x = Entry(q, t)
        BY <4>1
      <4>3. t \in todo'[q]
        BY <1>3, <3>1, <4>2 DEF e
      <4> QED
        BY <4>2, <4>3, <1>4 DEF Pending
    <3> QED
      BY <3>1, <3>2 DEF TrailInv, TrailsTellTheWrites
  <2> QED
    BY <2>1, <2>2, <2>3, <1>2 DEF TrailInv, TrailsTellTheWrites
<1> QED
  BY <1>3, <1>9, <1>10, <1>11 DEF TrailInv

\* The cache and the carrier: nothing is told.
LEMMA CallOutKeeps ==
  ASSUME TrailInv, NEW r \in Requests, CallOut(r)
  PROVE  TrailInv'
<1>1. PICK s \in Ready(r, "forget") \cup Ready(r, "carrier") : GoOn(r, todo[r] \ {s})
  BY DEF CallOut
<1>2. UNCHANGED <<job, tries, answer, failed, writes, owed, log, doubled, broken>>
  BY DEF CallOut
<1>3. /\ s \in todo[r] /\ ~Announces(s) /\ ~IsCommit(s)
  BY NextIsLeast DEF TrailInv, Announces, IsCommit
<1>4. /\ RequestsRun' /\ CommitsAreLeft' /\ OwedIsNext' /\ FailedItemsAreUndone'
      /\ \A q \in Requests : todo'[q] \subseteq todo[q]
      /\ \A q \in Requests : \A t \in todo[q] : t # s \/ q # r => t \in todo'[q]
  BY <1>1, <1>2, <1>3, StepDone
<1>5. \A q, t : WriteOf(q, t)' = WriteOf(q, t) /\ Entry(q, t)' = Entry(q, t)
  BY <1>2 DEF WriteOf, Entry
<1>6. WritesAreTried'
  BY <1>2, <1>5 DEF TrailInv, WritesAreTried
<1>7. AnnouncementsAreLeft'
  <2> SUFFICES ASSUME NEW q \in Requests, NEW u \in todo'[q], Announces(u)
               PROVE  /\ Entry(q, u) \notin log
                      /\ u.of = "read" \/ Entry(q, u) \in owed
                           \/ \E c \in todo'[q] : IsCommit(c) /\ OfOneRow(c, u) /\ c.n < u.n
    BY <1>2, <1>5 DEF AnnouncementsAreLeft
  <2>1. u \in todo[q] /\ \A c \in todo[q] : IsCommit(c) => c \in todo'[q]
    BY <1>3, <1>4
  <2> QED
    BY <2>1 DEF TrailInv, AnnouncementsAreLeft
<1>8. TrailsTellTheWrites'
  <2>1. Entry(r, s) \notin owed
    BY <1>3 DEF TrailInv, OwedIsNext
  <2>2. ASSUME NEW x \in owed \ log PROVE x \in Pending' \/ x[1] \in broken
    <3>1. CASE x \in Pending
      <4>1. PICK q \in Requests : \E t \in todo[q] : x = Entry(q, t)
        BY <3>1, PendingIs
      <4>2. PICK t \in todo[q] : x = Entry(q, t)
        BY <4>1
      <4>3. t \in todo'[q]
        BY <1>4, <2>1, <2>2, <4>2
      <4> QED
        BY <4>2, <4>3, <1>5 DEF Pending
    <3> QED
      BY <2>2, <3>1 DEF TrailInv, TrailsTellTheWrites
  <2> QED
    BY <2>2, <1>2 DEF TrailInv, TrailsTellTheWrites
<1> QED
  BY <1>4, <1>6, <1>7, <1>8 DEF TrailInv

\* A try that begins has nothing behind it.
LEMMA SendKeeps ==
  ASSUME TrailInv, NEW r \in Requests, SendRequest(r)
  PROVE  TrailInv'
<1>1. /\ tries[r] = 0 \/ answer[r] \in {"error", "lost"}
      /\ tries' = [tries EXCEPT ![r] = @ + 1] /\ answer' = [answer EXCEPT ![r] = "none"]
      /\ failed' = [failed EXCEPT ![r] = {}]
      /\ UNCHANGED <<job, writes, owed, log, doubled, broken>>
  BY DEF SendRequest
<1>2. PICK chosen \in [1..job[r].items -> job[r].op.items] :
        todo' = [todo EXCEPT ![r] = Program(chosen)]
  BY DEF SendRequest
<1>3. job[r] # NoJob
  BY DEF SendRequest
<1>4. job[r].op \in Operations /\ job[r].items \in Nat /\ tries[r] \in Nat
  BY <1>3 DEF TrailInv, RequestsRun
<1>5. todo[r] = {}
  BY <1>1 DEF TrailInv, RequestsRun, Running
<1>6. /\ Shaped(job[r].op, Program(chosen))
      /\ \A s \in Program(chosen) : Announces(s) /\ s.of # "read" =>
           \E c \in Program(chosen) : IsCommit(c) /\ OfOneRow(c, s) /\ c.n < s.n
  BY <1>4, ProgramIsShaped, OperationsAssumption
<1>7. /\ DOMAIN todo = Requests /\ DOMAIN tries = Requests /\ DOMAIN answer = Requests
      /\ DOMAIN failed = Requests
  BY DEF TrailInv, RequestsRun
<1>8. /\ todo'[r] = Program(chosen) /\ tries'[r] = tries[r] + 1 /\ answer'[r] = "none"
      /\ failed'[r] = {}
      /\ \A q \in Requests : q # r => /\ todo'[q] = todo[q] /\ tries'[q] = tries[q]
                                      /\ answer'[q] = answer[q] /\ failed'[q] = failed[q]
  BY <1>1, <1>2, <1>7
<1>9. RequestsRun'
  <2>1. /\ DOMAIN job' = Requests /\ DOMAIN todo' = Requests /\ DOMAIN tries' = Requests
        /\ DOMAIN answer' = Requests /\ DOMAIN failed' = Requests
    BY <1>1, <1>2, <1>7 DEF TrailInv, RequestsRun
  <2>2. ASSUME NEW q \in Requests
        PROVE  /\ tries'[q] \in Nat
               /\ job'[q] # NoJob => job'[q].op \in Operations /\ job'[q].items \in Nat
               /\ todo'[q] # {} => Running(q)' /\ job'[q] # NoJob /\ Shaped(job'[q].op, todo'[q])
    <3>1. CASE q = r
      BY <3>1, <1>1, <1>3, <1>4, <1>6, <1>8 DEF Running
    <3>2. CASE q # r
      BY <3>2, <1>1, <1>8 DEF TrailInv, RequestsRun, Running
    <3> QED
      BY <3>1, <3>2
  <2> QED
    BY <2>1, <2>2 DEF RequestsRun
<1>10. \A q \in Requests : q # r =>
         /\ \A t : WriteOf(q, t)' = WriteOf(q, t) /\ Entry(q, t)' = Entry(q, t)
         /\ Behind(q)' = Behind(q)
  BY <1>1, <1>8 DEF WriteOf, Entry, Behind
<1>11. Behind(r)' = {}
  BY <1>1, <1>4, <1>8 DEF TrailInv, WritesAreTried, Behind
<1>12. \A t : WriteOf(r, t)' \notin writes /\ Entry(r, t)' \notin owed /\ Entry(r, t)' \notin log
  <2> TAKE t
  <2>1. WriteOf(r, t)'.by = r /\ WriteOf(r, t)'.try = tries[r] + 1 /\ Entry(r, t)'[1] = WriteOf(r, t)'
    BY <1>8 DEF WriteOf, Entry
  <2>2. WriteOf(r, t)' \notin writes
    BY <2>1, <1>4 DEF TrailInv, WritesAreTried
  <2>3. Entry(r, t)' \notin owed
    BY <2>1, <2>2 DEF TrailInv, WritesAreTried
  <2>4. Entry(r, t)' \notin log
    BY <2>1, <1>4 DEF TrailInv, WritesAreTried
  <2> QED
    BY <2>2, <2>3, <2>4
<1>13. WritesAreTried'
  <2>1. ASSUME NEW w \in writes
        PROVE  /\ w.by \in Requests /\ w.try \in Nat /\ w.try <= tries'[w.by]
               /\ w.try = tries'[w.by] => w = WriteOf(w.by, w)'
    <3>1. /\ w.by \in Requests /\ w.try \in Nat /\ w.try <= tries[w.by]
          /\ w.try = tries[w.by] => w = WriteOf(w.by, w)
      BY DEF TrailInv, WritesAreTried
    <3>2. CASE w.by = r
      BY <3>1, <3>2, <1>4, <1>8
    <3>3. CASE w.by # r
      BY <3>1, <3>3, <1>8, <1>10
    <3> QED
      BY <3>2, <3>3
  <2>2. ASSUME NEW e \in log
        PROVE  e[1].by \in Requests /\ e[1].try \in Nat /\ e[1].try <= tries'[e[1].by]
    <3>1. e[1].by \in Requests /\ e[1].try \in Nat /\ e[1].try <= tries[e[1].by]
      BY DEF TrailInv, WritesAreTried
    <3> QED
      BY <3>1, <1>4, <1>8
  <2>3. \A e \in owed : e[1] \in writes
    BY DEF TrailInv, WritesAreTried
  <2> QED
    BY <2>1, <2>2, <2>3, <1>1 DEF WritesAreTried
<1>14. ASSUME NEW q \in Requests, NEW s \in todo'[q]
       PROVE  /\ IsCommit(s) => WriteOf(q, s)' \notin writes'
              /\ s.of # "archive" => \A w \in Behind(q)' : w.item = s.item => w.of # "archive"
  <2>1. CASE q = r
    BY <2>1, <1>1, <1>11, <1>12
  <2>2. CASE q # r
    BY <2>2, <1>1, <1>8, <1>10 DEF TrailInv, CommitsAreLeft
  <2> QED
    BY <2>1, <2>2
<1>15. ASSUME NEW q \in Requests, NEW u \in todo'[q], Announces(u)
       PROVE  /\ Entry(q, u)' \notin log'
              /\ u.of = "read" \/ Entry(q, u)' \in owed'
                   \/ \E c \in todo'[q] : IsCommit(c) /\ OfOneRow(c, u) /\ c.n < u.n
  <2>1. CASE q = r
    BY <2>1, <1>15, <1>1, <1>6, <1>8, <1>12
  <2>2. CASE q # r
    BY <2>2, <1>15, <1>1, <1>8, <1>10 DEF TrailInv, AnnouncementsAreLeft
  <2> QED
    BY <2>1, <2>2
<1>16. ASSUME NEW q \in Requests, NEW u \in todo'[q], Entry(q, u)' \in owed'
       PROVE  /\ Announces(u)
              /\ \A c \in todo'[q] : IsCommit(c) /\ Beside(c, u) =>
                   u.n < c.n /\ job'[q].op.style # "bulk"
              /\ job'[q].op.style # "bulk" => \A s \in todo'[q] : u.item <= s.item
  BY <1>16, <1>1, <1>8, <1>10, <1>12 DEF TrailInv, OwedIsNext
<1>17. ASSUME NEW q \in Requests, answer'[q] \in {"none", "ok"}
       PROVE  /\ \A s \in todo'[q] : s.item \in failed'[q] => s.of = "archive"
              /\ \A w \in Behind(q)' : w.item \in failed'[q] /\ w.of = "row" /\ w \notin broken' =>
                   \/ \E v \in Behind(q)' : v.item = w.item /\ v.of = "archive"
                   \/ \E c \in todo'[q] : IsCommit(c) /\ c.item = w.item /\ c.of = "archive"
  <2>1. CASE q = r
    BY <2>1, <1>8, <1>11
  <2>2. CASE q # r
    BY <2>2, <1>17, <1>1, <1>8, <1>10 DEF TrailInv, FailedItemsAreUndone
  <2> QED
    BY <2>1, <2>2
<1>18. TrailsTellTheWrites'
  <2>1. ASSUME NEW x \in owed \ log PROVE x \in Pending' \/ x[1] \in broken
    <3>1. CASE x \in Pending
      <4>1. PICK q \in Requests : \E t \in todo[q] : x = Entry(q, t)
        BY <3>1, PendingIs
      <4>2. PICK t \in todo[q] : x = Entry(q, t)
        BY <4>1
      <4> QED
        BY <4>2, <1>5, <1>8, <1>10 DEF Pending
    <3> QED
      BY <2>1, <3>1 DEF TrailInv, TrailsTellTheWrites
  <2> QED
    BY <2>1, <1>1 DEF TrailInv, TrailsTellTheWrites
<1>19. CommitsAreLeft' /\ AnnouncementsAreLeft' /\ OwedIsNext'
  BY <1>14, <1>15, <1>16 DEF CommitsAreLeft, AnnouncementsAreLeft, OwedIsNext
<1>20. FailedItemsAreUndone'
  BY <1>17 DEF FailedItemsAreUndone
<1> QED
  BY <1>9, <1>13, <1>18, <1>19, <1>20 DEF TrailInv

\* Of the item that commits next nothing is owed yet, nor of any other that is
\* left, unless all of them are stored first.
LEMMA NothingOwedBeforeCommit ==
  ASSUME TrailInv, NEW r \in Requests, NEW s \in Ready(r, "commit"),
         NEW u \in todo[r], Entry(r, u) \in owed
  PROVE  u.item # s.item /\ job[r].op.style = "bulk"
<1>1. s \in todo[r] /\ IsCommit(s) /\ Announces(u) /\ s # u
  BY NextIsLeast DEF TrailInv, OwedIsNext, Announces, IsCommit
<1>2. u.item \in Nat /\ u.n \in Nat /\ s.item \in Nat /\ s.n \in Nat
  BY <1>1, NextIsLeast DEF TrailInv
<1>3. /\ Beside(s, u) => u.n < s.n /\ job[r].op.style # "bulk"
      /\ job[r].op.style # "bulk" => u.item <= s.item
  BY <1>1 DEF TrailInv, OwedIsNext
<1>4. job[r].op.style # "bulk" => s.item < u.item \/ (s.item = u.item /\ s.n < u.n)
  BY <1>1, NextIsLeast DEF TrailInv
<1> QED
  BY <1>2, <1>3, <1>4 DEF Beside

\* An item that is left out, nothing of which is owed and no archive of which
\* is awaited, leaves the rest as it was.
LEMMA ReplayKeeps ==
  ASSUME TrailInv, NEW r \in Requests, NEW s \in Ready(r, "commit"), Taken(WriteOf(r, s)),
         GoOn(r, Without(r, s.item)),
         UNCHANGED <<job, tries, answer, failed, writes, owed, log, doubled, broken>>
  PROVE  TrailInv'
<1>1. /\ s \in todo[r] /\ IsCommit(s) /\ Running(r) /\ Shaped(job[r].op, todo[r])
  BY NextIsLeast DEF TrailInv, IsCommit
<1>2. /\ DOMAIN todo' = Requests /\ todo'[r] = {t \in todo[r] : t.item # s.item}
      /\ \A q \in Requests : q # r => todo'[q] = todo[q]
  BY DEF GoOn, TrailInv, RequestsRun, Without
<1>3. Shaped(job[r].op, todo'[r])
  BY <1>1, <1>2, LessIsShaped DEF OfOneRow, Beside
<1>4. RequestsRun'
  BY <1>1, <1>2, <1>3 DEF TrailInv, RequestsRun, Running
<1>5. /\ \A q \in Requests : todo'[q] \subseteq todo[q]
      /\ \A q \in Requests : \A t \in todo[q] : t.item # s.item \/ q # r => t \in todo'[q]
      /\ \A t \in todo'[r] : t.item # s.item
  BY <1>2
<1>6. \A q, t : WriteOf(q, t)' = WriteOf(q, t) /\ Entry(q, t)' = Entry(q, t)
  BY DEF WriteOf, Entry
<1>7. \A q : Behind(q)' = Behind(q)
  BY DEF Behind
<1>8. \A t \in todo[r] : t.of # "archive"
  <2>1. job[r].op.keyed
    BY DEF Taken, WriteOf
  <2> QED
    BY <1>1, <2>1 DEF Shaped
<1>9. CommitsAreLeft' /\ OwedIsNext'
  BY <1>5, <1>6, <1>7 DEF TrailInv, CommitsAreLeft, OwedIsNext
<1>10. WritesAreTried'
  BY <1>6 DEF TrailInv, WritesAreTried
<1>11. AnnouncementsAreLeft'
  <2> SUFFICES ASSUME NEW q \in Requests, NEW u \in todo'[q], Announces(u)
               PROVE  /\ Entry(q, u) \notin log
                      /\ u.of = "read" \/ Entry(q, u) \in owed
                           \/ \E c \in todo'[q] : IsCommit(c) /\ OfOneRow(c, u) /\ c.n < u.n
    BY <1>6 DEF AnnouncementsAreLeft
  <2>1. u \in todo[q] /\ \A c \in todo[q] : OfOneRow(c, u) => c \in todo'[q]
    BY <1>5 DEF OfOneRow, Beside
  <2> QED
    BY <2>1 DEF TrailInv, AnnouncementsAreLeft
<1>12. FailedItemsAreUndone'
  <2> SUFFICES ASSUME NEW q \in Requests, answer[q] \in {"none", "ok"}
      PROVE /\ \A t \in todo'[q] : t.item \in failed[q] => t.of = "archive"
            /\ \A w \in Behind(q) : w.item \in failed[q] /\ w.of = "row" /\ w \notin broken =>
                 \/ \E v \in Behind(q) : v.item = w.item /\ v.of = "archive"
                 \/ \E c \in todo'[q] : IsCommit(c) /\ c.item = w.item /\ c.of = "archive"
    BY <1>7 DEF FailedItemsAreUndone
  <2> QED
    BY <1>5, <1>8 DEF TrailInv, FailedItemsAreUndone
<1>13. TrailsTellTheWrites'
  <2>1. ASSUME NEW x \in owed \ log PROVE x \in Pending' \/ x[1] \in broken
    <3>1. CASE x \in Pending
      <4>1. PICK q \in Requests : \E t \in todo[q] : x = Entry(q, t)
        BY <3>1, PendingIs
      <4>2. PICK t \in todo[q] : x = Entry(q, t)
        BY <4>1
      <4>3. t \in todo'[q]
        BY <1>5, <2>1, <4>2, NothingOwedBeforeCommit
      <4> QED
        BY <4>2, <4>3, <1>6 DEF Pending
    <3> QED
      BY <2>1, <3>1 DEF TrailInv, TrailsTellTheWrites
  <2> QED
    BY <2>1 DEF TrailInv, TrailsTellTheWrites
<1> QED
  BY <1>4, <1>9, <1>10, <1>11, <1>12, <1>13 DEF TrailInv

\* A write that is stored is new, and what follows it is owed and left.
LEMMA WriteKeeps ==
  ASSUME TrailInv, NEW r \in Requests, NEW s \in Ready(r, "commit"), ~Taken(WriteOf(r, s)),
         GoOn(r, todo[r] \ {s}),
         writes' = writes \cup {WriteOf(r, s)}, owed' = owed \cup Follows(r, s),
         UNCHANGED <<job, tries, answer, failed, log, doubled, broken>>
  PROVE  TrailInv'
<1> DEFINE W == WriteOf(r, s)
           F == Follows(r, s)
<1>1. /\ s \in todo[r] /\ IsCommit(s) /\ ~Announces(s) /\ Running(r) /\ Shaped(job[r].op, todo[r])
      /\ s.item \in Nat /\ s.n \in Nat /\ tries[r] \in Nat
  BY NextIsLeast DEF TrailInv, IsCommit, Announces, RequestsRun
<1>2. /\ DOMAIN todo' = Requests /\ todo'[r] = todo[r] \ {s}
      /\ \A q \in Requests : q # r => todo'[q] = todo[q]
  BY DEF GoOn, TrailInv, RequestsRun
<1>3. \A t \in todo[r] : IsCommit(t) /\ OfOneRow(t, s) => t = s
  BY <1>1 DEF Shaped, OfOneRow
<1>4. Shaped(job[r].op, todo'[r])
  <2>1. ASSUME NEW t \in todo'[r], NEW u \in todo'[r], Beside(t, u), t.of # u.of, OfOneRow(s, u),
               t.n < s.n
        PROVE  FALSE
    <3>1. t \in todo[r] /\ t # s /\ u \in todo[r] /\ t.item = s.item /\ u.of = s.of
      BY <2>1, <1>2 DEF OfOneRow, Beside
    <3>2. job[r].op.style # "bulk"
      BY <3>1, <2>1, <1>1 DEF Shaped
    <3> QED
      BY <3>1, <3>2, <2>1, <1>1, NextIsLeast DEF TrailInv
  <2> QED
    BY <2>1, <1>1, <1>2, LessIsShaped
<1>5. RequestsRun'
  BY <1>1, <1>2, <1>4 DEF TrailInv, RequestsRun, Running
<1>6. /\ \A q \in Requests : todo'[q] \subseteq todo[q]
      /\ \A q \in Requests : \A t \in todo[q] : t # s \/ q # r => t \in todo'[q]
      /\ s \notin todo'[r]
  BY <1>2
<1>7. \A q, t : WriteOf(q, t)' = WriteOf(q, t) /\ Entry(q, t)' = Entry(q, t)
  BY DEF WriteOf, Entry
<1>8. W.by = r /\ W.try = tries[r] /\ W.item = s.item /\ W.of = s.of /\ W = WriteOf(r, W)
  BY WriteFields, SameWrite DEF OfOneRow, Beside
<1>9. /\ Behind(r)' = Behind(r) \cup {W}
      /\ \A q : q # r => Behind(q)' = Behind(q)
  BY <1>8 DEF Behind
<1>10. \A u \in todo[r] : Announces(u) /\ OfOneRow(u, s) => Entry(r, u) \in F
  BY SameWrite DEF Follows, OfOneRow, Beside, Announces, Entry
<1>11. \A e \in F : \E u \in todo[r] : e = Entry(r, u) /\ Announces(u) /\ OfOneRow(u, s)
  BY SameWrite DEF Follows, OfOneRow, Beside, Announces, Entry
<1> HIDE DEF W, F
<1>12. writes' = writes \cup {W} /\ owed' = owed \cup F /\ ~Taken(W)
  BY DEF W, F
<1>13. ASSUME NEW u \in todo'[r], Announces(u), OfOneRow(u, s)
       PROVE  /\ \A c \in todo'[r] : IsCommit(c) /\ Beside(c, u) =>
                   u.n < c.n /\ job[r].op.style # "bulk"
              /\ job[r].op.style # "bulk" => \A t \in todo'[r] : u.item <= t.item
  <2>1. ASSUME NEW c \in todo'[r], IsCommit(c), Beside(c, u)
        PROVE  u.n < c.n /\ job[r].op.style # "bulk"
    <3>1. /\ c \in todo[r] /\ u \in todo[r] /\ c # s /\ c # u
          /\ c.item = s.item /\ u.item = s.item /\ u.of = s.of /\ c.of # s.of
          /\ c.n \in Nat /\ u.n \in Nat
      BY <2>1, <1>1, <1>3, <1>6, <1>13 DEF OfOneRow, Beside, Shaped, IsCommit, Announces
    <3>2. job[r].op.style # "bulk"
      BY <3>1, <2>1, <1>1 DEF Shaped
    <3>3. s.n < c.n
      BY <3>1, <3>2, <1>1, NextIsLeast DEF TrailInv
    <3>4. ~(c.n < u.n)
      <4> SUFFICES ASSUME c.n < u.n PROVE FALSE
        OBVIOUS
      <4>1. PICK d \in todo[r] : IsCommit(d) /\ OfOneRow(d, u) /\ c.n < d.n
        BY <3>1, <2>1, <1>1 DEF Shaped
      <4>2. d = s
        BY <4>1, <3>1, <1>3 DEF OfOneRow, Beside
      <4> QED
        BY <4>1, <4>2, <3>1, <3>3, <1>1
    <3>5. c.n # u.n
      BY <3>1, <2>1, <1>1 DEF Shaped
    <3> QED
      BY <3>1, <3>2, <3>4, <3>5
  <2>2. ASSUME NEW t \in todo'[r], job[r].op.style # "bulk" PROVE u.item <= t.item
    <3>1. t \in todo[r] /\ t # s /\ u.item = s.item
      BY <2>2, <1>6, <1>13 DEF OfOneRow, Beside
    <3> QED
      BY <3>1, <2>2, <1>1, NextIsLeast DEF TrailInv
  <2> QED
    BY <2>1, <2>2
<1>14. ASSUME NEW q \in Requests, NEW u \in todo'[q], Entry(q, u) \in F
       PROVE  q = r /\ Announces(u) /\ OfOneRow(u, s)
  <2>1. PICK v \in todo[r] : Entry(q, u) = Entry(r, v) /\ Announces(v) /\ OfOneRow(v, s)
    BY <1>11, <1>14
  <2> QED
    BY <2>1, <1>6, EntriesDiffer DEF TrailInv

<1>15. WritesAreTried'
  <2>1. \A e \in F : e[1] = W
    BY <1>11, WriteFields, SameWrite DEF W
  <2>2. \A w \in writes' : /\ w.by \in Requests /\ w.try \in Nat /\ w.try <= tries[w.by]
                           /\ w.try = tries[w.by] => w = WriteOf(w.by, w)
    BY <1>1, <1>8, <1>12 DEF TrailInv, WritesAreTried
  <2>3. \A e \in owed' : e[1] \in writes'
    BY <2>1, <1>12 DEF TrailInv, WritesAreTried
  <2> QED
    BY <2>2, <2>3, <1>7 DEF TrailInv, WritesAreTried
<1>16. CommitsAreLeft'
  <2> SUFFICES ASSUME NEW q \in Requests, NEW t \in todo'[q]
      PROVE  /\ IsCommit(t) => WriteOf(q, t) \notin writes'
             /\ t.of # "archive" => \A w \in Behind(q)' : w.item = t.item => w.of # "archive"
    BY <1>7 DEF CommitsAreLeft
  <2>1. t \in todo[q] /\ (t # s \/ q # r)
    BY <1>6
  <2>2. IsCommit(t) => WriteOf(q, t) # W
    BY <2>1, <1>3, <1>8, WriteFields DEF OfOneRow, Beside
  <2>3. t.of # "archive" /\ q = r /\ s.item = t.item => s.of # "archive"
    BY <2>1, <1>1 DEF Shaped, Beside
  <2> QED
    BY <2>1, <2>2, <2>3, <1>8, <1>9, <1>12 DEF TrailInv, CommitsAreLeft
<1>17. AnnouncementsAreLeft'
  <2> SUFFICES ASSUME NEW q \in Requests, NEW u \in todo'[q], Announces(u)
               PROVE  /\ Entry(q, u) \notin log
                      /\ u.of = "read" \/ Entry(q, u) \in owed'
                           \/ \E c \in todo'[q] : IsCommit(c) /\ OfOneRow(c, u) /\ c.n < u.n
    BY <1>7 DEF AnnouncementsAreLeft
  <2>1. /\ u \in todo[q] /\ Entry(q, u) \notin log
        /\ u.of = "read" \/ Entry(q, u) \in owed
             \/ \E c \in todo[q] : IsCommit(c) /\ OfOneRow(c, u) /\ c.n < u.n
    BY <1>6 DEF TrailInv, AnnouncementsAreLeft
  <2>2. ASSUME NEW c \in todo[q], IsCommit(c), OfOneRow(c, u), c.n < u.n
        PROVE  c \in todo'[q] \/ Entry(q, u) \in F
    <3>1. CASE c = s /\ q = r
      <4>1. OfOneRow(u, s)
        BY <3>1, <2>2 DEF OfOneRow, Beside
      <4> QED
        BY <3>1, <4>1, <2>1, <1>10
    <3>2. CASE c # s \/ q # r
      BY <3>2, <1>6
    <3> QED
      BY <3>1, <3>2
  <2> QED
    BY <2>1, <2>2, <1>12
<1>18. OwedIsNext'
  <2> SUFFICES ASSUME NEW q \in Requests, NEW u \in todo'[q], Entry(q, u) \in owed'
      PROVE  /\ Announces(u)
             /\ \A c \in todo'[q] : IsCommit(c) /\ Beside(c, u) =>
                  u.n < c.n /\ job[q].op.style # "bulk"
             /\ job[q].op.style # "bulk" => \A t \in todo'[q] : u.item <= t.item
    BY <1>7 DEF OwedIsNext
  <2>1. CASE Entry(q, u) \in owed
    BY <2>1, <1>6 DEF TrailInv, OwedIsNext
  <2>2. CASE Entry(q, u) \in F
    BY <2>2, <1>13, <1>14
  <2> QED
    BY <2>1, <2>2, <1>12
<1>19. FailedItemsAreUndone'
  <2> SUFFICES ASSUME NEW q \in Requests, answer[q] \in {"none", "ok"}
      PROVE /\ \A t \in todo'[q] : t.item \in failed[q] => t.of = "archive"
            /\ \A w \in Behind(q)' : w.item \in failed[q] /\ w.of = "row" /\ w \notin broken =>
                 \/ \E v \in Behind(q)' : v.item = w.item /\ v.of = "archive"
                 \/ \E c \in todo'[q] : IsCommit(c) /\ c.item = w.item /\ c.of = "archive"
    BY DEF FailedItemsAreUndone
  <2>1. \A t \in todo[q] : t.item \in failed[q] => t.of = "archive"
    BY DEF TrailInv, FailedItemsAreUndone
  <2>2. ASSUME NEW w \in Behind(q)', w.item \in failed[q], w.of = "row", w \notin broken
        PROVE  \/ \E v \in Behind(q)' : v.item = w.item /\ v.of = "archive"
               \/ \E c \in todo'[q] : IsCommit(c) /\ c.item = w.item /\ c.of = "archive"
    <3>1. w \in Behind(q)
      BY <2>1, <2>2, <1>1, <1>8, <1>9
    <3>2. CASE \E v \in Behind(q) : v.item = w.item /\ v.of = "archive"
      BY <3>2, <1>9
    <3>3. CASE \E c \in todo[q] : IsCommit(c) /\ c.item = w.item /\ c.of = "archive"
      BY <3>3, <1>6, <1>8, <1>9
    <3> QED
      BY <3>1, <3>2, <3>3, <2>2 DEF TrailInv, FailedItemsAreUndone
  <2> QED
    BY <2>1, <2>2, <1>6
<1>20. TrailsTellTheWrites'
  <2>1. \A v, w \in writes' : v.key = w.key /\ v.key # NoKey => v = w
    BY <1>12 DEF TrailInv, TrailsTellTheWrites, Taken
  <2>2. ASSUME NEW x \in owed' \ log PROVE x \in Pending' \/ x[1] \in broken
    <3>1. ASSUME NEW q \in Requests, NEW t \in todo[q], Announces(t), x = Entry(q, t)
          PROVE  x \in Pending'
      <4>1. t \in todo'[q]
        BY <3>1, <1>1, <1>6
      <4> QED
        BY <4>1, <3>1, <1>7 DEF Pending
    <3>2. CASE x \in owed /\ x \in Pending
      <4>1. PICK q \in Requests : \E t \in todo[q] : x = Entry(q, t)
        BY <3>2, PendingIs
      <4>2. PICK t \in todo[q] : x = Entry(q, t)
        BY <4>1
      <4>3. Announces(t)
        BY <3>2, <4>2 DEF TrailInv, OwedIsNext
      <4> QED
        BY <4>2, <4>3, <3>1
    <3>3. CASE x \in F
      BY <3>1, <3>3, <1>11
    <3> QED
      BY <2>2, <1>12, <3>2, <3>3 DEF TrailInv, TrailsTellTheWrites
  <2> QED
    BY <2>1, <2>2, <1>12 DEF TrailInv, TrailsTellTheWrites
<1> QED
  BY <1>5, <1>15, <1>16, <1>17, <1>18, <1>19, <1>20 DEF TrailInv

\* What is owed is behind a request.
LEMMA OwedIsBehind ==
  ASSUME TrailInv, NEW r \in Requests, NEW u \in todo[r], Entry(r, u) \in owed
  PROVE  WriteOf(r, u) \in Behind(r)
BY WriteFields DEF TrailInv, WritesAreTried, Behind

\* A request that stops in the middle breaks off all that it owes.
LEMMA StopKeeps ==
  ASSUME TrailInv, NEW r \in Requests, GoOn(r, {}),
         NEW a \in {"error", "lost"}, answer' = [answer EXCEPT ![r] = a],
         broken \subseteq broken',
         \A u \in todo[r] : Entry(r, u) \in owed => WriteOf(r, u) \in broken',
         UNCHANGED <<job, tries, failed, writes, owed, log, doubled>>
  PROVE  TrailInv'
<1>1. /\ DOMAIN todo' = Requests /\ todo'[r] = {} /\ DOMAIN answer' = Requests /\ answer'[r] = a
      /\ \A q \in Requests : q # r => todo'[q] = todo[q] /\ answer'[q] = answer[q]
  BY DEF GoOn, TrailInv, RequestsRun
<1>2. RequestsRun'
  BY <1>1 DEF TrailInv, RequestsRun, Running
<1>3. \A q, t : WriteOf(q, t)' = WriteOf(q, t) /\ Entry(q, t)' = Entry(q, t)
  BY DEF WriteOf, Entry
<1>4. \A q : Behind(q)' = Behind(q)
  BY DEF Behind
<1>5. WritesAreTried'
  BY <1>3 DEF TrailInv, WritesAreTried
<1>6. CommitsAreLeft' /\ AnnouncementsAreLeft' /\ OwedIsNext'
  BY <1>1, <1>3, <1>4 DEF TrailInv, CommitsAreLeft, AnnouncementsAreLeft, OwedIsNext
<1>7. FailedItemsAreUndone'
  <2> SUFFICES ASSUME NEW q \in Requests, answer'[q] \in {"none", "ok"}
      PROVE /\ \A t \in todo'[q] : t.item \in failed[q] => t.of = "archive"
            /\ \A w \in Behind(q) : w.item \in failed[q] /\ w.of = "row" /\ w \notin broken' =>
                 \/ \E v \in Behind(q) : v.item = w.item /\ v.of = "archive"
                 \/ \E c \in todo'[q] : IsCommit(c) /\ c.item = w.item /\ c.of = "archive"
    BY <1>4 DEF FailedItemsAreUndone
  <2>1. q # r
    BY <1>1
  <2> QED
    BY <1>1, <2>1 DEF TrailInv, FailedItemsAreUndone
<1>8. TrailsTellTheWrites'
  <2>1. ASSUME NEW x \in owed \ log PROVE x \in Pending' \/ x[1] \in broken'
    <3>1. CASE x \in Pending
      <4>1. PICK q \in Requests : \E t \in todo[q] : x = Entry(q, t)
        BY <3>1, PendingIs
      <4>2. PICK t \in todo[q] : x = Entry(q, t)
        BY <4>1
      <4>3. CASE q = r
        BY <4>2, <4>3, <2>1, WriteFields
      <4>4. CASE q # r
        BY <4>2, <4>4, <1>1, <1>3 DEF Pending
      <4> QED
        BY <4>3, <4>4
    <3> QED
      BY <2>1, <3>1 DEF TrailInv, TrailsTellTheWrites
  <2> QED
    BY <2>1 DEF TrailInv, TrailsTellTheWrites
<1> QED
  BY <1>2, <1>5, <1>6, <1>7, <1>8 DEF TrailInv

\* The process dies.
LEMMA DieKeeps ==
  ASSUME TrailInv, NEW r \in Requests, Die(r)
  PROVE  TrailInv'
BY OwedIsBehind, StopKeeps DEF Die

\* A request is answered.
LEMMA AnswerKeeps ==
  ASSUME TrailInv, NEW r \in Requests, Answer(r)
  PROVE  TrailInv'
<1>1. /\ Running(r) /\ todo[r] = {} /\ answer' = [answer EXCEPT ![r] = "ok"]
      /\ UNCHANGED <<job, todo, tries, failed, writes, owed, log, doubled, broken>>
  BY DEF Answer
<1>2. /\ DOMAIN answer' = Requests /\ answer'[r] = "ok"
      /\ \A q \in Requests : q # r => answer'[q] = answer[q]
  BY <1>1 DEF TrailInv, RequestsRun
<1>3. RequestsRun'
  BY <1>1, <1>2 DEF TrailInv, RequestsRun, Running
<1>4. \A q, t : WriteOf(q, t)' = WriteOf(q, t) /\ Entry(q, t)' = Entry(q, t)
  BY <1>1 DEF WriteOf, Entry
<1>5. \A q : Behind(q)' = Behind(q)
  BY <1>1 DEF Behind
<1>6. CommitsAreLeft' /\ AnnouncementsAreLeft' /\ OwedIsNext'
  BY <1>1, <1>4, <1>5 DEF TrailInv, CommitsAreLeft, AnnouncementsAreLeft, OwedIsNext
<1>7. WritesAreTried'
  BY <1>1, <1>4 DEF TrailInv, WritesAreTried
<1>8. FailedItemsAreUndone'
  <2>1. \A q \in Requests : answer'[q] \in {"none", "ok"} => answer[q] \in {"none", "ok"}
    BY <1>1, <1>2 DEF Running
  <2> QED
    BY <2>1, <1>1, <1>5 DEF TrailInv, FailedItemsAreUndone
<1>9. TrailsTellTheWrites'
  <2>1. Pending' = Pending
    BY <1>1, <1>4 DEF Pending
  <2> QED
    BY <2>1, <1>1 DEF TrailInv, TrailsTellTheWrites
<1> QED
  BY <1>3, <1>6, <1>7, <1>8, <1>9 DEF TrailInv

\* What an item that fails owes breaks off, and so does its row if it was stored.
LEMMA FailBreaks ==
  ASSUME TrailInv, NEW r \in Requests, NEW does, NEW s \in Ready(r, does), GoesOn(r, s),
         NEW t \in todo[r], t.item = s.item, Entry(r, t) \in owed
  PROVE  /\ WriteOf(r, t) \in Behind(r) /\ s.of \in {t.of, "archive"}
         /\ s.does # "commit" \/ s.of = "archive"
<1>1. WriteOf(r, t) \in Behind(r)
  BY OwedIsBehind
<1>2. s \in todo[r] /\ s.does = does /\ Shaped(job[r].op, todo[r]) /\ s.n \in Nat /\ t.n \in Nat
  BY NextIsLeast DEF TrailInv
<1>3. s.does # "commit"
  <2>1. s.does = "commit" => FALSE
    BY <1>2, NothingOwedBeforeCommit
  <2> QED
    BY <2>1
<1>4. job[r].op.style # "bulk"
  BY <1>3 DEF GoesOn
<1>5. ASSUME s.of # t.of PROVE FALSE
  <2>1. s # t /\ s.n < t.n
    BY <1>2, <1>4, <1>5, NextIsLeast DEF TrailInv
  <2>2. PICK d \in todo[r] : IsCommit(d) /\ OfOneRow(d, t) /\ d.n <= t.n
    BY <1>2, <1>5, <2>1 DEF Shaped, Beside
  <2>3. t.n < d.n
    BY <2>2 DEF TrailInv, OwedIsNext, OfOneRow
  <2>4. d.n \in Nat
    BY <2>2, <1>2 DEF Shaped
  <2> QED
    BY <1>2, <2>2, <2>3, <2>4
<1> QED
  BY <1>1, <1>3, <1>5

\* An item that fails is undone, and the rest goes on.
LEMMA GoesOnKeeps ==
  ASSUME TrailInv, NEW r \in Requests, NEW does, NEW s \in Ready(r, does),
         GoesOn(r, s), Fail(r, s)
  PROVE  TrailInv'
<1> DEFINE U == Undone(s)
           B == {w \in Behind(r) : /\ w.item = s.item /\ s.of \in {w.of, "archive"}
                                   /\ s.does # "commit" \/ s.of = "archive"}
<1>1. /\ s \in todo[r] /\ Running(r) /\ Shaped(job[r].op, todo[r])
  BY NextIsLeast DEF TrailInv
<1>2. /\ todo' = [todo EXCEPT ![r] = Without(r, s.item) \cup Numbered(s.item, s.undo)]
      /\ failed' = [failed EXCEPT ![r] = @ \cup {s.item}]
      /\ UNCHANGED <<answer, job, tries, writes, owed, log, doubled>>
  BY DEF Fail, GoOn
<1>3. broken' = broken \cup B
  BY DEF Fail
<1>4. /\ DOMAIN todo' = Requests /\ todo'[r] = Rest(todo[r], s) \cup U
      /\ DOMAIN failed' = Requests /\ failed'[r] = failed[r] \cup {s.item}
      /\ \A q \in Requests : q # r => todo'[q] = todo[q] /\ failed'[q] = failed[q]
  BY <1>2 DEF TrailInv, RequestsRun, Without, Rest, Undone
<1>5. /\ Shaped(job[r].op, todo'[r])
      /\ \A u \in U :
           /\ u.item = s.item /\ u.of = "archive" /\ s.of # "archive"
           /\ Announces(u) => \E c \in U : IsCommit(c) /\ OfOneRow(c, u) /\ c.n < u.n
      /\ Archives(s.undo) => \E c \in U : IsCommit(c)
  <2> HIDE <1>2, <1>3
  <2> QED
    BY <1>1, <1>4, UndoIsShaped
<1> HIDE DEF U
<1>6. RequestsRun'
  BY <1>1, <1>2, <1>4, <1>5 DEF TrailInv, RequestsRun, Running
<1>7. \A q, t : WriteOf(q, t)' = WriteOf(q, t) /\ Entry(q, t)' = Entry(q, t)
  BY <1>2 DEF WriteOf, Entry
<1>8. \A q : Behind(q)' = Behind(q)
  BY <1>2 DEF Behind
<1>9. \A t : t \in todo'[r] <=> (t \in todo[r] /\ t.item # s.item) \/ t \in U
  BY <1>4 DEF Rest
<1>10. ASSUME NEW u \in U
       PROVE  WriteOf(r, u) \notin writes /\ Entry(r, u) \notin owed /\ Entry(r, u) \notin log
  <2>1. u.item = s.item /\ u.of = "archive" /\ s.of # "archive"
    BY <1>5
  <2>2. \A w \in Behind(r) : w.item = s.item => w.of # "archive"
    BY <1>1, <2>1 DEF TrailInv, CommitsAreLeft
  <2>3. WriteOf(r, u) \notin writes
    BY <2>1, <2>2, WriteFields DEF Behind
  <2>4. Entry(r, u) \notin owed
    BY <2>3, WriteFields DEF TrailInv, WritesAreTried
  <2>5. Entry(r, u)[1].of # "read"
    BY <2>1, WriteFields
  <2> QED
    BY <2>3, <2>4, <2>5 DEF TrailInv, TrailsTellTheWrites
<1>11. WritesAreTried'
  BY <1>2, <1>7 DEF TrailInv, WritesAreTried
<1>12. CommitsAreLeft'
  <2> SUFFICES ASSUME NEW q \in Requests, NEW t \in todo'[q]
      PROVE  /\ IsCommit(t) => WriteOf(q, t) \notin writes
             /\ t.of # "archive" => \A w \in Behind(q) : w.item = t.item => w.of # "archive"
    BY <1>2, <1>7, <1>8 DEF CommitsAreLeft
  <2>1. CASE t \in todo[q]
    BY <2>1 DEF TrailInv, CommitsAreLeft
  <2>2. CASE q = r /\ t \in U
    BY <2>2, <1>5, <1>10
  <2> QED
    BY <2>1, <2>2, <1>4, <1>9
<1>13. AnnouncementsAreLeft'
  <2> SUFFICES ASSUME NEW q \in Requests, NEW u \in todo'[q], Announces(u)
               PROVE  /\ Entry(q, u) \notin log
                      /\ u.of = "read" \/ Entry(q, u) \in owed
                           \/ \E c \in todo'[q] : IsCommit(c) /\ OfOneRow(c, u) /\ c.n < u.n
    BY <1>2, <1>7 DEF AnnouncementsAreLeft
  <2>1. CASE u \in todo[q] /\ (q # r \/ u.item # s.item)
    <3>1. \A c \in todo[q] : OfOneRow(c, u) => c \in todo'[q]
      BY <2>1, <1>4, <1>9 DEF OfOneRow, Beside
    <3> QED
      BY <2>1, <3>1 DEF TrailInv, AnnouncementsAreLeft
  <2>2. CASE q = r /\ u \in U
    BY <2>2, <1>5, <1>9, <1>10
  <2> QED
    BY <2>1, <2>2, <1>4, <1>9
<1>14. OwedIsNext'
  <2> SUFFICES ASSUME NEW q \in Requests, NEW u \in todo'[q], Entry(q, u) \in owed
      PROVE  /\ Announces(u)
             /\ \A c \in todo'[q] : IsCommit(c) /\ Beside(c, u) =>
                  u.n < c.n /\ job[q].op.style # "bulk"
             /\ job[q].op.style # "bulk" => \A t \in todo'[q] : u.item <= t.item
    BY <1>2, <1>7 DEF OwedIsNext
  <2>1. CASE q # r
    BY <2>1, <1>4 DEF TrailInv, OwedIsNext
  <2>2. CASE q = r
    <3>1. u \in todo[r] /\ u.item # s.item
      BY <2>2, <1>9, <1>10
    <3>2. \A t \in todo'[r] : t \in todo[r] \/ t.item = s.item
      BY <1>5, <1>9
    <3>3. \A c \in todo'[r] : Beside(c, u) => c \in todo[r]
      BY <3>1, <3>2 DEF Beside
    <3> QED
      BY <2>2, <3>1, <3>2, <3>3, <1>1 DEF TrailInv, OwedIsNext
  <2> QED
    BY <2>1, <2>2
<1>15. ASSUME NEW w \in Behind(r), w.item = s.item, w.of = "row", w \notin B
       PROVE  \E c \in todo'[r] : IsCommit(c) /\ c.item = w.item /\ c.of = "archive"
  <2>1. s.of # "archive"
    BY <1>15
  <2>2. CASE Archives(s.undo)
    BY <2>2, <1>5, <1>9, <1>15
  <2>3. CASE ~Archives(s.undo)
    <3>1. job[r].op.style # "one"
      BY DEF GoesOn
    <3>2. s.of = "row"
      BY <2>1, <2>3, <3>1, <1>1 DEF Shaped
    <3>3. s.does = "commit"
      BY <3>2, <1>15
    <3>4. WriteOf(r, s) \notin writes
      BY <3>3, <1>1 DEF TrailInv, CommitsAreLeft, IsCommit
    <3>5. w \in writes /\ w = WriteOf(r, w)
      BY <1>15 DEF TrailInv, WritesAreTried, Behind
    <3>6. WriteOf(r, w) = WriteOf(r, s)
      BY <3>2, <1>15, SameWrite DEF OfOneRow, Beside
    <3> QED
      BY <3>4, <3>5, <3>6
  <2> QED
    BY <2>2, <2>3
<1>16. \A w \in B : w \in broken'
  BY <1>3
<1> HIDE DEF B
<1>17. FailedItemsAreUndone'
  <2> SUFFICES ASSUME NEW q \in Requests, answer[q] \in {"none", "ok"}
      PROVE /\ \A t \in todo'[q] : t.item \in failed'[q] => t.of = "archive"
            /\ \A w \in Behind(q) : w.item \in failed'[q] /\ w.of = "row" /\ w \notin broken' =>
                 \/ \E v \in Behind(q) : v.item = w.item /\ v.of = "archive"
                 \/ \E c \in todo'[q] : IsCommit(c) /\ c.item = w.item /\ c.of = "archive"
    BY <1>2, <1>8 DEF FailedItemsAreUndone
  <2>1. \A w : w \notin broken' => w \notin broken
    BY <1>3
  <2>2. CASE q # r
    BY <2>1, <2>2, <1>4 DEF TrailInv, FailedItemsAreUndone
  <2>3. CASE q = r
    <3>1. ASSUME NEW t \in todo'[r], t.item \in failed'[r] PROVE t.of = "archive"
      BY <3>1, <2>3, <1>4, <1>5, <1>9 DEF TrailInv, FailedItemsAreUndone
    <3>2. ASSUME NEW w \in Behind(r), w.item \in failed'[r], w.of = "row", w \notin broken'
          PROVE  \/ \E v \in Behind(r) : v.item = w.item /\ v.of = "archive"
                 \/ \E c \in todo'[r] : IsCommit(c) /\ c.item = w.item /\ c.of = "archive"
      <4>1. CASE w.item = s.item
        BY <3>2, <4>1, <1>15, <1>16
      <4>2. CASE w.item # s.item
        <5>1. w.item \in failed[r] /\ w \notin broken
          BY <3>2, <4>2, <2>1, <1>4
        <5> QED
          BY <5>1, <3>2, <4>2, <2>3, <1>9 DEF TrailInv, FailedItemsAreUndone
      <4> QED
        BY <4>1, <4>2
    <3> QED
      BY <2>3, <3>1, <3>2
  <2> QED
    BY <2>2, <2>3
<1>18. TrailsTellTheWrites'
  <2>1. ASSUME NEW x \in owed \ log PROVE x \in Pending' \/ x[1] \in broken'
    <3>1. CASE x \in Pending
      <4>1. PICK q \in Requests : \E t \in todo[q] : x = Entry(q, t)
        BY <3>1, PendingIs
      <4>2. PICK t \in todo[q] : x = Entry(q, t)
        BY <4>1
      <4>3. CASE q # r \/ t.item # s.item
        <5>1. t \in todo'[q]
          BY <4>3, <1>4, <1>9
        <5> QED
          BY <4>2, <5>1, <1>7 DEF Pending
      <4>4. CASE q = r /\ t.item = s.item
        <5>1. WriteOf(r, t) \in B
          BY <4>2, <4>4, <2>1, FailBreaks, WriteFields DEF B
        <5> QED
          BY <5>1, <4>2, <4>4, <1>16, WriteFields
      <4> QED
        BY <4>3, <4>4
    <3> QED
      BY <2>1, <3>1, <1>3 DEF TrailInv, TrailsTellTheWrites
  <2> QED
    BY <2>1, <1>2 DEF TrailInv, TrailsTellTheWrites
<1> QED
  BY <1>6, <1>11, <1>12, <1>13, <1>14, <1>17, <1>18 DEF TrailInv

\* An error in the middle.
LEMMA FailKeeps ==
  ASSUME TrailInv, NEW r \in Requests, NEW does, NEW s \in Ready(r, does), Fail(r, s)
  PROVE  TrailInv'
<1>1. CASE GoesOn(r, s)
  BY <1>1, GoesOnKeeps
<1>2. CASE ~GoesOn(r, s)
  <2>1. ASSUME NEW u \in todo[r], Entry(r, u) \in owed PROVE WriteOf(r, u) \in broken'
    <3>1. s.does # "commit"
      <4> SUFFICES ASSUME s.does = "commit" PROVE FALSE
        OBVIOUS
      <4>1. s \in Ready(r, "commit")
        BY NextIsLeast DEF TrailInv
      <4> QED
        BY <2>1, <4>1, <1>2, NothingOwedBeforeCommit DEF GoesOn
    <3> QED
      BY <2>1, <3>1, <1>2, OwedIsBehind DEF Fail
  <2>2. /\ GoOn(r, {}) /\ answer' = [answer EXCEPT ![r] = "error"] /\ broken \subseteq broken'
        /\ UNCHANGED <<job, tries, failed, writes, owed, log, doubled>>
    BY <1>2 DEF Fail
  <2> QED
    BY <2>1, <2>2, StopKeeps
<1> QED
  BY <1>1, <1>2

\* The transaction of the repository.
LEMMA CommitKeeps ==
  ASSUME TrailInv, NEW r \in Requests, CommitWrite(r)
  PROVE  TrailInv'
<1>1. PICK s \in Ready(r, "commit") :
        IF Taken(WriteOf(r, s))
          THEN GoOn(r, Without(r, s.item)) /\ UNCHANGED <<writes, owed>>
          ELSE /\ GoOn(r, todo[r] \ {s})
               /\ writes' = writes \cup {WriteOf(r, s)}
               /\ owed' = owed \cup Follows(r, s)
  BY DEF CommitWrite
<1>2. UNCHANGED <<job, tries, answer, failed, log, doubled, broken>>
  BY DEF CommitWrite
<1> QED
  BY <1>1, <1>2, ReplayKeeps, WriteKeeps

-----------------------------------------------------------------------------
(* The trails, throughout.                                                 *)

\* At first nothing is told, and what is owed is left.
LEMMA TrailInitially ==
  ASSUME NEW jobs, NEW left, TrailInit(jobs, left),
         \A r \in Requests : jobs[r] # NoJob => jobs[r].op \in Operations /\ jobs[r].items \in Nat,
         \A r \in Requests : left[r] # {} =>
           /\ jobs[r] # NoJob /\ jobs[r].key = NoKey
           /\ \A t \in left[r] :
                /\ t = NumberedStep(Step("emit", t.what), 1, t.n) /\ t.n \in Nat
                /\ left[r] = {t}
  PROVE  TrailInv
<1> DEFINE Stored(r) == [by |-> r, try |-> MaxTries, item |-> 1, of |-> "row", key |-> NoKey]
           Underway == {r \in Requests : left[r] # {}}
<1>1. /\ job = [r \in Requests |-> jobs[r]]
      /\ todo = [r \in Requests |-> left[r]]
      /\ tries = [r \in Requests |-> IF r \in Underway THEN MaxTries ELSE 0]
      /\ answer = [r \in Requests |-> "none"]
      /\ failed = [r \in Requests |-> {}]
      /\ writes = {Stored(r) : r \in Underway}
      /\ owed = UNION {{<<Stored(r), s.n>> : s \in left[r]} : r \in Underway}
      /\ log = {} /\ doubled = {} /\ broken = {}
  BY DEF TrailInit
<1>2. MaxTries \in Nat /\ MaxTries > 0
  BY TrailAssumption
<1>3. \A r \in Requests : /\ job[r] = jobs[r] /\ todo[r] = left[r] /\ answer[r] = "none"
                          /\ tries[r] = IF left[r] # {} THEN MaxTries ELSE 0
  BY <1>1
<1>4. ASSUME NEW r \in Requests, NEW t \in todo[r]
      PROVE  /\ t.does = "emit" /\ t.of = "row" /\ t.item = 1 /\ t.undo = <<>> /\ t.n \in Nat
             /\ todo[r] = {t} /\ left[r] # {} /\ job[r] # NoJob /\ job[r].key = NoKey
             /\ tries[r] = MaxTries
  BY <1>3, <1>4 DEF NumberedStep, Step
<1>5. \A r \in Requests : \A t \in todo[r] : WriteOf(r, t) = Stored(r) /\ Entry(r, t) = <<Stored(r), t.n>>
  BY <1>4 DEF WriteOf, Entry
<1>6. \A e \in owed : \E r \in Requests : \E t \in todo[r] : e = Entry(r, t)
  BY <1>1, <1>3, <1>5
<1>7. \A r \in Requests : \A t \in todo[r] : Entry(r, t) \in owed
  BY <1>1, <1>3, <1>4, <1>5
<1>8. ASSUME NEW r \in Requests, NEW t \in todo[r]
      PROVE  Shaped(job[r].op, todo[r])
  <2>1. DOMAIN t.undo = {}
    BY <1>4, <1>8
  <2>2. SoundUndo(job[r].op, t.undo)
    BY <2>1 DEF SoundUndo, SoundSteps
  <2> QED
    BY <2>2, <1>4, <1>8 DEF Shaped, Kinds, IsCommit
<1>9. RequestsRun
  <2>1. /\ DOMAIN job = Requests /\ DOMAIN todo = Requests /\ DOMAIN tries = Requests
        /\ DOMAIN answer = Requests /\ DOMAIN failed = Requests
    BY <1>1
  <2>2. \A r \in Requests : tries[r] \in Nat
                            /\ (job[r] # NoJob => job[r].op \in Operations /\ job[r].items \in Nat)
    BY <1>2, <1>3
  <2>3. \A r \in Requests : todo[r] # {} =>
          Running(r) /\ job[r] # NoJob /\ Shaped(job[r].op, todo[r])
    BY <1>2, <1>3, <1>4, <1>8 DEF Running
  <2> QED
    BY <2>1, <2>2, <2>3 DEF RequestsRun
<1>10. ASSUME NEW r \in Requests, left[r] # {}
       PROVE  Stored(r) = WriteOf(r, Stored(r)) /\ tries[r] = MaxTries
  BY <1>3, <1>4, <1>10 DEF WriteOf
<1>11. WritesAreTried
  <2>1. ASSUME NEW w \in writes
        PROVE  /\ w.by \in Requests /\ w.try \in Nat /\ w.try <= tries[w.by]
               /\ w.try = tries[w.by] => w = WriteOf(w.by, w)
    <3>1. PICK r \in Requests : left[r] # {} /\ w = Stored(r)
      BY <1>1
    <3> QED
      BY <3>1, <1>2, <1>10
  <2>2. \A e \in owed : e[1] \in writes
    BY <1>1
  <2> QED
    BY <2>1, <2>2, <1>1 DEF WritesAreTried
<1>12. CommitsAreLeft /\ AnnouncementsAreLeft /\ OwedIsNext
  <2>1. ASSUME NEW r \in Requests, NEW t \in todo[r]
        PROVE  /\ ~IsCommit(t) /\ Announces(t) /\ Entry(r, t) \in owed /\ Entry(r, t) \notin log
               /\ \A c \in todo[r] : c = t
               /\ t.item <= t.item
               /\ \A w \in writes : w.of # "archive"
    <3>1. \A w \in writes : w.of = "row"
      BY <1>1
    <3>2. t.does = "emit" /\ t.item = 1 /\ todo[r] = {t}
      BY <2>1, <1>4
    <3>3. Entry(r, t) \in owed /\ log = {}
      BY <2>1, <1>1, <1>7
    <3> QED
      BY <3>1, <3>2, <3>3 DEF IsCommit, Announces
  <2>2. CommitsAreLeft
    BY <2>1 DEF CommitsAreLeft, Behind
  <2>3. AnnouncementsAreLeft
    BY <2>1 DEF AnnouncementsAreLeft
  <2>4. OwedIsNext
    <3> SUFFICES ASSUME NEW r \in Requests, NEW u \in todo[r]
                 PROVE  /\ Announces(u)
                        /\ \A c \in todo[r] : ~IsCommit(c) /\ u.item <= c.item
      BY DEF OwedIsNext
    <3> QED
      BY <2>1
  <2> QED
    BY <2>2, <2>3, <2>4
<1>13. FailedItemsAreUndone
  BY <1>1 DEF FailedItemsAreUndone
<1>14. TrailsTellTheWrites
  <2>1. \A v, w \in writes : v.key = w.key /\ v.key # NoKey => v = w
    BY <1>1
  <2>2. \A e \in owed : e \in Pending
    BY <1>6 DEF Pending
  <2> QED
    BY <1>1, <2>1, <2>2 DEF TrailsTellTheWrites
<1> QED
  BY <1>9, <1>11, <1>12, <1>13, <1>14 DEF TrailInv

\* What does not touch the trails keeps them.
LEMMA TrailStays ==
  ASSUME TrailInv, UNCHANGED trailVars
  PROVE  TrailInv'
<1>1. UNCHANGED <<job, todo, tries, answer, failed, writes, owed, log, doubled, broken>>
  BY DEF trailVars
<1>2. \A q, t : WriteOf(q, t)' = WriteOf(q, t) /\ Entry(q, t)' = Entry(q, t)
  BY <1>1 DEF WriteOf, Entry
<1>3. \A q : Behind(q)' = Behind(q) /\ Running(q)' = Running(q)
  BY <1>1 DEF Behind, Running
<1>4. Pending' = Pending
  BY <1>1, <1>2 DEF Pending
<1>5. RequestsRun' /\ WritesAreTried' /\ CommitsAreLeft'
  BY <1>1, <1>2, <1>3 DEF TrailInv, RequestsRun, WritesAreTried, CommitsAreLeft
<1>6. AnnouncementsAreLeft' /\ OwedIsNext' /\ FailedItemsAreUndone'
  BY <1>1, <1>2, <1>3 DEF TrailInv, AnnouncementsAreLeft, OwedIsNext, FailedItemsAreUndone
<1>7. TrailsTellTheWrites'
  BY <1>1, <1>4 DEF TrailInv, TrailsTellTheWrites
<1> QED
  BY <1>5, <1>6, <1>7 DEF TrailInv

\* Every step keeps the trails.
LEMMA TrailSteps ==
  ASSUME TrailInv, [Next]_vars
  PROVE  TrailInv'
<1>1. ASSUME NEW r \in Requests, Request(r) PROVE TrailInv'
  <2>1. CASE SendRequest(r)
    BY <2>1, SendKeeps
  <2>2. CASE CommitWrite(r)
    BY <2>2, CommitKeeps
  <2>3. CASE Refuse(r) \/ LoseAudit(r) \/ CarrierFails(r)
    BY <2>3, FailKeeps DEF Refuse, LoseAudit, CarrierFails
  <2>4. CASE RecordAudit(r)
    BY <2>4, RecordKeeps DEF RecordAudit
  <2>5. CASE CallOut(r)
    BY <2>5, CallOutKeeps
  <2>6. CASE Answer(r)
    BY <2>6, AnswerKeeps
  <2> QED
    BY <1>1, <2>1, <2>2, <2>3, <2>4, <2>5, <2>6 DEF Request
<1>2. ASSUME NEW r \in Requests, PublishToHandlers(r) PROVE TrailInv'
  BY <1>2, RecordKeeps DEF PublishToHandlers, PublishEvent
<1>3. ASSUME NEW r \in Requests, DieWithHandler(r) PROVE TrailInv'
  BY <1>3, DieKeeps DEF DieWithHandler
<1>4. ASSUME NEW e \in Events, Dispatch(e) \/ Swallow(e) PROVE UNCHANGED trailVars
  BY <1>4 DEF Dispatch, FindRecipient, IsChannelEnabled, CreateNotification,
    ListActiveSubscriptions, Enqueue, Swallow, HandlerLeaves
<1>5. ASSUME NEW w \in Workers, Work(w) \/ LoseMark(w) \/ GiveUp(w) PROVE UNCHANGED trailVars
  BY <1>5 DEF Work, ClaimBatch, ReadDetails, Send, MarkProcessed, DeleteSubscriptionById,
    MarkFailed, EndTick, LoseMark, GiveUp, WorkerLeaves
<1>6. ASSUME NEW k \in Keys, FallDue(k) PROVE UNCHANGED trailVars
  BY <1>6 DEF FallDue
<1>7. ASSUME NEW call, User(call) PROVE UNCHANGED trailVars
  BY <1>7 DEF User, RegisterSubscription, RemoveSubscription, UpdatePreferences, MarkRead,
    StartReading, UserLeaves
<1>8. ReadPage => UNCHANGED trailVars
  BY DEF ReadPage, UserLeaves
<1>9. UNCHANGED vars => UNCHANGED trailVars
  BY DEF vars
<1> QED
  BY <1>1, <1>2, <1>3, <1>4, <1>5, <1>6, <1>7, <1>8, <1>9, TrailStays DEF Next

\* The trail of every request follows its writes, throughout.
THEOREM TrailInvariant == Spec => []TrailInv
<1>1. Init => TrailInv
  <2> SUFFICES ASSUME Init PROVE TrailInv
    OBVIOUS
  <2>1. PICK s \in Scenarios : TrailInit(s.jobs, s.left)
    BY DEF Init
  <2>2. SoundJobs(s) /\ SoundLeft(s)
    BY ScenarioAssumption
  <2> QED
    BY <2>1, <2>2, TrailInitially DEF SoundJobs, SoundLeft
<1>2. TrailInv /\ [Next]_vars => TrailInv'
  BY TrailSteps
<1> QED
  BY <1>1, <1>2, PTL DEF Spec

\* Audit rows and events tell of writes, each once; what is missing broke off.
THEOREM TrailsTell == Spec => []TrailsTellTheWrites
<1>1. TrailInv => TrailsTellTheWrites
  BY DEF TrailInv
<1> QED
  BY <1>1, TrailInvariant, PTL

\* Of an item that is reported as failed nothing is left but an archived row,
\* unless it broke off after the write.
THEOREM FailedLeaveNothing == Spec => []FailedItemsLeaveNothing
<1>1. TrailInv => FailedItemsLeaveNothing
  <2> SUFFICES ASSUME TrailInv, NEW r \in Requests, NEW w \in Behind(r), answer[r] = "ok",
                      w.item \in failed[r], w.of = "row", w \notin broken
               PROVE  \E v \in Behind(r) : v.item = w.item /\ v.of = "archive"
    BY DEF FailedItemsLeaveNothing
  <2>1. todo[r] = {}
    BY DEF TrailInv, RequestsRun, Running
  <2> QED
    BY <2>1 DEF TrailInv, FailedItemsAreUndone
<1> QED
  BY <1>1, TrailInvariant, PTL

-----------------------------------------------------------------------------
(* Pages.                                                                  *)

\* A finite set has a least element in a transitive, irreflexive relation.
LEMMA LeastExists ==
  ASSUME NEW S, IsFiniteSet(S), S # {}, NEW R,
         \A x \in S : <<x, x>> \notin R,
         \A x, y, z \in S : <<x, y>> \in R /\ <<y, z>> \in R => <<x, z>> \in R
  PROVE  \E x \in S : \A y \in S : <<y, x>> \notin R
<1> DEFINE Below(x) == {y \in S : <<y, x>> \in R}
           F == {Below(x) : x \in S}
<1>1. F \subseteq SUBSET S /\ F # {}
  <2>1. \A x \in S : Below(x) \subseteq S
    OBVIOUS
  <2>2. PICK x \in S : TRUE
    OBVIOUS
  <2>3. Below(x) \in F
    OBVIOUS
  <2> HIDE DEF Below
  <2> QED
    BY <2>1, <2>3
<1>2. PICK T \in F : \A U \in F : U \subseteq T => U = T
  <2> HIDE DEF F
  <2> QED
    BY <1>1, SmallestSubset
<1>3. PICK x \in S : T = Below(x)
  OBVIOUS
<1>4. ASSUME NEW y \in S, <<y, x>> \in R PROVE FALSE
  <2>1. Below(y) \subseteq Below(x)
    <3> SUFFICES ASSUME NEW z \in S, <<z, y>> \in R PROVE <<z, x>> \in R
      OBVIOUS
    <3> QED
      BY <1>4
  <2>2. Below(y) \in F
    OBVIOUS
  <2>3. Below(y) = Below(x)
    <3> HIDE DEF F, Below
    <3> QED
      BY <2>1, <2>2, <1>2, <1>3
  <2>4. y \in Below(y)
    BY <1>4, <2>3
  <2> QED
    BY <2>4
<1> QED
  BY <1>4

\* Rows that can be paged: numbered, and sorted by numbers.
Rows(rows) ==
  /\ IsFiniteSet(rows)
  /\ \A r \in rows : r.id \in Int /\ r.key \in Int
  /\ \A q, r \in rows : q.id = r.id => q = r

\* Newest first, rows are in a strict order.
LEMMA NewestOrders ==
  ASSUME NEW rows, Rows(rows)
  PROVE  /\ \A r \in rows : ~Precedes(Newest, r, r)
         /\ \A q, r \in rows : q # r => Precedes(Newest, q, r) \/ Precedes(Newest, r, q)
         /\ \A p, q, r \in rows :
              Precedes(Newest, p, q) /\ Precedes(Newest, q, r) => Precedes(Newest, p, r)
         /\ \A c \in [p: Int, t: Int], q, r \in rows :
              PastCursor(Newest, c, q) /\ Precedes(Newest, q, r) => PastCursor(Newest, c, r)
<1>1. \A m, n : Before(Newest, m, n) <=> m > n
  BY DEF Before, Newest
<1>2. \A q, r \in rows : Precedes(Newest, q, r) <=> q.key > r.key \/ (q.key = r.key /\ q.id > r.id)
  BY <1>1 DEF Precedes
<1>3. \A c, r : PastCursor(Newest, c, r) <=> c.p > r.key \/ (r.key = c.p /\ c.t > r.id)
  BY <1>1 DEF PastCursor
<1>4. \A r \in rows : r.id \in Int /\ r.key \in Int
  BY DEF Rows
<1>5. \A r \in rows : ~Precedes(Newest, r, r)
  BY <1>2, <1>4
<1>6. \A q, r \in rows : q # r => Precedes(Newest, q, r) \/ Precedes(Newest, r, q)
  BY <1>2, <1>4 DEF Rows
<1>7. \A p, q, r \in rows :
        Precedes(Newest, p, q) /\ Precedes(Newest, q, r) => Precedes(Newest, p, r)
  BY <1>2, <1>4
<1>8. ASSUME NEW c \in [p: Int, t: Int], NEW q \in rows, NEW r \in rows,
             PastCursor(Newest, c, q), Precedes(Newest, q, r)
      PROVE  PastCursor(Newest, c, r)
  <2>1. c.p \in Int /\ c.t \in Int
    OBVIOUS
  <2> QED
    BY <2>1, <1>2, <1>3, <1>4, <1>8
<1> QED
  BY <1>5, <1>6, <1>7, <1>8

\* A set of such rows has a first and a last one.
LEMMA FirstAndLast ==
  ASSUME NEW rows, Rows(rows), NEW S, S \subseteq rows, S # {}
  PROVE  /\ \E f \in S : \A r \in S : ~Precedes(Newest, r, f)
         /\ \E l \in S : \A r \in S \ {l} : Precedes(Newest, r, l)
<1>1. IsFiniteSet(S)
  BY FS_Subset DEF Rows
<1> DEFINE R == {x \in S \X S : Precedes(Newest, x[1], x[2])}
           Q == {x \in S \X S : Precedes(Newest, x[2], x[1])}
<1>2. \A x, y \in S : /\ <<x, y>> \in R <=> Precedes(Newest, x, y)
                      /\ <<x, y>> \in Q <=> Precedes(Newest, y, x)
  OBVIOUS
<1> HIDE DEF R, Q
<1>3. PICK f \in S : \A r \in S : <<r, f>> \notin R
  <2>1. /\ \A x \in S : <<x, x>> \notin R
        /\ \A x, y, z \in S : <<x, y>> \in R /\ <<y, z>> \in R => <<x, z>> \in R
    BY <1>2, NewestOrders
  <2> QED
    BY <2>1, <1>1, LeastExists
<1>4. PICK l \in S : \A r \in S : <<r, l>> \notin Q
  <2>1. /\ \A x \in S : <<x, x>> \notin Q
        /\ \A x, y, z \in S : <<x, y>> \in Q /\ <<y, z>> \in Q => <<x, z>> \in Q
    BY <1>2, NewestOrders
  <2> QED
    BY <2>1, <1>1, LeastExists
<1> QED
  BY <1>2, <1>3, <1>4, NewestOrders

\* The rows of a page are those past its cursor and not past the next one.
LEMMA PageIsFirst ==
  ASSUME NEW rows, Rows(rows), NEW c, c = NoCursor \/ c \in [p: Int, t: Int],
         NEW limit \in Nat, limit > 0,
         \A r \in rows : r.key % PerMilli = 0
  PROVE  LET page == PageOf(rows, Newest, c, limit)
             past == {r \in rows : c = NoCursor \/ PastCursor(Newest, c, r)}
         IN  /\ page.data \subseteq past
             /\ page.next = NoCursor => page.data = past
             /\ page.next # NoCursor =>
                  /\ page.next \in [p: Int, t: Int]
                  /\ \A r \in rows : PastCursor(Newest, page.next, r) <=> r \in past \ page.data
<1> DEFINE past == {r \in rows : c = NoCursor \/ PastCursor(Newest, c, r)}
           before(r) == {q \in past : Precedes(Newest, q, r)}
           data == {r \in past : Cardinality(before(r)) < limit}
           last == CHOOSE r \in data : \A q \in data \ {r} : Precedes(Newest, q, r)
           page == PageOf(rows, Newest, c, limit)
<1>1. page = [data |-> data, next |-> IF data = past THEN NoCursor ELSE CursorOf(Newest, last)]
  BY DEF PageOf
<1>2. past \subseteq rows /\ data \subseteq past
  OBVIOUS
<1>3. IsFiniteSet(past)
  BY <1>2, FS_Subset DEF Rows
<1>4. \A r \in past : /\ before(r) \subseteq past /\ IsFiniteSet(before(r))
                      /\ Cardinality(before(r)) \in Nat
  BY <1>3, FS_Subset, FS_CardinalityType
<1>5. ASSUME NEW q \in past, NEW r \in data, Precedes(Newest, q, r) PROVE q \in data
  <2>1. before(q) \subseteq before(r)
    <3> SUFFICES ASSUME NEW p \in past, Precedes(Newest, p, q) PROVE Precedes(Newest, p, r)
      OBVIOUS
    <3>1. p \in rows /\ q \in rows /\ r \in rows
      BY <1>2
    <3> QED
      BY <3>1, <1>5, NewestOrders
  <2>2. Cardinality(before(q)) <= Cardinality(before(r))
    BY <2>1, <1>2, <1>4, FS_Subset
  <2>3. r \in past /\ Cardinality(before(r)) < limit
    OBVIOUS
  <2>4. Cardinality(before(q)) \in Nat /\ Cardinality(before(r)) \in Nat
    BY <1>4, <2>3
  <2> HIDE DEF before
  <2>5. Cardinality(before(q)) < limit
    BY <2>2, <2>3, <2>4
  <2> QED
    BY <2>5
<1>6. ASSUME data # past
      PROVE  last \in data /\ \A q \in data \ {last} : Precedes(Newest, q, last)
  <2>1. past # {}
    BY <1>2, <1>6
  <2>2. PICK f \in past : \A r \in past : ~Precedes(Newest, r, f)
    BY <2>1, <1>2, FirstAndLast
  <2>3. Cardinality(before(f)) = 0
    BY <2>2, FS_EmptySet
  <2>4. f \in data
    BY <2>3
  <2>5. \E l \in data : \A r \in data \ {l} : Precedes(Newest, r, l)
    <3>1. data \subseteq rows /\ data # {}
      BY <1>2, <2>4
    <3> HIDE DEF data
    <3> QED
      BY <3>1, FirstAndLast
  <2> HIDE DEF data
  <2> QED
    BY <2>5
<1>7. ASSUME data # past
      PROVE  /\ CursorOf(Newest, last) = [p |-> last.key, t |-> last.id]
             /\ last.key \in Int /\ last.id \in Int
  <2>1. last \in rows
    BY <1>2, <1>6, <1>7
  <2> HIDE DEF last
  <2> QED
    BY <2>1 DEF CursorOf, ToMillis, Newest, TimeFields, Rows
<1>8. ASSUME data # past, NEW r \in rows
      PROVE  PastCursor(Newest, CursorOf(Newest, last), r) <=> r \in past \ data
  <2>1. last \in data /\ last \in past /\ last \in rows
    BY <1>2, <1>6, <1>8
  <2>2. PastCursor(Newest, CursorOf(Newest, last), r) <=> Precedes(Newest, last, r)
    <3> HIDE DEF last
    <3> QED
      BY <1>7, <1>8 DEF PastCursor, Precedes
  <2>3. r \in data => ~Precedes(Newest, last, r)
    <3> HIDE DEF last, data
    <3> QED
      BY <2>1, <1>2, <1>6, <1>8, NewestOrders
  <2>4. r \in past \ data => Precedes(Newest, last, r)
    <3> HIDE DEF last, data
    <3> QED
      BY <2>1, <1>2, <1>5, <1>8, NewestOrders
  <2>5. r \notin past => ~Precedes(Newest, last, r)
    <3>1. r \notin past => c # NoCursor /\ ~PastCursor(Newest, c, r)
      OBVIOUS
    <3>2. c # NoCursor => PastCursor(Newest, c, last)
      BY <2>1
    <3> HIDE DEF last, data, past
    <3> QED
      BY <2>1, <3>1, <3>2, NewestOrders
  <2> HIDE DEF last, data, past
  <2> QED
    BY <2>2, <2>3, <2>4, <2>5, <1>2
<1>9. data # past => CursorOf(Newest, last) # NoCursor /\ CursorOf(Newest, last) \in [p: Int, t: Int]
  <2> HIDE DEF last, data, past
  <2> QED
    BY <1>7, ListsAssumption
<1>10. page.data = data /\ page.next = IF data = past THEN NoCursor ELSE CursorOf(Newest, last)
  <2> HIDE DEF last, data, past
  <2> QED
    BY <1>1
<1> HIDE DEF last, data, page
<1> QED
  BY <1>2, <1>8, <1>9, <1>10 DEF page, past

\* The rows of an inbox can be paged.
LEMMA InboxRows ==
  ASSUME RowsAreSound, NEW who, NEW unread
  PROVE  LET rows == Inbox(who, unread)
         IN  /\ Rows(rows) /\ \A r \in rows : r.key % PerMilli = 0
             /\ \A r \in rows : /\ r.id \in Events /\ notes[r.id] # NoNote
                                /\ r = [id |-> r.id, key |-> notes[r.id].key]
<1> DEFINE rows == Inbox(who, unread)
<1>1. \A r \in rows : /\ r.id \in Events /\ notes[r.id] # NoNote /\ r.key = notes[r.id].key
                      /\ r = [id |-> r.id, key |-> notes[r.id].key]
  BY DEF Inbox
<1>2. \A e \in Events : notes[e] # NoNote => notes[e].key \in Nat /\ notes[e].key % PerMilli = 0
  BY DEF RowsAreSound, NoteRows
<1>3. Events \subseteq Nat /\ IsFiniteSet(Events)
  BY NotificationsAssumption
<1> HIDE DEF rows
<1>4. \A r \in rows : r.id \in Int /\ r.key \in Int /\ r.key % PerMilli = 0
  BY <1>1, <1>2, <1>3
<1>5. \A q, r \in rows : q.id = r.id => q = r
  BY <1>1
<1>6. IsFiniteSet(rows)
  <2> DEFINE f == [r \in rows |-> r.id]
  <2>1. f \in Injection(rows, Events)
    BY <1>1, <1>5 DEF Injection, IsInjective
  <2> HIDE DEF f
  <2> QED
    BY <2>1, <1>3, FS_Injection
<1> QED
  BY <1>1, <1>4, <1>5, <1>6 DEF Rows, rows

\* Notifications keep their place in the inbox.
LEMMA PagesStay ==
  ASSUME PagesAreKept, UNCHANGED reader,
         \A e \in Events : notes[e] # NoNote => notes'[e] # NoNote /\ notes'[e].key = notes[e].key
  PROVE  PagesAreKept'
<1>1. \A e \in reader.still : e \in Events /\ notes[e] # NoNote
  BY DEF PagesAreKept
<1>2. \A e \in reader.still : notes'[e] # NoNote /\ notes'[e].key = notes[e].key
  BY <1>1
<1> QED
  BY <1>1, <1>2 DEF PagesAreKept

\* Whoever starts to read has been shown nothing yet.
LEMMA StartReadingKeeps ==
  ASSUME PagesAreKept, RowsAreSound, NEW call, StartReading(call)
  PROVE  PagesAreKept'
<1> DEFINE rows == Inbox(call.who, call.on)
<1>1. /\ reader' = [at |-> "reading", who |-> call, cursor |-> NoCursor, shown |-> NoneShown,
                    still |-> {r.id : r \in rows}]
      /\ notes' = notes
  BY DEF StartReading, rowVars
<1>2. \A r \in rows : r.id \in Events /\ notes[r.id] # NoNote
  BY InboxRows
<1> HIDE DEF rows
<1>3. \A e \in reader'.still : e \in Events /\ notes'[e] # NoNote
  BY <1>1, <1>2
<1> QED
  BY <1>1, <1>3 DEF PagesAreKept, NoneShown

\* A page shows the rows up to the next cursor.
LEMMA ReadPageKeeps ==
  ASSUME PagesAreKept, RowsAreSound, ReadPage
  PROVE  PagesAreKept'
<1> DEFINE rows == Inbox(reader.who.who, reader.who.on)
           limit == ClampLimit(PageSize)
           c == reader.cursor
           past == {r \in rows : c = NoCursor \/ PastCursor(Newest, c, r)}
           page == PageOf(rows, Newest, c, limit)
           shown == [e \in Events |->
                       reader.shown[e] + IF \E r \in page.data : r.id = e THEN 1 ELSE 0]
           still == reader.still \cap {r.id : r \in rows}
           at == IF page.next = NoCursor THEN "done" ELSE "reading"
           Row(e) == [id |-> e, key |-> notes[e].key]
<1>1. NotificationList.default = Newest
  BY DEF NotificationList, List
<1>2. reader.at = "reading" /\ notes' = notes
  BY DEF ReadPage, rowVars
<1>3. /\ reader = [at |-> reader.at, who |-> reader.who, cursor |-> reader.cursor,
                   shown |-> reader.shown, still |-> reader.still]
      /\ c = NoCursor \/ c \in [p: Int, t: Int]
      /\ \A e \in reader.still :
           /\ e \in Events /\ notes[e] # NoNote
           /\ reader.shown[e] = IF c # NoCursor /\ ~PastCursor(Newest, c, Row(e)) THEN 1 ELSE 0
  BY <1>2 DEF PagesAreKept
<1>4. reader' = [at |-> at, who |-> reader.who, cursor |-> page.next, shown |-> shown,
                 still |-> still]
  <2>1. reader' = [reader EXCEPT !.shown = shown, !.cursor = page.next, !.still = still, !.at = at]
    BY <1>1 DEF ReadPage
  <2> HIDE DEF shown, page, still, at
  <2> QED
    BY <2>1, <1>3
<1>5. limit \in Nat /\ limit > 0
  BY NotificationsAssumption DEF ClampLimit, DefaultLimit, MaxLimit
<1>6. /\ Rows(rows) /\ \A r \in rows : r.key % PerMilli = 0
      /\ \A r \in rows : r.id \in Events /\ notes[r.id] # NoNote /\ r = Row(r.id)
  BY InboxRows
<1>7. /\ page.data \subseteq past
      /\ page.next = NoCursor => page.data = past
      /\ page.next # NoCursor =>
           /\ page.next \in [p: Int, t: Int]
           /\ \A r \in rows : PastCursor(Newest, page.next, r) <=> r \in past \ page.data
  <2> HIDE DEF rows, limit
  <2> QED
    BY <1>3, <1>5, <1>6, PageIsFirst
<1> HIDE DEF rows, limit, page
<1>8. ASSUME NEW e \in still
      PROVE  /\ e \in Events /\ notes[e] # NoNote
             /\ shown[e] = IF at = "done" \/ (page.next # NoCursor
                                              /\ ~PastCursor(Newest, page.next, Row(e)))
                           THEN 1 ELSE 0
  <2>1. e \in reader.still /\ e \in Events /\ notes[e] # NoNote /\ Row(e) \in rows
    BY <1>3, <1>6
  <2>2. (\E r \in page.data : r.id = e) <=> Row(e) \in page.data
    <3>1. \A r \in page.data : r.id = e => r = Row(e)
      BY <1>6, <1>7
    <3> QED
      BY <3>1
  <2>3. shown[e] = reader.shown[e] + IF Row(e) \in page.data THEN 1 ELSE 0
    BY <2>1, <2>2
  <2>4. reader.shown[e] = IF Row(e) \in past THEN 0 ELSE 1
    BY <2>1, <1>3
  <2>5. Row(e) \in page.data => Row(e) \in past
    BY <1>7
  <2> HIDE DEF shown, past, Row
  <2>6. CASE page.next = NoCursor
    BY <2>1, <2>3, <2>4, <2>6, <1>7
  <2>7. CASE page.next # NoCursor
    BY <2>1, <2>3, <2>4, <2>5, <2>7, <1>7
  <2> QED
    BY <2>6, <2>7
<1>9. DOMAIN shown = Events /\ at \in {"done", "reading"}
      /\ (at = "reading" => page.next \in [p: Int, t: Int])
  BY <1>7
<1> HIDE DEF shown, still, at
<1> QED
  BY <1>2, <1>4, <1>8, <1>9 DEF PagesAreKept

-----------------------------------------------------------------------------
(* The pushes.                                                             *)

\* A subscription stays one of the profile until it changes hands.
LEMMA IsOfStays ==
  ASSUME NEW i, NEW profile, IsOf(i, profile), moved \subseteq moved', subs'[i] # Unused,
         subs'[i] = subs[i] \/ i \in moved' \/ subs'[i] = Removed
  PROVE  IsOf(i, profile)'
<1>1. i \in moved \/ i \notin SubIds \/ subs[i] = Removed \/ subs[i].profile = profile
  BY DEF IsOf, Live
<1> QED
  BY <1>1 DEF IsOf, Live

\* What leaves the requests and the dispatcher alone, and makes nothing less
\* new, keeps what they go by.
LEMMA HandlersStay ==
  ASSUME EventsAreNew, HandlersGoAhead, UNCHANGED <<job, todo, tries, handler>>,
         \A e \in Events : (notes'[e] = NoNote <=> notes[e] = NoNote) /\ notes'[e].to = notes[e].to,
         \A k \in Keys : IsNew(k) => IsNew(k)',
         \A i \in SubIds, p \in Profiles \cup {Nobody} : IsOf(i, p) => IsOf(i, p)',
         handler \in [Events -> HandlerRows]
  PROVE  EventsAreNew' /\ HandlersGoAhead'
<1>1. \A e \in Events, i \in SubIds : IsNew(<<e, i>>) => IsNew(<<e, i>>)'
  BY DEF Keys
<1>2. EventsAreNew'
  BY <1>1 DEF EventsAreNew
<1>3. ASSUME NEW e \in Events
      PROVE  /\ handler'[e].at \in {"order", "channels"} => notes'[e] = NoNote
             /\ handler'[e].at \in {"order", "channels", "list"} =>
                  \A i \in SubIds : IsNew(<<e, i>>)'
             /\ handler'[e].at = "channels" => handler'[e].to \in Profiles
             /\ handler'[e].at \in {"list", "enqueue"} =>
                  notes'[e] # NoNote /\ notes'[e].to = handler'[e].to
             /\ handler'[e].at = "enqueue" =>
                  \A i \in handler'[e].left : IsNew(<<e, i>>)' /\ IsOf(i, handler[e].to)'
  <2>1. handler[e].to \in Profiles \cup {Nobody} /\ handler[e].left \subseteq SubIds
    BY DEF HandlerRows
  <2> QED
    BY <1>1, <2>1 DEF HandlersGoAhead
<1> QED
  BY <1>2, <1>3 DEF HandlersGoAhead

\* Steps of the workers, the users and the clock: rows are given up, marked or
\* dropped, and subscriptions change hands or go.
LEMMA HoldingsKeep ==
  ASSUME PushInv, RowsAreSound', UNCHANGED <<job, todo, tries, handler, pushed>>,
         moved \subseteq moved', lost \subseteq lost',
         \A e \in Events : (notes'[e] = NoNote <=> notes[e] = NoNote) /\ notes'[e].to = notes[e].to,
         \A i \in SubIds : subs[i] # Unused =>
           subs'[i] # Unused /\ (subs'[i] = subs[i] \/ i \in moved' \/ subs'[i] = Removed),
         \A w \in Workers :
           /\ worker'[w].at # "read" => worker'[w].claimed = {}
           /\ worker'[w].at = "idle" => worker'[w].batch = {}
           /\ worker'[w].at \in {"idle", "read", "send"} <=> worker'[w].cur = <<>>
           /\ worker'[w].claimed \cap worker'[w].batch = {}
           /\ worker'[w].cur \notin worker'[w].claimed \cup worker'[w].batch
           /\ worker'[w].claimed \cup worker'[w].batch \subseteq worker[w].claimed \cup worker[w].batch
           /\ worker'[w].cur = <<>> \/ worker'[w].cur = worker[w].cur
           /\ worker'[w].cur # <<>> /\ worker'[w].at # "sent" /\ worker[w].at = "sent" =>
                \A p \in pushed : p[1] = worker[w].cur => p \in lost',
         \A k \in Keys :
           \/ delivery'[k] = delivery[k]
           \/ delivery'[k] = NoDelivery
           \/ /\ delivery[k] # NoDelivery
              /\ delivery'[k].status = delivery[k].status
           \/ /\ delivery[k] # NoDelivery
              /\ delivery'[k].status \in {"processed", "failed"}
              /\ \E w \in Workers :
                   /\ worker[w].cur = k /\ worker'[w].cur = <<>>
                   /\ delivery'[k].status = "processed" \/ worker[w].at # "sent"
  PROVE  PushInv'
<1>1. \A w \in Workers : worker[w] \in WorkerRows /\ worker'[w] \in WorkerRows
  BY DEF PushInv, RowsAreSound, WorkerRows
<1>2. \A w \in Workers : worker'[w].cur = worker[w].cur \/ worker'[w].cur = <<>>
  OBVIOUS
<1>3. \A w \in Workers : Held(w)' \subseteq Held(w)
  BY DEF Held
<1>4. \A i \in SubIds : \A p : IsOf(i, p) => IsOf(i, p)'
  <2> SUFFICES ASSUME NEW i \in SubIds, NEW p, IsOf(i, p) PROVE IsOf(i, p)'
    OBVIOUS
  <2>1. subs[i] # Unused
    BY DEF IsOf
  <2> QED
    BY <2>1, IsOfStays
<1>5. \A k \in Keys : delivery[k] = NoDelivery => delivery'[k] = NoDelivery
  OBVIOUS
<1>6. \A k \in Keys : IsNew(k) => IsNew(k)'
  BY <1>3, <1>5 DEF IsNew
<1>7. EventsAreNew' /\ HandlersGoAhead'
  BY <1>4, <1>6, HandlersStay DEF PushInv, RowsAreSound
<1>8. QueueIsRight'
  <2> SUFFICES ASSUME NEW k \in Keys,
                      delivery'[k] # NoDelivery \/ (\E w \in Workers : k \in Held(w)')
               PROVE  IsOf(k[2], notes[k[1]].to)'
    BY DEF QueueIsRight
  <2>1. delivery[k] # NoDelivery \/ (\E w \in Workers : k \in Held(w))
    BY <1>3, <1>5
  <2>2. IsOf(k[2], notes[k[1]].to)
    BY <2>1 DEF PushInv, QueueIsRight
  <2>3. k[1] \in Events /\ k[2] \in SubIds
    BY DEF Keys
  <2>4. notes'[k[1]].to = notes[k[1]].to
    BY <2>3
  <2>5. IsOf(k[2], notes[k[1]].to)' <=> (subs'[k[2]] # Unused /\ (k[2] \in moved' \/ k[2] \notin Live'
                                         \/ subs'[k[2]].profile = notes[k[1]].to))
    BY <2>4 DEF IsOf
  <2>6. subs[k[2]] # Unused /\ (k[2] \in moved \/ k[2] \notin Live \/ subs[k[2]].profile = notes[k[1]].to)
    BY <2>2 DEF IsOf
  <2> QED
    BY <2>3, <2>5, <2>6 DEF Live
<1>9. \A k \in Keys : \A w \in Workers : k \in Held(w)' =>
        delivery'[k] = NoDelivery \/ delivery'[k].status = "processing"
  <2> SUFFICES ASSUME NEW k \in Keys, NEW w \in Workers, k \in Held(w)', delivery'[k] # NoDelivery
               PROVE  delivery'[k].status = "processing"
    OBVIOUS
  <2>1. k \in Held(w) /\ (delivery[k] = NoDelivery \/ delivery[k].status = "processing")
    BY <1>3 DEF PushInv, WorkersHoldApart
  <2>2. \A v \in Workers : v # w => Held(v) \cap Held(w) = {}
    BY DEF PushInv, WorkersHoldApart
  <2>3. ~ \E v \in Workers : worker[v].cur = k /\ worker'[v].cur = <<>>
    <3> SUFFICES ASSUME NEW v \in Workers, worker[v].cur = k, worker'[v].cur = <<>> PROVE FALSE
      OBVIOUS
    <3>1. k # <<>>
      BY DEF Keys
    <3>2. k \in Held(v)
      BY <3>1 DEF Held
    <3>3. v = w
      BY <2>1, <2>2, <3>2
    <3>4. k \in worker[w].claimed \cup worker[w].batch
      BY <3>3, <3>1 DEF Held
    <3> QED
      BY <3>3, <3>4 DEF PushInv, WorkersHoldApart
  <2> QED
    BY <2>1, <2>3
<1>10. WorkersHoldApart'
  <2>1. \A w \in Workers : Held(w)' \subseteq Keys
    BY <1>1 DEF Held, WorkerRows
  <2>2. \A v, w \in Workers : v # w => Held(v)' \cap Held(w)' = {}
    BY <1>3 DEF PushInv, WorkersHoldApart
  <2> QED
    BY <1>9, <2>1, <2>2 DEF WorkersHoldApart
<1>11. SentIsNotQueued'
  <2> SUFFICES ASSUME NEW p \in pushed, p[1] \in Keys, p \notin lost'
               PROVE  /\ delivery'[p[1]] = NoDelivery \/ delivery'[p[1]].status \in {"processing", "processed"}
                      /\ \A w \in Workers :
                           /\ p[1] \notin worker'[w].claimed \cup worker'[w].batch
                           /\ p[1] = worker'[w].cur => worker'[w].at = "sent"
    BY DEF PushInv, SentIsNotQueued
  <2>1. /\ delivery[p[1]] = NoDelivery \/ delivery[p[1]].status \in {"processing", "processed"}
        /\ \A w \in Workers :
             /\ p[1] \notin worker[w].claimed \cup worker[w].batch
             /\ p[1] = worker[w].cur => worker[w].at = "sent"
    BY DEF PushInv, SentIsNotQueued
  <2>2. p[1] # <<>>
    BY DEF Keys
  <2>3. \A w \in Workers : p[1] = worker'[w].cur => worker'[w].at = "sent"
    BY <2>1, <2>2
  <2>4. delivery'[p[1]] = NoDelivery \/ delivery'[p[1]].status \in {"processing", "processed"}
    BY <2>1
  <2> QED
    BY <2>1, <2>3, <2>4
<1>12. PushesReachTheRecipientOnce' /\ PushesAreNumbered'
  <2>1. \A p \in pushed : p[1][1] \in Events
    BY DEF PushInv, SentIsNotQueued, Keys
  <2> QED
    BY <2>1 DEF PushInv, PushesReachTheRecipientOnce, PushesAreNumbered, Pushes
<1> QED
  BY <1>7, <1>8, <1>10, <1>11, <1>12 DEF PushInv

\* A worker that claims nothing new and sends nothing, one of several.
LEMMA OneWorker ==
  ASSUME PushInv, NEW w \in Workers, NEW x \in WorkerRows, worker' = [worker EXCEPT ![w] = x],
         UNCHANGED <<trailVars, handler, prefs, notes, moved, pushed, placed, calls>>,
         lost \subseteq lost',
         subs' = subs \/ (\E j : subs' = [subs EXCEPT ![j] = Removed]),
         x.at # "read" => x.claimed = {},
         x.at = "idle" => x.batch = {},
         x.at \in {"idle", "read", "send"} <=> x.cur = <<>>,
         x.claimed \cap x.batch = {},
         x.cur \notin x.claimed \cup x.batch,
         x.claimed \cup x.batch \subseteq worker[w].claimed \cup worker[w].batch,
         x.cur = <<>> \/ x.cur = worker[w].cur,
         x.cur # <<>> /\ x.at # "sent" /\ worker[w].at = "sent" =>
           \A p \in pushed : p[1] = worker[w].cur => p \in lost',
         DOMAIN delivery' = Keys,
         \A k \in Keys :
           \/ delivery'[k] = delivery[k]
           \/ delivery'[k] = NoDelivery
           \/ /\ delivery[k] # NoDelivery /\ worker[w].cur = k /\ x.cur = <<>>
              /\ delivery'[k] \in DeliveryRows
              /\ \/ delivery'[k].status = "processed"
                 \/ delivery'[k].status = "failed" /\ worker[w].at # "sent"
  PROVE  PushInv'
<1>1. /\ worker'[w] = x
      /\ \A v \in Workers \ {w} : worker'[v] = worker[v]
      /\ worker' \in [Workers -> WorkerRows]
  BY DEF PushInv, RowsAreSound, WorkerRows
<1>2. UNCHANGED <<job, todo, tries>>
  BY DEF trailVars
<1>3. \A i \in SubIds : subs[i] # Unused =>
        subs'[i] # Unused /\ (subs'[i] = subs[i] \/ subs'[i] = Removed)
  BY NothingAssumption DEF PushInv, RowsAreSound
<1>4. DOMAIN subs' = SubIds
  BY DEF PushInv, RowsAreSound
<1>5. \A k \in Keys : delivery'[k] # NoDelivery =>
        delivery'[k] \in DeliveryRows
  BY DEF PushInv, RowsAreSound
<1>6. RowsAreSound'
  BY <1>1, <1>4, <1>5 DEF PushInv, RowsAreSound, WorkerRows
<1>7. ASSUME NEW v \in Workers
      PROVE  /\ worker'[v].at # "read" => worker'[v].claimed = {}
             /\ worker'[v].at = "idle" => worker'[v].batch = {}
             /\ worker'[v].at \in {"idle", "read", "send"} <=> worker'[v].cur = <<>>
             /\ worker'[v].claimed \cap worker'[v].batch = {}
             /\ worker'[v].cur \notin worker'[v].claimed \cup worker'[v].batch
             /\ worker'[v].claimed \cup worker'[v].batch \subseteq worker[v].claimed \cup worker[v].batch
             /\ worker'[v].cur = <<>> \/ worker'[v].cur = worker[v].cur
             /\ worker'[v].cur # <<>> /\ worker'[v].at # "sent" /\ worker[v].at = "sent" =>
                  \A p \in pushed : p[1] = worker[v].cur => p \in lost'
  <2>1. CASE v = w
    BY <1>1, <2>1
  <2>2. CASE v # w
    BY <1>1, <2>2 DEF PushInv, WorkersHoldApart
  <2> QED
    BY <2>1, <2>2
<1>8. \A k \in Keys :
        \/ delivery'[k] = delivery[k]
        \/ delivery'[k] = NoDelivery
        \/ /\ delivery[k] # NoDelivery
           /\ delivery'[k].status = delivery[k].status
        \/ /\ delivery[k] # NoDelivery
           /\ delivery'[k].status \in {"processed", "failed"}
           /\ \E v \in Workers :
                /\ worker[v].cur = k /\ worker'[v].cur = <<>>
                /\ delivery'[k].status = "processed" \/ worker[v].at # "sent"
  BY <1>1
<1> QED
  BY <1>2, <1>3, <1>6, <1>7, <1>8, HoldingsKeep

\* A removed subscription takes its deliveries along.
LEMMA DropIs ==
  ASSUME PushInv, NEW i, DropSubscription(i)
  PROVE  /\ subs' = [subs EXCEPT ![i] = Removed] /\ DOMAIN delivery' = Keys
         /\ \A k \in Keys : delivery'[k] = delivery[k] \/ delivery'[k] = NoDelivery
  BY DEF DropSubscription

\* A claimed row is read, or skipped.
LEMMA ReadDetailsKeeps ==
  ASSUME PushInv, NEW w \in Workers, ReadDetails(w)
  PROVE  PushInv'
<1>1. worker[w] \in WorkerRows /\ worker[w].at = "read" /\ worker[w].cur = <<>>
  BY DEF ReadDetails, PushInv, RowsAreSound, WorkerRows, WorkersHoldApart
<1>2. worker[w].claimed \cap worker[w].batch = {}
  BY DEF PushInv, WorkersHoldApart
<1>3. DOMAIN delivery = Keys /\ worker \in [Workers -> WorkerRows]
  BY DEF PushInv, RowsAreSound, WorkerRows
<1>4. UNCHANGED <<trailVars, handler, prefs, notes, moved, pushed, placed, calls, lost, subs, delivery>>
  BY DEF ReadDetails, WorkerLeaves, queueVars
<1>5. <<>> \notin Keys
  BY DEF Keys
<1>6. CASE worker[w].claimed = {}
  <2> DEFINE x == [worker[w] EXCEPT !.at = "send"]
  <2>1. worker' = [worker EXCEPT ![w] = x]
    BY <1>3, <1>6 DEF ReadDetails
  <2>2. /\ x \in WorkerRows /\ x.at = "send" /\ x.claimed = {} /\ x.batch = worker[w].batch
        /\ x.cur = <<>>
    BY <1>1, <1>6 DEF WorkerRows
  <2>3. x.batch \subseteq Keys
    BY <2>2 DEF WorkerRows
  <2> HIDE DEF x
  <2> QED
    BY <2>1, <2>2, <2>3, <1>3, <1>4, <1>5, OneWorker
<1>7. CASE worker[w].claimed # {}
  <2>1. PICK k \in worker[w].claimed :
          worker' = [worker EXCEPT ![w].claimed = @ \ {k},
                                   ![w].batch = @ \cup IF k[2] \in Live THEN {k} ELSE {}]
    BY <1>7 DEF ReadDetails
  <2> DEFINE x == [worker[w] EXCEPT !.claimed = @ \ {k},
                                    !.batch = @ \cup IF k[2] \in Live THEN {k} ELSE {}]
  <2>2. worker' = [worker EXCEPT ![w] = x]
    BY <2>1, <1>3
  <2>3. /\ x \in WorkerRows /\ x.at = "read" /\ x.claimed = worker[w].claimed \ {k}
        /\ x.batch \subseteq worker[w].batch \cup {k} /\ x.cur = <<>>
    BY <1>1 DEF WorkerRows
  <2>4. x.batch \subseteq Keys /\ x.claimed \subseteq Keys
    BY <2>3 DEF WorkerRows
  <2> HIDE DEF x
  <2> QED
    BY <2>2, <2>3, <2>4, <1>2, <1>3, <1>4, <1>5, OneWorker
<1> QED
  BY <1>6, <1>7

\* A row that is marked is no longer held.
LEMMA MarkKeeps ==
  ASSUME PushInv, NEW w \in Workers, NEW status, NEW n \in {0, 1},
         SetRow(worker[w].cur, status, n), NextOf(w, "send"),
         worker[w].at \notin {"idle", "read", "send"},
         status = "processed" \/ (status = "failed" /\ worker[w].at # "sent"),
         UNCHANGED <<trailVars, handler, prefs, notes, moved, pushed, placed, calls, lost, subs>>
  PROVE  PushInv'
<1>1. /\ worker[w] \in WorkerRows /\ worker[w].cur # <<>> /\ worker[w].cur \in Keys
      /\ worker[w].claimed = {}
  BY DEF PushInv, RowsAreSound, WorkerRows, WorkersHoldApart
<1>2. DOMAIN delivery = Keys /\ worker \in [Workers -> WorkerRows]
  BY DEF PushInv, RowsAreSound, WorkerRows
<1> DEFINE x == [worker[w] EXCEPT !.at = "send", !.cur = <<>>]
<1>3. worker' = [worker EXCEPT ![w] = x]
  BY <1>2 DEF NextOf
<1>4. /\ x \in WorkerRows /\ x.at = "send" /\ x.claimed = {} /\ x.batch = worker[w].batch
      /\ x.cur = <<>>
  BY <1>1 DEF WorkerRows
<1> HIDE DEF x
<1>5. x.batch \subseteq Keys
  BY <1>4 DEF WorkerRows
<1>9. <<>> \notin Keys
  BY DEF Keys
<1>6. DOMAIN delivery' = Keys /\ \A k \in Keys \ {worker[w].cur} : delivery'[k] = delivery[k]
  BY <1>2 DEF SetRow
<1>7. delivery[worker[w].cur] = NoDelivery => delivery'[worker[w].cur] = NoDelivery
  BY <1>1, <1>2 DEF SetRow
<1>8. delivery[worker[w].cur] # NoDelivery =>
        /\ delivery'[worker[w].cur] \in DeliveryRows
        /\ delivery'[worker[w].cur].status = status
  <2> DEFINE old == delivery[worker[w].cur]
             new == [status |-> status, attempts |-> old.attempts + n,
                     due |-> FALSE, place |-> old.place]
  <2>1. SUFFICES ASSUME old # NoDelivery
                 PROVE  /\ delivery'[worker[w].cur] \in
                             DeliveryRows
                        /\ delivery'[worker[w].cur].status = status
    OBVIOUS
  <2>2. delivery'[worker[w].cur] = new
    BY <1>1, <1>2, <2>1 DEF SetRow
  <2>3. old \in DeliveryRows
    BY <1>1, <2>1 DEF PushInv, RowsAreSound
  <2>4. new \in DeliveryRows /\ new.status = status
    <3> HIDE DEF old
    <3> QED
      BY <2>3 DEF DeliveryRows
  <2> HIDE DEF new
  <2> QED
    BY <2>2, <2>4
<1>10. ASSUME NEW k \in Keys
       PROVE  \/ delivery'[k] = delivery[k]
              \/ delivery'[k] = NoDelivery
              \/ /\ delivery[k] # NoDelivery /\ worker[w].cur = k /\ x.cur = <<>>
                 /\ delivery'[k] \in DeliveryRows
                 /\ \/ delivery'[k].status = "processed"
                    \/ delivery'[k].status = "failed" /\ worker[w].at # "sent"
  <2>1. CASE k # worker[w].cur
    BY <1>6, <2>1
  <2>2. CASE k = worker[w].cur
    BY <1>4, <1>7, <1>8, <2>2
  <2> QED
    BY <2>1, <2>2
<1>11. /\ x.claimed \cap x.batch = {} /\ x.cur \notin x.claimed \cup x.batch
       /\ x.claimed \cup x.batch \subseteq worker[w].claimed \cup worker[w].batch
  BY <1>4, <1>5, <1>9
<1>12. /\ UNCHANGED <<trailVars, handler, prefs, notes, moved, pushed, placed, calls>>
       /\ lost \subseteq lost' /\ subs' = subs
  OBVIOUS
<1>13. /\ x \in WorkerRows /\ x.at # "read" /\ x.at # "idle" /\ x.at \in {"idle", "read", "send"}
       /\ x.cur = <<>> /\ DOMAIN delivery' = Keys
  BY <1>4, <1>6
<1> QED
  BY <1>3, <1>4, <1>10, <1>11, <1>12, <1>13, OneWorker

\* A push whose row could not be marked counts as lost.
LEMMA LoseMarkKeeps ==
  ASSUME PushInv, NEW w \in Workers, LoseMark(w)
  PROVE  PushInv'
<1>1. worker[w] \in WorkerRows /\ worker[w].at = "sent" /\ worker[w].claimed = {}
      /\ worker[w].cur # <<>> /\ worker[w].cur \notin worker[w].batch
  BY DEF LoseMark, PushInv, RowsAreSound, WorkerRows, WorkersHoldApart
<1>2. DOMAIN delivery = Keys /\ worker \in [Workers -> WorkerRows]
  BY DEF PushInv, RowsAreSound, WorkerRows
<1>3. /\ UNCHANGED <<trailVars, handler, prefs, notes, moved, pushed, placed, calls, subs, delivery>>
      /\ lost' = lost \cup {p \in pushed : p[1] = worker[w].cur}
  BY DEF LoseMark, WorkerLeaves, queueVars
<1> DEFINE x == [worker[w] EXCEPT !.at = "failed"]
<1>4. worker' = [worker EXCEPT ![w] = x]
  BY <1>2 DEF LoseMark
<1>5. /\ x \in WorkerRows /\ x.at = "failed" /\ x.claimed = {} /\ x.batch = worker[w].batch
      /\ x.cur = worker[w].cur
  BY <1>1 DEF WorkerRows
<1> HIDE DEF x
<1> QED
  BY <1>1, <1>2, <1>3, <1>4, <1>5, OneWorker

\* A subscription that is gone takes its deliveries along.
LEMMA DeleteKeeps ==
  ASSUME PushInv, NEW w \in Workers, DeleteSubscriptionById(w)
  PROVE  PushInv'
<1>1. worker[w] \in WorkerRows /\ worker[w].at = "gone" /\ worker[w].claimed = {}
      /\ worker[w].cur # <<>> /\ worker[w].cur \notin worker[w].batch
  BY DEF DeleteSubscriptionById, PushInv, RowsAreSound, WorkerRows, WorkersHoldApart
<1>2. worker \in [Workers -> WorkerRows]
  BY DEF PushInv, RowsAreSound, WorkerRows
<1>3. UNCHANGED <<trailVars, handler, prefs, notes, moved, pushed, placed, calls, lost>>
  BY DEF DeleteSubscriptionById, WorkerLeaves
<1>4. /\ subs' = [subs EXCEPT ![worker[w].cur[2]] = Removed] /\ DOMAIN delivery' = Keys
      /\ \A k \in Keys : delivery'[k] = delivery[k] \/ delivery'[k] = NoDelivery
  BY DropIs DEF DeleteSubscriptionById
<1> DEFINE x == [worker[w] EXCEPT !.at = "cleared"]
<1>5. worker' = [worker EXCEPT ![w] = x]
  BY <1>2 DEF DeleteSubscriptionById
<1>6. /\ x \in WorkerRows /\ x.at = "cleared" /\ x.claimed = {} /\ x.batch = worker[w].batch
      /\ x.cur = worker[w].cur
  BY <1>1 DEF WorkerRows
<1> HIDE DEF x
<1> QED
  BY <1>1, <1>3, <1>4, <1>5, <1>6, OneWorker

\* A worker that ends its tick, or gives up, holds nothing.
LEMMA IdleKeeps ==
  ASSUME PushInv, NEW w \in Workers, EndTick(w) \/ GiveUp(w)
  PROVE  PushInv'
<1>1. worker' = [worker EXCEPT ![w] = Idle] /\ DOMAIN delivery = Keys
  BY DEF EndTick, GiveUp, PushInv, RowsAreSound
<1>2. UNCHANGED <<trailVars, handler, prefs, notes, moved, pushed, placed, calls, lost, subs, delivery>>
  BY DEF EndTick, GiveUp, WorkerLeaves, queueVars
<1>3. /\ Idle \in WorkerRows /\ Idle.at = "idle" /\ Idle.claimed = {} /\ Idle.batch = {}
      /\ Idle.cur = <<>>
  BY DEF Idle, WorkerRows
<1> QED
  BY <1>1, <1>2, <1>3, OneWorker

\* The pushes of a delivery are counted.
LEMMA PushesAreCounted ==
  ASSUME IsFiniteSet(pushed), NEW k
  PROVE  Pushes(k) \in Nat
<1>1. IsFiniteSet({p \in pushed : p[1] = k})
  BY FS_Subset
<1> QED
  BY <1>1, FS_CardinalityType DEF Pushes

\* A push that arrives has the next number.
LEMMA PushCounts ==
  ASSUME IsFiniteSet(pushed), NEW k, NEW to, NEW arrives \in BOOLEAN,
         \A p \in pushed : p[3] \in Nat /\ p[3] < Pushes(p[1]),
         pushed' = pushed \cup IF arrives THEN {<<k, to, Pushes(k)>>} ELSE {}
  PROVE  IsFiniteSet(pushed') /\ \A p \in pushed' : p[3] \in Nat /\ p[3] < Pushes(p[1])'
<1> DEFINE new == <<k, to, Pushes(k)>>
           Sent(l) == {p \in pushed : p[1] = l}
           After(l) == Cardinality({p \in pushed' : p[1] = l})
<1>1. \A l : IsFiniteSet(Sent(l)) /\ Pushes(l) = Cardinality(Sent(l)) /\ Pushes(l) \in Nat
  BY FS_Subset, PushesAreCounted DEF Pushes
<1>2. new \notin pushed
  BY <1>1
<1>3. CASE arrives
  <2>1. pushed' = pushed \cup {new} /\ IsFiniteSet(pushed')
    BY <1>3, FS_AddElement
  <2>2. After(k) = Pushes(k) + 1
    <3>1. {p \in pushed' : p[1] = k} = Sent(k) \cup {new} /\ new \notin Sent(k)
      BY <2>1, <1>2
    <3>2. IsFiniteSet(Sent(k)) /\ new \notin Sent(k)
      BY <1>1, <3>1
    <3>3. Cardinality(Sent(k) \cup {new}) = Cardinality(Sent(k)) + 1
      <4> HIDE DEF Sent, new
      <4> QED
        BY <3>2, FS_AddElement
    <3> QED
      BY <3>1, <3>3, <1>1 DEF Pushes
  <2>3. \A l : l # k => After(l) = Pushes(l)
    <3> SUFFICES ASSUME NEW l, l # k PROVE {p \in pushed' : p[1] = l} = Sent(l)
      BY DEF Pushes
    <3> QED
      BY <2>1
  <2>4. Pushes(k) \in Nat
    BY <1>1
  <2> HIDE DEF After, Sent
  <2>5. ASSUME NEW p \in pushed' PROVE p[3] \in Nat /\ p[3] < After(p[1])
    <3>1. CASE p \in pushed
      <4>1. p[3] \in Nat /\ p[3] < Pushes(p[1])
        BY <3>1
      <4>2. CASE p[1] = k
        BY <4>1, <4>2, <2>2, <2>4
      <4>3. CASE p[1] # k
        BY <4>1, <4>3, <2>3
      <4> QED
        BY <4>2, <4>3
    <3>2. CASE p = new
      <4>1. p[1] = k /\ p[3] = Pushes(k)
        BY <3>2
      <4> QED
        BY <4>1, <2>2, <2>4
    <3> QED
      BY <2>1, <3>1, <3>2
  <2>6. \A l : Pushes(l)' = After(l)
    BY DEF Pushes, After
  <2> QED
    BY <2>1, <2>5, <2>6
<1>4. CASE ~arrives
  <2>1. pushed' = pushed
    BY <1>4
  <2> QED
    BY <2>1 DEF Pushes
<1> QED
  BY <1>3, <1>4

\* A push goes out to the row a worker holds, which is marked or held on to.
LEMMA SendPushKeeps ==
  ASSUME PushInv, NEW w \in Workers, Send(w)
  PROVE  PushInv'
<1>1. PICK k \in worker[w].batch, next \in {"sent", "gone", "failed"}, arrives \in BOOLEAN :
        LET push == {<<k, Holder(k[2]), Pushes(k)>>} IN
        /\ next = "sent" => arrives
        /\ next = "gone" => ~arrives
        /\ worker' = [worker EXCEPT ![w].at = next, ![w].cur = k, ![w].batch = @ \ {k}]
        /\ pushed' = pushed \cup IF arrives THEN push ELSE {}
        /\ lost' = lost \cup IF arrives /\ next = "failed" THEN push ELSE {}
  BY DEF Send
<1>2. /\ UNCHANGED <<trailVars, handler, prefs, notes, moved, placed, calls, subs, delivery>>
      /\ worker[w].at = "send"
  BY DEF Send, WorkerLeaves, queueVars
<1>3. worker \in [Workers -> WorkerRows] /\ worker[w] \in WorkerRows
  BY DEF PushInv, RowsAreSound
<1> DEFINE x == [worker[w] EXCEPT !.at = next, !.cur = k, !.batch = @ \ {k}]
<1>4. worker' = [worker EXCEPT ![w] = x]
  BY <1>1, <1>3
<1>5. k \in Keys /\ k \in Held(w) /\ worker[w].cur = <<>> /\ worker[w].claimed = {} /\ <<>> \notin Keys
  BY <1>2, <1>3 DEF WorkerRows, Held, PushInv, WorkersHoldApart, Keys
<1>6. /\ x \in WorkerRows /\ x.at = next /\ x.claimed = {} /\ x.batch = worker[w].batch \ {k}
      /\ x.cur = k
  BY <1>3, <1>5 DEF WorkerRows
<1> HIDE DEF x
<1>7. worker'[w] = x /\ \A v \in Workers \ {w} : worker'[v] = worker[v]
  BY <1>3, <1>4
<1>8. Held(w)' = Held(w) /\ \A v \in Workers \ {w} : Held(v)' = Held(v)
  BY <1>5, <1>6, <1>7 DEF Held
<1>9. \A v \in Workers : Held(v)' = Held(v)
  BY <1>8
<1>10. RowsAreSound'
  BY <1>2, <1>3, <1>4, <1>6 DEF PushInv, RowsAreSound
<1>11. \A p \in pushed' : p \in pushed \/ p = <<k, Holder(k[2]), Pushes(k)>>
  BY <1>1
<1>12. \A l \in Keys : IsNew(l) => IsNew(l)'
  <2> SUFFICES ASSUME NEW l \in Keys, IsNew(l) PROVE IsNew(l)'
    OBVIOUS
  <2>1. l # k
    BY <1>5 DEF IsNew
  <2>2. \A p \in pushed' : p[1] # l
    BY <2>1, <1>11 DEF IsNew
  <2> QED
    BY <2>2, <1>2, <1>9 DEF IsNew
<1>13. \A i, p : IsOf(i, p)' <=> IsOf(i, p)
  BY <1>2 DEF IsOf, Live
<1>14. EventsAreNew' /\ HandlersGoAhead'
  BY <1>2, <1>12, <1>13, HandlersStay DEF PushInv, RowsAreSound, trailVars
<1>15. QueueIsRight'
  <2> SUFFICES ASSUME NEW l \in Keys,
                      delivery'[l] # NoDelivery \/ (\E v \in Workers : l \in Held(v)')
               PROVE  IsOf(l[2], notes[l[1]].to)'
    BY DEF QueueIsRight
  <2>1. IsOf(l[2], notes[l[1]].to)
    BY <1>2, <1>9 DEF PushInv, QueueIsRight
  <2> QED
    BY <2>1, <1>2 DEF IsOf, Live
<1>16. \A v \in Workers \ {w} : k \notin Held(v)
  BY <1>5 DEF PushInv, WorkersHoldApart
<1>17. WorkersHoldApart'
  <2>1. ASSUME NEW v \in Workers
        PROVE  /\ worker'[v].at # "read" => worker'[v].claimed = {}
               /\ worker'[v].at = "idle" => worker'[v].batch = {}
               /\ worker'[v].at \in {"idle", "read", "send"} <=> worker'[v].cur = <<>>
               /\ worker'[v].claimed \cap worker'[v].batch = {}
               /\ worker'[v].cur \notin worker'[v].claimed \cup worker'[v].batch
    <3>1. CASE v = w
      BY <3>1, <1>1, <1>5, <1>6, <1>7
    <3>2. CASE v # w
      BY <3>2, <1>7 DEF PushInv, WorkersHoldApart
    <3> QED
      BY <3>1, <3>2
  <2>2. \A v \in Workers : \A l \in Held(v)' : delivery'[l] = NoDelivery \/ delivery'[l].status = "processing"
    BY <1>2, <1>9 DEF PushInv, WorkersHoldApart
  <2>3. \A u, v \in Workers : u # v => Held(u)' \cap Held(v)' = {}
    BY <1>9 DEF PushInv, WorkersHoldApart
  <2> QED
    BY <2>1, <2>2, <2>3 DEF WorkersHoldApart
<1>18. delivery[k] = NoDelivery \/ delivery[k].status = "processing"
  BY <1>5 DEF PushInv, WorkersHoldApart
<1>19. \A p \in pushed : p[1] = k => p \in lost
  BY DEF PushInv, SentIsNotQueued
<1>20. SentIsNotQueued'
  <2> SUFFICES ASSUME NEW p \in pushed'
               PROVE  /\ p[1] \in Keys
                      /\ p \notin lost' =>
                           /\ delivery[p[1]] = NoDelivery
                                \/ delivery[p[1]].status \in {"processing", "processed"}
                           /\ \A v \in Workers :
                                /\ p[1] \notin worker'[v].claimed \cup worker'[v].batch
                                /\ p[1] = worker'[v].cur => worker'[v].at = "sent"
    BY <1>2 DEF SentIsNotQueued
  <2>1. CASE p \in pushed
    <3>1. /\ p[1] \in Keys
          /\ p \notin lost =>
               /\ delivery[p[1]] = NoDelivery \/ delivery[p[1]].status \in {"processing", "processed"}
               /\ \A v \in Workers :
                    /\ p[1] \notin worker[v].claimed \cup worker[v].batch
                    /\ p[1] = worker[v].cur => worker[v].at = "sent"
      BY <2>1 DEF PushInv, SentIsNotQueued
    <3>2. p \notin lost => p[1] # k
      BY <2>1, <1>19
    <3>3. p \notin lost => p[1] \notin x.claimed \cup x.batch /\ p[1] # x.cur
      BY <3>1, <3>2, <1>6
    <3>4. lost \subseteq lost'
      BY <1>1
    <3> QED
      BY <3>1, <3>3, <3>4, <1>7
  <2>2. CASE p \notin pushed
    <3>1. p = <<k, Holder(k[2]), Pushes(k)>> /\ p[1] = k
      BY <2>2, <1>11
    <3>2. p \notin lost' => next = "sent"
      BY <2>2, <3>1, <1>1
    <3>3. \A v \in Workers \ {w} : k \notin worker'[v].claimed \cup worker'[v].batch /\ k # worker'[v].cur
      BY <1>5, <1>7, <1>16 DEF Held
    <3>4. k \notin x.claimed \cup x.batch /\ x.at = next
      BY <1>6
    <3> QED
      BY <3>1, <3>2, <3>3, <3>4, <1>5, <1>7, <1>18
  <2> QED
    BY <2>1, <2>2
<1>21. Holder(k[2]) \in {notes[k[1]].to, Nobody} \/ k[2] \in moved
  <2>1. IsOf(k[2], notes[k[1]].to)
    BY <1>5 DEF PushInv, QueueIsRight
  <2> QED
    BY <2>1 DEF IsOf, Holder
<1>22. /\ IsFiniteSet(pushed)
       /\ \A p \in pushed : p[3] \in Nat /\ p[3] < Pushes(p[1])
  BY DEF PushInv, PushesAreNumbered
<1>23. PushesReachTheRecipientOnce'
  <2>1. ASSUME NEW p \in pushed'
        PROVE  p[1][2] \in moved \/ p[2] \in {notes[p[1][1]].to, Nobody}
    <3>1. CASE p \in pushed
      BY <3>1 DEF PushInv, PushesReachTheRecipientOnce
    <3>2. CASE p = <<k, Holder(k[2]), Pushes(k)>>
      BY <3>2, <1>21
    <3> QED
      BY <3>1, <3>2, <1>11
  <2>2. ASSUME NEW p \in pushed', NEW q \in pushed', p[1] = q[1], p[3] < q[3]
        PROVE  p \in lost
    <3>1. CASE p \in pushed /\ q \in pushed
      BY <3>1, <2>2 DEF PushInv, PushesReachTheRecipientOnce
    <3>2. CASE p \in pushed /\ q \notin pushed
      BY <3>2, <2>2, <1>11, <1>19
    <3>3. CASE p \notin pushed
      <4>1. p[1] = k /\ p[3] = Pushes(k)
        BY <3>3, <1>11
      <4>2. q \notin pushed
        BY <4>1, <2>2, <1>22, PushesAreCounted
      <4>3. q = p
        BY <3>3, <4>2, <1>11
      <4> QED
        BY <4>1, <4>3, <2>2, <1>22, PushesAreCounted
    <3> QED
      BY <3>1, <3>2, <3>3
  <2>3. lost \subseteq lost'
    BY <1>1
  <2> QED
    BY <2>1, <2>2, <2>3, <1>2 DEF PushesReachTheRecipientOnce
<1>24. PushesAreNumbered'
  BY <1>1, <1>22, PushCounts DEF PushesAreNumbered
<1> QED
  BY <1>10, <1>14, <1>15, <1>17, <1>20, <1>23, <1>24 DEF PushInv

\* Only due rows are claimed, which nobody holds.
LEMMA ClaimKeeps ==
  ASSUME PushInv, NEW w \in Workers, ClaimBatch(w)
  PROVE  PushInv'
<1>1. PICK claimed \in SUBSET {k \in Keys : Due(k)} :
        /\ delivery' = [k \in Keys |-> IF k \in claimed
                                         THEN [delivery[k] EXCEPT !.status = "processing"]
                                       ELSE delivery[k]]
        /\ worker' = [worker EXCEPT ![w] = [Idle EXCEPT !.at = "read", !.claimed = claimed]]
  BY DEF ClaimBatch
<1>2. /\ UNCHANGED <<trailVars, handler, prefs, notes, moved, placed, calls, lost, subs, pushed>>
      /\ worker[w].at = "idle"
  BY DEF ClaimBatch, WorkerLeaves
<1>3. worker \in [Workers -> WorkerRows] /\ worker[w] \in WorkerRows
  BY DEF PushInv, RowsAreSound
<1> DEFINE x == [Idle EXCEPT !.at = "read", !.claimed = claimed]
<1>4. x \in WorkerRows /\ x.at = "read" /\ x.claimed = claimed /\ x.batch = {} /\ x.cur = <<>>
  BY DEF WorkerRows, Idle
<1> HIDE DEF x
<1>5. worker'[w] = x /\ (\A v \in Workers \ {w} : worker'[v] = worker[v])
      /\ worker' \in [Workers -> WorkerRows]
  BY <1>1, <1>3, <1>4 DEF x
<1>6. ASSUME NEW k \in claimed
      PROVE  /\ k \in Keys /\ delivery[k] # NoDelivery /\ delivery[k].status \in {"pending", "failed"}
             /\ delivery[k] \in DeliveryRows
  BY DEF Due, PushInv, RowsAreSound
<1>7. \A k \in claimed : \A v \in Workers : k \notin Held(v)
  BY <1>6 DEF PushInv, WorkersHoldApart
<1>8. /\ Held(w)' = claimed
      /\ \A v \in Workers \ {w} : Held(v)' = Held(v)
  BY <1>4, <1>5 DEF Held
<1>9. ASSUME NEW k \in Keys
      PROVE  IF k \in claimed
               THEN delivery'[k] \in DeliveryRows /\ delivery'[k].status = "processing"
               ELSE delivery'[k] = delivery[k]
  <2>1. CASE k \in claimed
    <3>1. delivery'[k] = [delivery[k] EXCEPT !.status = "processing"]
      BY <1>1, <2>1
    <3>2. delivery[k] \in DeliveryRows
      BY <1>6, <2>1
    <3> QED
      BY <2>1, <3>1, <3>2 DEF DeliveryRows
  <2>2. CASE k \notin claimed
    BY <1>1, <2>2
  <2> QED
    BY <2>1, <2>2
<1>10. DOMAIN delivery' = Keys
  BY <1>1
<1>11. RowsAreSound'
  <2>1. \A k \in Keys : delivery'[k] # NoDelivery => delivery'[k] \in DeliveryRows
    BY <1>9 DEF PushInv, RowsAreSound
  <2> QED
    BY <2>1, <1>2, <1>5, <1>10 DEF PushInv, RowsAreSound
<1>12. \A k \in Keys : IsNew(k) => IsNew(k)'
  <2> SUFFICES ASSUME NEW k \in Keys, IsNew(k) PROVE IsNew(k)'
    OBVIOUS
  <2>1. k \notin claimed
    BY <1>6 DEF IsNew
  <2>2. delivery'[k] = NoDelivery
    BY <2>1, <1>9 DEF IsNew
  <2>3. \A v \in Workers : k \notin Held(v)'
    BY <2>1, <1>8 DEF IsNew
  <2> QED
    BY <2>2, <2>3, <1>2 DEF IsNew
<1>13. \A i, p : IsOf(i, p)' <=> IsOf(i, p)
  BY <1>2 DEF IsOf, Live
<1>14. EventsAreNew' /\ HandlersGoAhead'
  BY <1>2, <1>12, <1>13, HandlersStay DEF PushInv, RowsAreSound, trailVars
<1>15. QueueIsRight'
  <2> SUFFICES ASSUME NEW k \in Keys,
                      delivery'[k] # NoDelivery \/ (\E v \in Workers : k \in Held(v)')
               PROVE  IsOf(k[2], notes[k[1]].to)'
    BY DEF QueueIsRight
  <2>1. delivery[k] # NoDelivery \/ (\E v \in Workers : k \in Held(v))
    BY <1>6, <1>8, <1>9
  <2>2. IsOf(k[2], notes[k[1]].to)
    BY <2>1 DEF PushInv, QueueIsRight
  <2> QED
    BY <2>2, <1>2 DEF IsOf, Live
<1>16. WorkersHoldApart'
  <2>1. ASSUME NEW v \in Workers
        PROVE  /\ worker'[v].at # "read" => worker'[v].claimed = {}
               /\ worker'[v].at = "idle" => worker'[v].batch = {}
               /\ worker'[v].at \in {"idle", "read", "send"} <=> worker'[v].cur = <<>>
               /\ worker'[v].claimed \cap worker'[v].batch = {}
               /\ worker'[v].cur \notin worker'[v].claimed \cup worker'[v].batch
    <3>1. CASE v = w
      <4>1. <<>> \notin Keys
        BY DEF Keys
      <4>2. <<>> \notin claimed
        BY <4>1, <1>6
      <4> QED
        BY <3>1, <4>2, <1>4, <1>5
    <3>2. CASE v # w
      BY <3>2, <1>5 DEF PushInv, WorkersHoldApart
    <3> QED
      BY <3>1, <3>2
  <2>2. ASSUME NEW v \in Workers, NEW k \in Held(v)'
        PROVE  delivery'[k] = NoDelivery \/ delivery'[k].status = "processing"
    <3>1. CASE v = w
      BY <2>2, <3>1, <1>6, <1>8, <1>9
    <3>2. CASE v # w
      <4>1. k \in Held(v) /\ k \notin claimed
        BY <2>2, <3>2, <1>7, <1>8
      <4>2. k \in Keys
        <5>1. worker[v] \in WorkerRows
          BY <1>3
        <5> QED
          BY <4>1, <5>1 DEF Held, WorkerRows
      <4> QED
        BY <4>1, <4>2, <1>9 DEF PushInv, WorkersHoldApart
    <3> QED
      BY <3>1, <3>2
  <2>3. ASSUME NEW u \in Workers, NEW v \in Workers, u # v
        PROVE  Held(u)' \cap Held(v)' = {}
    <3>1. Held(u) \cap Held(v) = {}
      BY <2>3 DEF PushInv, WorkersHoldApart
    <3> QED
      BY <3>1, <2>3, <1>7, <1>8
  <2> QED
    BY <2>1, <2>2, <2>3 DEF WorkersHoldApart
<1>17. SentIsNotQueued'
  <2> SUFFICES ASSUME NEW p \in pushed
               PROVE  /\ p[1] \in Keys
                      /\ p \notin lost =>
                           /\ delivery'[p[1]] = NoDelivery
                                \/ delivery'[p[1]].status \in {"processing", "processed"}
                           /\ \A v \in Workers :
                                /\ p[1] \notin worker'[v].claimed \cup worker'[v].batch
                                /\ p[1] = worker'[v].cur => worker'[v].at = "sent"
    BY <1>2 DEF SentIsNotQueued
  <2>1. /\ p[1] \in Keys
        /\ p \notin lost =>
             /\ delivery[p[1]] = NoDelivery \/ delivery[p[1]].status \in {"processing", "processed"}
             /\ \A v \in Workers :
                  /\ p[1] \notin worker[v].claimed \cup worker[v].batch
                  /\ p[1] = worker[v].cur => worker[v].at = "sent"
    BY DEF PushInv, SentIsNotQueued
  <2>2. p \notin lost => p[1] \notin claimed
    BY <2>1, <1>6
  <2>3. p[1] # <<>>
    BY <2>1 DEF Keys
  <2>4. p \notin lost => p[1] \notin x.claimed \cup x.batch /\ p[1] # x.cur
    BY <2>2, <2>3, <1>4
  <2>5. p \notin lost => delivery'[p[1]] = delivery[p[1]]
    BY <2>1, <2>2, <1>9
  <2> QED
    BY <2>1, <2>4, <2>5, <1>5
<1>18. PushesReachTheRecipientOnce' /\ PushesAreNumbered'
  BY <1>2 DEF PushInv, PushesReachTheRecipientOnce, PushesAreNumbered, Pushes
<1> QED
  BY <1>11, <1>14, <1>15, <1>16, <1>17, <1>18 DEF PushInv

\* The workers hold what they held.
LEMMA WorkersRest ==
  ASSUME PushInv, UNCHANGED worker
  PROVE  \A w \in Workers :
           /\ worker'[w].at # "read" => worker'[w].claimed = {}
           /\ worker'[w].at = "idle" => worker'[w].batch = {}
           /\ worker'[w].at \in {"idle", "read", "send"} <=> worker'[w].cur = <<>>
           /\ worker'[w].claimed \cap worker'[w].batch = {}
           /\ worker'[w].cur \notin worker'[w].claimed \cup worker'[w].batch
           /\ worker'[w].claimed \cup worker'[w].batch \subseteq worker[w].claimed \cup worker[w].batch
           /\ worker'[w].cur = <<>> \/ worker'[w].cur = worker[w].cur
           /\ worker'[w].cur # <<>> /\ worker'[w].at # "sent" /\ worker[w].at = "sent" =>
                \A p \in pushed : p[1] = worker[w].cur => p \in lost'
  BY DEF PushInv, WorkersHoldApart

\* A row that failed is due again.
LEMMA FallDueKeeps ==
  ASSUME PushInv, NEW k \in Keys, FallDue(k)
  PROVE  PushInv'
<1>1. /\ UNCHANGED <<rowVars, placed, handler, worker, calls, reader, historyVars, trailVars>>
      /\ delivery' = [delivery EXCEPT ![k].due = TRUE] /\ delivery[k] # NoDelivery
  BY DEF FallDue
<1>2. DOMAIN delivery = Keys /\ delivery[k] \in DeliveryRows
  BY <1>1 DEF PushInv, RowsAreSound
<1>3. /\ DOMAIN delivery' = Keys /\ \A l \in Keys \ {k} : delivery'[l] = delivery[l]
      /\ delivery'[k] = [delivery[k] EXCEPT !.due = TRUE]
  BY <1>1, <1>2
<1>4. delivery'[k] \in DeliveryRows /\ delivery'[k].status = delivery[k].status
  BY <1>2, <1>3 DEF DeliveryRows
<1>5. /\ UNCHANGED <<job, todo, tries, handler, pushed, moved, lost, notes, subs, worker, placed, calls>>
  BY <1>1 DEF rowVars, historyVars, trailVars
<1>6. RowsAreSound'
  BY <1>3, <1>4, <1>5 DEF PushInv, RowsAreSound
<1>7. \A l \in Keys : delivery'[l] = delivery[l]
        \/ (delivery[l] # NoDelivery /\ delivery'[l].status = delivery[l].status)
  BY <1>1, <1>3, <1>4
<1>8. \A i \in SubIds : subs[i] # Unused => subs'[i] # Unused /\ subs'[i] = subs[i]
  BY <1>5
<1> QED
  BY <1>5, <1>6, <1>7, <1>8, WorkersRest, HoldingsKeep

\* What a user does to the subscriptions and the inbox.
LEMMA UserKeeps ==
  ASSUME PushInv, NEW call \in calls, User(call)
  PROVE  PushInv'
<1>1. /\ calls' = calls \ {call}
      /\ UNCHANGED <<job, todo, tries, handler, worker, pushed, lost, placed>>
  BY DEF User, RegisterSubscription, RemoveSubscription, UpdatePreferences, MarkRead,
    StartReading, UserLeaves, Ask, queueVars, trailVars
<1>2. /\ DOMAIN notes = Events /\ DOMAIN subs = SubIds /\ DOMAIN delivery = Keys
  BY DEF PushInv, RowsAreSound
<1>3. /\ moved \subseteq moved' /\ DOMAIN subs' = SubIds
      /\ \A i \in SubIds : subs[i] # Unused =>
           subs'[i] # Unused /\ (subs'[i] = subs[i] \/ i \in moved' \/ subs'[i] = Removed)
  <2>1. CASE RegisterSubscription(call)
    <3> DEFINE row == [endpoint |-> call.on, profile |-> call.who]
    <3>1. row # Unused
      BY <2>1 DEF RegisterSubscription, PushInv, RowsAreSound
    <3>2. \/ UNCHANGED moved /\ \E i \in SubIds : subs[i] = Unused /\ subs' = [subs EXCEPT ![i] = row]
          \/ \E i \in SubIds : /\ subs' = [subs EXCEPT ![i] = row]
                               /\ moved' = moved \cup IF subs[i] = row THEN {} ELSE {i}
      BY <2>1 DEF RegisterSubscription, Live
    <3> HIDE DEF row
    <3>3. CASE UNCHANGED moved /\ \E i \in SubIds : subs[i] = Unused /\ subs' = [subs EXCEPT ![i] = row]
      BY <3>3, <3>1, <1>2
    <3>4. CASE \E i \in SubIds : /\ subs' = [subs EXCEPT ![i] = row]
                                 /\ moved' = moved \cup IF subs[i] = row THEN {} ELSE {i}
      BY <3>4, <3>1, <1>2
    <3> QED
      BY <3>2, <3>3, <3>4
  <2>2. CASE RemoveSubscription(call)
    BY <2>2, <1>2, NothingAssumption DEF RemoveSubscription, DropSubscription
  <2>3. CASE UpdatePreferences(call) \/ MarkRead(call) \/ StartReading(call)
    BY <2>3, <1>2 DEF UpdatePreferences, MarkRead, StartReading, rowVars
  <2> QED
    BY <2>1, <2>2, <2>3 DEF User
<1>4. DOMAIN delivery' = Keys /\ \A k \in Keys : delivery'[k] = delivery[k] \/ delivery'[k] = NoDelivery
  BY <1>2 DEF User, RegisterSubscription, RemoveSubscription, UpdatePreferences, MarkRead,
    StartReading, DropSubscription, queueVars
<1>5. /\ DOMAIN notes' = Events
      /\ \A e \in Events : /\ notes'[e] = NoNote <=> notes[e] = NoNote
                           /\ notes'[e].to = notes[e].to
                           /\ notes'[e] # NoNote =>
                                notes'[e] \in NoteRows /\ notes'[e].key % PerMilli = 0
  <2>1. CASE MarkRead(call)
    <3>1. notes' = [e \in Events |-> IF e \in call.on /\ notes[e] # NoNote /\ notes[e].to = call.who
                                      THEN [notes[e] EXCEPT !.read = TRUE] ELSE notes[e]]
      BY <2>1 DEF MarkRead
    <3>2. ASSUME NEW e \in Events
          PROVE  /\ notes'[e] = NoNote <=> notes[e] = NoNote
                 /\ notes'[e].to = notes[e].to
                 /\ notes'[e] # NoNote =>
                      notes'[e] \in NoteRows /\ notes'[e].key % PerMilli = 0
      <4>1. notes[e] # NoNote => notes[e] \in NoteRows /\ notes[e].key % PerMilli = 0
        BY DEF PushInv, RowsAreSound
      <4>2. CASE notes'[e] = notes[e]
        BY <4>1, <4>2
      <4>3. CASE notes[e] # NoNote /\ notes'[e] = [notes[e] EXCEPT !.read = TRUE]
        <5>1. /\ notes'[e] \in NoteRows /\ notes'[e].to = notes[e].to
              /\ notes'[e].key = notes[e].key
          BY <4>1, <4>3 DEF NoteRows
        <5> QED
          BY <5>1, <4>1, <4>3, NothingAssumption
      <4> QED
        BY <4>2, <4>3, <3>1
    <3> QED
      BY <3>1, <3>2
  <2>2. CASE ~MarkRead(call)
    <3>1. notes' = notes
      BY <2>2 DEF User, RegisterSubscription, RemoveSubscription, UpdatePreferences, StartReading, rowVars
    <3> QED
      BY <3>1 DEF PushInv, RowsAreSound
  <2> QED
    BY <2>1, <2>2
<1>6. RowsAreSound'
  <2>1. \A k \in Keys : delivery'[k] # NoDelivery => delivery'[k] \in DeliveryRows
    BY <1>4 DEF PushInv, RowsAreSound
  <2>2. \A c \in calls' : c.does = "register" => [endpoint |-> c.on, profile |-> c.who] # Unused
    BY <1>1 DEF PushInv, RowsAreSound
  <2> QED
    BY <2>1, <2>2, <1>1, <1>3, <1>4, <1>5 DEF PushInv, RowsAreSound
<1> QED
  BY <1>1, <1>3, <1>4, <1>5, <1>6, WorkersRest, HoldingsKeep

\* What a worker does.
LEMMA WorkKeeps ==
  ASSUME PushInv, NEW w \in Workers, Work(w) \/ LoseMark(w) \/ GiveUp(w)
  PROVE  PushInv'
<1>1. CASE MarkProcessed(w)
  <2>1. worker[w].at \notin {"idle", "read", "send"}
    BY <1>1 DEF MarkProcessed
  <2>2. /\ SetRow(worker[w].cur, "processed", 0) /\ NextOf(w, "send")
        /\ UNCHANGED <<trailVars, handler, prefs, notes, moved, pushed, placed, calls, lost, subs>>
    BY <1>1 DEF MarkProcessed, WorkerLeaves
  <2> QED
    BY <2>1, <2>2, MarkKeeps
<1>2. CASE MarkFailed(w)
  <2>1. worker[w].at = "failed"
    BY <1>2 DEF MarkFailed
  <2>2. /\ SetRow(worker[w].cur, "failed", 1) /\ NextOf(w, "send")
        /\ UNCHANGED <<trailVars, handler, prefs, notes, moved, pushed, placed, calls, lost, subs>>
    BY <1>2 DEF MarkFailed, WorkerLeaves
  <2> QED
    BY <2>1, <2>2, MarkKeeps
<1> QED
  BY <1>1, <1>2, ClaimKeeps, ReadDetailsKeeps, SendPushKeeps, DeleteKeeps, LoseMarkKeeps, IdleKeeps
  DEF Work

\* What touches neither the rows nor the workers keeps what is said of them.
LEMMA RowsStay ==
  ASSUME PushInv, UNCHANGED <<subs, notes, delivery, placed, worker, calls, pushed, moved, lost>>,
         handler' \in [Events -> HandlerRows], EventsAreNew', HandlersGoAhead'
  PROVE  PushInv'
<1>1. /\ RowsAreSound' /\ WorkersHoldApart' /\ SentIsNotQueued' /\ PushesReachTheRecipientOnce'
      /\ PushesAreNumbered'
  BY DEF PushInv, RowsAreSound, WorkersHoldApart, SentIsNotQueued, PushesReachTheRecipientOnce,
    PushesAreNumbered, Pushes, Held
<1>2. QueueIsRight'
  <2> SUFFICES ASSUME NEW k \in Keys,
                      delivery'[k] # NoDelivery \/ (\E v \in Workers : k \in Held(v)')
               PROVE  IsOf(k[2], notes[k[1]].to)'
    BY DEF QueueIsRight
  <2>1. delivery[k] # NoDelivery \/ (\E v \in Workers : k \in Held(v))
    BY DEF Held
  <2>2. IsOf(k[2], notes[k[1]].to)
    BY <2>1 DEF PushInv, QueueIsRight
  <2> QED
    BY <2>2 DEF IsOf, Live
<1> QED
  BY <1>1, <1>2 DEF PushInv

\* A step of the dispatcher that stores nothing.
LEMMA HandlerMoves ==
  ASSUME PushInv, NEW e \in Events, NEW h \in HandlerRows, handler[e].at # "idle",
         handler' = [handler EXCEPT ![e] = h],
         UNCHANGED <<job, todo, tries, subs, notes, delivery, placed, worker, calls, pushed, moved, lost>>,
         h.at # "order",
         h.at = "channels" => handler[e].at \in {"order", "channels"} /\ h.to \in Profiles,
         h.at = "list" => handler[e].at = "list" /\ h.to = handler[e].to,
         h.at = "enqueue" =>
           /\ handler[e].at \in {"list", "enqueue"} /\ h.to = handler[e].to
           /\ \A i \in h.left : IsNew(<<e, i>>) /\ IsOf(i, h.to)
  PROVE  PushInv'
<1>1. /\ handler \in [Events -> HandlerRows]
      /\ EventsAreNew /\ HandlersGoAhead
  BY DEF PushInv, RowsAreSound
<1>2. /\ handler'[e] = h /\ \A d \in Events \ {e} : handler'[d] = handler[d]
      /\ handler' \in [Events -> HandlerRows]
  BY <1>1
<1>3. \A k : IsNew(k)' <=> IsNew(k)
  BY DEF IsNew, Held
<1>4. \A i, p : IsOf(i, p)' <=> IsOf(i, p)
  BY DEF IsOf, Live
<1>5. EventsAreNew'
  <2> SUFFICES ASSUME NEW r \in Requests, job[r] # NoJob, job[r].event # NoEvent
               PROVE  /\ job[r].event \in Events /\ tries[r] = MaxTries
                      /\ \A q \in Requests \ {r} : job[q] # NoJob => job[q].event # job[r].event
                      /\ \A s \in todo[r] : s.does = "emit" /\ todo[r] = {s}
                      /\ todo[r] # {} =>
                           /\ handler'[job[r].event].at = "idle" /\ notes[job[r].event] = NoNote
                           /\ \A i \in SubIds : IsNew(<<job[r].event, i>>)
    BY <1>3 DEF EventsAreNew
  <2>1. /\ job[r].event \in Events /\ tries[r] = MaxTries
        /\ \A q \in Requests \ {r} : job[q] # NoJob => job[q].event # job[r].event
        /\ \A s \in todo[r] : s.does = "emit" /\ todo[r] = {s}
        /\ todo[r] # {} =>
             /\ handler[job[r].event].at = "idle" /\ notes[job[r].event] = NoNote
             /\ \A i \in SubIds : IsNew(<<job[r].event, i>>)
    BY <1>1 DEF EventsAreNew
  <2> QED
    BY <2>1, <1>2
<1>6. ASSUME NEW d \in Events
      PROVE  /\ handler'[d].at \in {"order", "channels"} => notes[d] = NoNote
             /\ handler'[d].at \in {"order", "channels", "list"} => \A i \in SubIds : IsNew(<<d, i>>)
             /\ handler'[d].at = "channels" => handler'[d].to \in Profiles
             /\ handler'[d].at \in {"list", "enqueue"} =>
                  notes[d] # NoNote /\ notes[d].to = handler'[d].to
             /\ handler'[d].at = "enqueue" =>
                  \A i \in handler'[d].left : IsNew(<<d, i>>) /\ IsOf(i, handler'[d].to)
  <2>1. /\ handler[d].at \in {"order", "channels"} => notes[d] = NoNote
        /\ handler[d].at \in {"order", "channels", "list"} => \A i \in SubIds : IsNew(<<d, i>>)
        /\ handler[d].at = "channels" => handler[d].to \in Profiles
        /\ handler[d].at \in {"list", "enqueue"} => notes[d] # NoNote /\ notes[d].to = handler[d].to
        /\ handler[d].at = "enqueue" =>
             \A i \in handler[d].left : IsNew(<<d, i>>) /\ IsOf(i, handler[d].to)
    BY <1>1 DEF HandlersGoAhead
  <2>2. CASE d = e
    BY <2>1, <2>2, <1>2
  <2>3. CASE d # e
    BY <2>1, <2>3, <1>2
  <2> QED
    BY <2>2, <2>3
<1>7. HandlersGoAhead'
  <2>1. \A d \in Events : \A i : IsOf(i, handler[d].to)' <=> IsOf(i, handler'[d].to)
    BY DEF IsOf, Live
  <2> QED
    BY <2>1, <1>3, <1>6 DEF HandlersGoAhead
<1> QED
  BY <1>2, <1>5, <1>7, RowsStay

\* An error, or nothing more to do, ends the handler.
LEMMA HandlerEndsKeeps ==
  ASSUME PushInv, NEW e \in Events, handler[e].at # "idle", HandlerEnds(e),
         UNCHANGED <<job, todo, tries, subs, notes, delivery, placed, worker, calls, pushed, moved, lost>>
  PROVE  PushInv'
<1> DEFINE h == [handler[e] EXCEPT !.at = "done"]
<1>1. handler[e] \in HandlerRows /\ handler' = [handler EXCEPT ![e] = h]
  BY DEF HandlerEnds, Handle, PushInv, RowsAreSound
<1>2. h \in HandlerRows /\ h.at = "done"
  BY <1>1 DEF HandlerRows
<1> HIDE DEF h
<1> QED
  BY <1>1, <1>2, HandlerMoves

\* The recipient is the profile the order is assigned to.
LEMMA FindRecipientKeeps ==
  ASSUME PushInv, NEW e \in Events, FindRecipient(e)
  PROVE  PushInv'
<1>1. PICK to \in Profiles \cup {Nobody} :
        handler' = [handler EXCEPT ![e] =
          [handler[e] EXCEPT !.at = IF to = Nobody THEN "done" ELSE "channels", !.to = to]]
  BY DEF FindRecipient, Handle
<1>2. /\ handler[e].at = "order" /\ handler[e] \in HandlerRows
      /\ UNCHANGED <<job, todo, tries, subs, notes, delivery, placed, worker, calls, pushed, moved, lost>>
  BY DEF FindRecipient, PushInv, RowsAreSound, rowVars, queueVars, HandlerLeaves, historyVars, trailVars
<1> DEFINE h == [handler[e] EXCEPT !.at = IF to = Nobody THEN "done" ELSE "channels", !.to = to]
<1>3. h \in HandlerRows /\ h.at \in {"done", "channels"} /\ (h.at = "channels" => h.to \in Profiles)
  BY <1>2 DEF HandlerRows
<1>4. handler' = [handler EXCEPT ![e] = h]
  BY <1>1
<1> HIDE DEF h
<1> QED
  BY <1>2, <1>3, <1>4, HandlerMoves

\* The channels are read one by one.
LEMMA ChannelKeeps ==
  ASSUME PushInv, NEW e \in Events, IsChannelEnabled(e)
  PROVE  PushInv'
<1>1. PICK c \in Channels :
        handler' = [handler EXCEPT ![e] =
          [handler[e] EXCEPT !.asked = @ \cup {c}, !.on = @ \cup ({c} \cap prefs[handler[e].to])]]
  BY DEF IsChannelEnabled, Handle
<1>2. /\ handler[e].at = "channels" /\ handler[e] \in HandlerRows /\ handler[e].to \in Profiles
      /\ UNCHANGED <<job, todo, tries, subs, notes, delivery, placed, worker, calls, pushed, moved, lost>>
  BY DEF IsChannelEnabled, PushInv, RowsAreSound, HandlersGoAhead, rowVars, queueVars, HandlerLeaves,
    historyVars, trailVars
<1> DEFINE h == [handler[e] EXCEPT !.asked = @ \cup {c},
                                   !.on = @ \cup ({c} \cap prefs[handler[e].to])]
<1>3. h \in HandlerRows /\ h.at = "channels" /\ h.to = handler[e].to
  BY <1>2 DEF HandlerRows
<1>4. handler' = [handler EXCEPT ![e] = h]
  BY <1>1
<1> HIDE DEF h
<1> QED
  BY <1>2, <1>3, <1>4, HandlerMoves

\* The subscriptions listed are those of the recipient.
LEMMA ListKeeps ==
  ASSUME PushInv, NEW e \in Events, ListActiveSubscriptions(e)
  PROVE  PushInv'
<1> DEFINE left == {i \in Live : subs[i].profile = handler[e].to}
           h == [handler[e] EXCEPT !.at = "enqueue", !.left = left]
<1>1. handler' = [handler EXCEPT ![e] = h]
  BY DEF ListActiveSubscriptions, Handle
<1>2. /\ handler[e].at = "list" /\ handler[e] \in HandlerRows
      /\ \A i \in SubIds : IsNew(<<e, i>>)
      /\ UNCHANGED <<job, todo, tries, subs, notes, delivery, placed, worker, calls, pushed, moved, lost>>
  BY DEF ListActiveSubscriptions, PushInv, RowsAreSound, HandlersGoAhead, rowVars, queueVars,
    HandlerLeaves, historyVars, trailVars
<1>3. left \subseteq SubIds /\ \A i \in left : IsOf(i, handler[e].to)
  BY DEF Live, IsOf
<1> HIDE DEF left
<1>4. h \in HandlerRows /\ h.at = "enqueue" /\ h.to = handler[e].to /\ h.left = left
  BY <1>2, <1>3 DEF HandlerRows
<1> HIDE DEF h
<1>5. \A i \in h.left : IsNew(<<e, i>>) /\ IsOf(i, h.to)
  BY <1>2, <1>3, <1>4
<1> QED
  BY <1>1, <1>2, <1>4, <1>5, HandlerMoves

\* The notification is created; nothing was queued for it.
LEMMA CreateKeeps ==
  ASSUME PushInv, NEW e \in Events, CreateNotification(e)
  PROVE  PushInv'
<1>1. /\ handler[e].at = "channels" /\ handler[e] \in HandlerRows /\ handler[e].to \in Profiles
      /\ \A i \in SubIds : IsNew(<<e, i>>)
      /\ notes[e] = NoNote
      /\ UNCHANGED <<job, todo, tries, subs, delivery, placed, worker, calls, pushed, moved, lost>>
  BY DEF CreateNotification, PushInv, RowsAreSound, HandlersGoAhead, rowVars, queueVars, HandlerLeaves,
    historyVars, trailVars
<1>2. CASE handler[e].on = {}
  <2>1. HandlerEnds(e) /\ UNCHANGED notes
    BY <1>2 DEF CreateNotification
  <2> QED
    BY <2>1, <1>1, HandlerEndsKeeps
<1>3. CASE handler[e].on # {}
  <2> DEFINE h == [handler[e] EXCEPT !.at = IF "webPush" \in handler[e].on THEN "list" ELSE "done"]
             note == [to |-> handler[e].to, key |-> Now, read |-> FALSE]
  <2>1. handler' = [handler EXCEPT ![e] = h] /\ notes' = [notes EXCEPT ![e] = note]
    BY <1>3 DEF CreateNotification, Handle
  <2>2. h \in HandlerRows /\ h.at \in {"list", "done"} /\ h.to = handler[e].to
    BY <1>1 DEF HandlerRows
  <2>3. /\ note \in NoteRows /\ note.key % PerMilli = 0 /\ note.to = handler[e].to
    BY <1>1, ListsAssumption DEF NoteRows, Now
  <2>4. note # NoNote
    BY <2>3, NothingAssumption
  <2> HIDE DEF h, note
  <2>5. /\ DOMAIN notes = Events /\ handler \in [Events -> HandlerRows]
    BY DEF PushInv, RowsAreSound
  <2>6. /\ DOMAIN notes' = Events /\ notes'[e] = note
        /\ handler' \in [Events -> HandlerRows] /\ handler'[e] = h
        /\ \A d \in Events \ {e} : notes'[d] = notes[d] /\ handler'[d] = handler[d]
    BY <2>1, <2>2, <2>5
  <2>7. \A k : IsNew(k)' <=> IsNew(k)
    BY <1>1 DEF IsNew, Held
  <2>8. \A i, p : IsOf(i, p)' <=> IsOf(i, p)
    BY <1>1 DEF IsOf, Live
  <2>9. RowsAreSound'
    <3>1. \A d \in Events : notes'[d] # NoNote => notes'[d] \in NoteRows /\ notes'[d].key % PerMilli = 0
      BY <2>3, <2>6 DEF PushInv, RowsAreSound
    <3> QED
      BY <3>1, <2>6, <1>1 DEF PushInv, RowsAreSound
  <2>10. EventsAreNew'
    <3> SUFFICES ASSUME NEW r \in Requests, job[r] # NoJob, job[r].event # NoEvent
                 PROVE  /\ job[r].event \in Events /\ tries[r] = MaxTries
                        /\ \A q \in Requests \ {r} : job[q] # NoJob => job[q].event # job[r].event
                        /\ \A s \in todo[r] : s.does = "emit" /\ todo[r] = {s}
                        /\ todo[r] # {} =>
                             /\ handler'[job[r].event].at = "idle" /\ notes'[job[r].event] = NoNote
                             /\ \A i \in SubIds : IsNew(<<job[r].event, i>>)
      BY <1>1, <2>7 DEF EventsAreNew
    <3>1. /\ job[r].event \in Events /\ tries[r] = MaxTries
          /\ \A q \in Requests \ {r} : job[q] # NoJob => job[q].event # job[r].event
          /\ \A s \in todo[r] : s.does = "emit" /\ todo[r] = {s}
          /\ todo[r] # {} =>
               /\ handler[job[r].event].at = "idle" /\ notes[job[r].event] = NoNote
               /\ \A i \in SubIds : IsNew(<<job[r].event, i>>)
      BY DEF PushInv, EventsAreNew
    <3>2. todo[r] # {} => job[r].event # e
      BY <3>1, <1>1
    <3> QED
      BY <3>1, <3>2, <2>6
  <2>11. HandlersGoAhead'
    <3>1. ASSUME NEW d \in Events
          PROVE  /\ handler'[d].at \in {"order", "channels"} => notes'[d] = NoNote
                 /\ handler'[d].at \in {"order", "channels", "list"} => \A i \in SubIds : IsNew(<<d, i>>)
                 /\ handler'[d].at = "channels" => handler'[d].to \in Profiles
                 /\ handler'[d].at \in {"list", "enqueue"} =>
                      notes'[d] # NoNote /\ notes'[d].to = handler'[d].to
                 /\ handler'[d].at = "enqueue" =>
                      \A i \in handler'[d].left : IsNew(<<d, i>>) /\ IsOf(i, handler'[d].to)
      <4>1. CASE d = e
        BY <4>1, <1>1, <2>2, <2>3, <2>4, <2>6
      <4>2. CASE d # e
        BY <4>2, <2>6 DEF PushInv, HandlersGoAhead
      <4> QED
        BY <4>1, <4>2
    <3>2. \A d \in Events : \A i : IsOf(i, handler[d].to)' <=> IsOf(i, handler'[d].to)
      BY <1>1 DEF IsOf, Live
    <3> QED
      BY <2>7, <3>1, <3>2 DEF HandlersGoAhead
  <2>12. \A k \in Keys : delivery[k] # NoDelivery \/ (\E w \in Workers : k \in Held(w)) =>
           k[1] # e /\ k[1] \in Events
    <3> SUFFICES ASSUME NEW k \in Keys, k[1] = e
                 PROVE  IsNew(k) /\ k[1] \in Events
      BY DEF IsNew, Keys
    <3>1. k = <<e, k[2]>> /\ k[2] \in SubIds
      BY DEF Keys
    <3> QED
      BY <3>1, <1>1
  <2>13. QueueIsRight'
    <3> SUFFICES ASSUME NEW k \in Keys,
                        delivery'[k] # NoDelivery \/ (\E w \in Workers : k \in Held(w)')
                 PROVE  IsOf(k[2], notes[k[1]].to)'
      BY DEF QueueIsRight
    <3>1. delivery[k] # NoDelivery \/ (\E w \in Workers : k \in Held(w))
      BY <1>1 DEF Held
    <3>2. IsOf(k[2], notes[k[1]].to) /\ notes'[k[1]] = notes[k[1]]
      BY <3>1, <2>6, <2>12 DEF PushInv, QueueIsRight
    <3> QED
      BY <3>2, <1>1 DEF IsOf, Live
  <2>14. WorkersHoldApart' /\ SentIsNotQueued' /\ PushesAreNumbered'
    BY <1>1 DEF PushInv, WorkersHoldApart, SentIsNotQueued, PushesAreNumbered, Pushes, Held
  <2>15. PushesReachTheRecipientOnce'
    <3> SUFFICES ASSUME NEW p \in pushed
                 PROVE  p[1][2] \in moved \/ p[2] \in {notes'[p[1][1]].to, Nobody}
      BY <1>1 DEF PushInv, PushesReachTheRecipientOnce
    <3>1. /\ p[1][2] \in moved \/ p[2] \in {notes[p[1][1]].to, Nobody}
          /\ p[1] \in Keys
      BY DEF PushInv, PushesReachTheRecipientOnce, SentIsNotQueued
    <3>2. p[1] = <<p[1][1], p[1][2]>> /\ p[1][1] \in Events /\ p[1][2] \in SubIds
      BY <3>1 DEF Keys
    <3>3. p[1][1] # e
      BY <3>2, <1>1 DEF IsNew
    <3> QED
      BY <3>1, <3>2, <3>3, <2>6
  <2> QED
    BY <2>9, <2>10, <2>11, <2>13, <2>14, <2>15 DEF PushInv
<1> QED
  BY <1>2, <1>3

\* One delivery is queued, to a subscription the recipient had.
LEMMA EnqueueKeeps ==
  ASSUME PushInv, NEW e \in Events, Enqueue(e)
  PROVE  PushInv'
<1>1. /\ handler[e].at = "enqueue" /\ handler[e] \in HandlerRows
      /\ notes[e].to = handler[e].to /\ notes[e] # NoNote
      /\ \A i \in handler[e].left : IsNew(<<e, i>>) /\ IsOf(i, handler[e].to)
      /\ UNCHANGED <<job, todo, tries, subs, notes, worker, calls, pushed, moved, lost>>
  BY DEF Enqueue, PushInv, RowsAreSound, HandlersGoAhead, rowVars, HandlerLeaves,
    historyVars, trailVars
<1>2. CASE HandlerEnds(e) /\ UNCHANGED queueVars
  BY <1>1, <1>2, HandlerEndsKeeps DEF queueVars
<1>3. CASE \E i \in handler[e].left \cap Live :
             /\ Handle(e, [handler[e] EXCEPT !.left = @ \ {i}])
             /\ delivery' = [delivery EXCEPT ![<<e, i>>] = Fresh(placed + 1)]
             /\ placed' = placed + 1
  <2>1. PICK i \in handler[e].left \cap Live :
             /\ Handle(e, [handler[e] EXCEPT !.left = @ \ {i}])
             /\ delivery' = [delivery EXCEPT ![<<e, i>>] = Fresh(placed + 1)]
             /\ placed' = placed + 1
    BY <1>3
  <2> DEFINE h == [handler[e] EXCEPT !.left = @ \ {i}]
             n == <<e, i>>
  <2>2. handler' = [handler EXCEPT ![e] = h]
    BY <2>1 DEF Handle
  <2>3. /\ h \in HandlerRows /\ h.at = "enqueue" /\ h.to = handler[e].to
        /\ h.left = handler[e].left \ {i}
    BY <1>1 DEF HandlerRows
  <2>4. i \in SubIds /\ n \in Keys /\ IsNew(n) /\ IsOf(i, notes[e].to) /\ n[1] = e /\ n[2] = i
    BY <1>1 DEF Live, Keys
  <2>5. Fresh(placed + 1) \in DeliveryRows /\ Fresh(placed + 1).status = "pending" /\ placed' \in Nat
    BY <2>1 DEF Fresh, DeliveryRows, PushInv, RowsAreSound
  <2>6. DOMAIN delivery = Keys /\ handler \in [Events -> HandlerRows]
    BY DEF PushInv, RowsAreSound
  <2>7. /\ DOMAIN delivery' = Keys /\ delivery'[n] = Fresh(placed + 1)
        /\ \A k \in Keys \ {n} : delivery'[k] = delivery[k]
        /\ handler' \in [Events -> HandlerRows] /\ handler'[e] = h
        /\ \A d \in Events \ {e} : handler'[d] = handler[d]
    BY <2>1, <2>2, <2>3, <2>4, <2>6
  <2>8. \A d \in Events, j \in SubIds : <<d, j>> \in Keys /\ (<<d, j>> = n <=> d = e /\ j = i)
    BY DEF Keys
  <2> HIDE DEF h, n
  <2>9. \A k \in Keys \ {n} : IsNew(k) => IsNew(k)'
    BY <1>1, <2>7 DEF IsNew, Held
  <2>10. RowsAreSound'
    <3>1. \A k \in Keys : delivery'[k] # NoDelivery => delivery'[k] \in DeliveryRows
      BY <2>5, <2>7 DEF PushInv, RowsAreSound
    <3> QED
      BY <3>1, <2>5, <2>7, <1>1 DEF PushInv, RowsAreSound
  <2>11. EventsAreNew'
    <3> SUFFICES ASSUME NEW r \in Requests, job[r] # NoJob, job[r].event # NoEvent
                 PROVE  /\ job[r].event \in Events /\ tries[r] = MaxTries
                        /\ \A q \in Requests \ {r} : job[q] # NoJob => job[q].event # job[r].event
                        /\ \A s \in todo[r] : s.does = "emit" /\ todo[r] = {s}
                        /\ todo[r] # {} =>
                             /\ handler'[job[r].event].at = "idle" /\ notes[job[r].event] = NoNote
                             /\ \A j \in SubIds : IsNew(<<job[r].event, j>>)'
      BY <1>1 DEF EventsAreNew
    <3>1. /\ job[r].event \in Events /\ tries[r] = MaxTries
          /\ \A q \in Requests \ {r} : job[q] # NoJob => job[q].event # job[r].event
          /\ \A s \in todo[r] : s.does = "emit" /\ todo[r] = {s}
          /\ todo[r] # {} =>
               /\ handler[job[r].event].at = "idle" /\ notes[job[r].event] = NoNote
               /\ \A j \in SubIds : IsNew(<<job[r].event, j>>)
      BY DEF PushInv, EventsAreNew
    <3>2. todo[r] # {} => job[r].event # e
      BY <3>1, <1>1
    <3>3. ASSUME todo[r] # {}, NEW j \in SubIds PROVE IsNew(<<job[r].event, j>>)'
      <4>1. PICK d : d = job[r].event
        OBVIOUS
      <4>2. d \in Events /\ d # e /\ IsNew(<<d, j>>)
        BY <3>1, <3>2, <3>3, <4>1
      <4>3. <<d, j>> \in Keys \ {n}
        BY <4>2, <2>8
      <4>4. IsNew(<<d, j>>)'
        BY <4>2, <4>3, <2>9
      <4> QED
        BY <4>1, <4>4, <1>1 DEF IsNew, Held
    <3> QED
      BY <3>1, <3>2, <3>3, <2>7
  <2>12. HandlersGoAhead'
    <3>1. ASSUME NEW d \in Events
          PROVE  /\ handler'[d].at \in {"order", "channels"} => notes[d] = NoNote
                 /\ handler'[d].at \in {"order", "channels", "list"} =>
                      \A j \in SubIds : IsNew(<<d, j>>)'
                 /\ handler'[d].at = "channels" => handler'[d].to \in Profiles
                 /\ handler'[d].at \in {"list", "enqueue"} =>
                      notes[d] # NoNote /\ notes[d].to = handler'[d].to
                 /\ handler'[d].at = "enqueue" =>
                      \A j \in handler'[d].left : IsNew(<<d, j>>)' /\ IsOf(j, handler'[d].to)
      <4>1. CASE d = e
        <5>1. \A j \in h.left : j \in SubIds /\ j # i /\ j \in handler[e].left
          BY <2>3 DEF HandlerRows
        <5>2. \A j \in h.left : IsNew(<<e, j>>)' /\ IsOf(j, handler[e].to)
          BY <5>1, <1>1, <2>8, <2>9
        <5> QED
          BY <4>1, <5>2, <1>1, <2>3, <2>7
      <4>2. CASE d # e
        <5>1. /\ handler[d].at \in {"order", "channels"} => notes[d] = NoNote
              /\ handler[d].at \in {"order", "channels", "list"} => \A j \in SubIds : IsNew(<<d, j>>)
              /\ handler[d].at = "channels" => handler[d].to \in Profiles
              /\ handler[d].at \in {"list", "enqueue"} => notes[d] # NoNote /\ notes[d].to = handler[d].to
              /\ handler[d].at = "enqueue" =>
                   \A j \in handler[d].left : IsNew(<<d, j>>) /\ IsOf(j, handler[d].to)
          BY DEF PushInv, HandlersGoAhead
        <5>2. \A j \in SubIds : IsNew(<<d, j>>) => IsNew(<<d, j>>)'
          BY <4>2, <2>8, <2>9
        <5>3. handler[d].left \subseteq SubIds
          BY <2>6 DEF HandlerRows
        <5> QED
          BY <4>2, <5>1, <5>2, <5>3, <2>7
      <4> QED
        BY <4>1, <4>2
    <3>2. \A d \in Events : \A j : IsOf(j, handler[d].to)' <=> IsOf(j, handler'[d].to)
      BY <1>1 DEF IsOf, Live
    <3> QED
      BY <1>1, <3>1, <3>2 DEF HandlersGoAhead
  <2>13. QueueIsRight'
    <3> SUFFICES ASSUME NEW k \in Keys,
                        delivery'[k] # NoDelivery \/ (\E w \in Workers : k \in Held(w)')
                 PROVE  IsOf(k[2], notes[k[1]].to)'
      BY DEF QueueIsRight
    <3>1. IsOf(k[2], notes[k[1]].to)
      <4>1. CASE k = n
        <5>1. k[1] = e /\ k[2] = i
          BY <4>1, <2>4
        <5> QED
          BY <5>1, <2>4
      <4>2. CASE k # n
        <5>1. delivery[k] # NoDelivery \/ (\E w \in Workers : k \in Held(w))
          BY <4>2, <1>1, <2>7 DEF Held
        <5> QED
          BY <5>1 DEF PushInv, QueueIsRight
      <4> QED
        BY <4>1, <4>2
    <3> QED
      BY <3>1, <1>1 DEF IsOf, Live
  <2>14. WorkersHoldApart'
    <3>1. \A w \in Workers : Held(w)' = Held(w) /\ Held(w) \subseteq Keys /\ n \notin Held(w)
      <4>1. \A w \in Workers : worker[w] \in WorkerRows
        BY DEF PushInv, RowsAreSound
      <4>2. \A w \in Workers : Held(w) \subseteq Keys
        BY <4>1 DEF Held, WorkerRows
      <4> QED
        BY <4>2, <1>1, <2>4 DEF Held, IsNew
    <3>2. \A w \in Workers : \A k \in Held(w)' : delivery'[k] = NoDelivery \/ delivery'[k].status = "processing"
      BY <3>1, <2>7 DEF PushInv, WorkersHoldApart
    <3> QED
      BY <3>1, <3>2, <1>1 DEF PushInv, WorkersHoldApart
  <2>15. SentIsNotQueued'
    <3>1. \A p \in pushed : p[1] \in Keys \ {n}
      BY <2>4 DEF PushInv, SentIsNotQueued, IsNew
    <3> QED
      BY <3>1, <1>1, <2>7 DEF PushInv, SentIsNotQueued
  <2>16. PushesReachTheRecipientOnce' /\ PushesAreNumbered'
    BY <1>1 DEF PushInv, PushesReachTheRecipientOnce, PushesAreNumbered, Pushes
  <2> QED
    BY <2>10, <2>11, <2>12, <2>13, <2>14, <2>15, <2>16 DEF PushInv
<1> QED
  BY <1>2, <1>3 DEF Enqueue

\* What the dispatcher does.
LEMMA DispatchKeeps ==
  ASSUME PushInv, NEW e \in Events, Dispatch(e) \/ Swallow(e)
  PROVE  PushInv'
<1>1. CASE Swallow(e)
  <2>1. /\ handler[e].at # "idle" /\ HandlerEnds(e)
        /\ UNCHANGED <<job, todo, tries, subs, notes, delivery, placed, worker, calls, pushed, moved, lost>>
    BY <1>1 DEF Swallow, rowVars, queueVars, HandlerLeaves, historyVars, trailVars
  <2> QED
    BY <2>1, HandlerEndsKeeps
<1> QED
  BY <1>1, FindRecipientKeeps, ChannelKeeps, CreateKeeps, ListKeeps, EnqueueKeeps DEF Dispatch

\* A request with an event left takes no step but to publish it.
LEMMA RequestKeeps ==
  ASSUME TrailInv, PushInv, NEW r \in Requests, Request(r)
  PROVE  PushInv'
<1>1. /\ DOMAIN todo = Requests /\ DOMAIN tries = Requests
      /\ UNCHANGED <<handler, subs, notes, delivery, placed, worker, calls, pushed, moved, lost>>
  BY DEF TrailInv, RequestsRun, Request, ownVars, rowVars, queueVars, historyVars
<1>2. \/ SendRequest(r)
      \/ Answer(r)
      \/ \E s \in todo[r] : /\ s.does # "emit"
                            /\ \E left : GoOn(r, left)
                            /\ UNCHANGED <<job, tries>>
  <2>1. ASSUME NEW s \in todo[r], Fail(r, s) PROVE (\E left : GoOn(r, left)) /\ UNCHANGED <<job, tries>>
    BY <2>1 DEF Fail
  <2>2. CASE CommitWrite(r)
    <3>1. PICK s \in Ready(r, "commit") : /\ GoOn(r, Without(r, s.item)) \/ GoOn(r, todo[r] \ {s})
                                          /\ UNCHANGED <<job, tries>>
      BY <2>2 DEF CommitWrite
    <3>2. s \in todo[r] /\ s.does = "commit"
      BY DEF Ready
    <3> QED
      BY <3>1, <3>2
  <2>3. CASE Refuse(r)
    <3>1. PICK s \in Ready(r, "commit") : Fail(r, s)
      BY <2>3 DEF Refuse
    <3> QED
      BY <3>1, <2>1 DEF Ready
  <2>4. CASE RecordAudit(r)
    <3>1. PICK s \in Ready(r, "audit") : GoOn(r, todo[r] \ {s}) /\ UNCHANGED <<job, tries>>
      BY <2>4 DEF RecordAudit, Record
    <3>2. s \in todo[r] /\ s.does = "audit"
      BY DEF Ready
    <3> QED
      BY <3>1, <3>2
  <2>5. CASE LoseAudit(r)
    <3>1. PICK s \in Ready(r, "audit") : Fail(r, s)
      BY <2>5 DEF LoseAudit
    <3> QED
      BY <3>1, <2>1 DEF Ready
  <2>6. CASE CallOut(r)
    <3>1. PICK s \in Ready(r, "forget") \cup Ready(r, "carrier") :
            GoOn(r, todo[r] \ {s}) /\ UNCHANGED <<job, tries>>
      BY <2>6 DEF CallOut
    <3>2. s \in todo[r] /\ s.does \in {"forget", "carrier"}
      BY DEF Ready
    <3> QED
      BY <3>1, <3>2
  <2>7. CASE CarrierFails(r)
    <3>1. PICK s \in Ready(r, "carrier") : Fail(r, s)
      BY <2>7 DEF CarrierFails
    <3> QED
      BY <3>1, <2>1 DEF Ready
  <2> QED
    BY <2>2, <2>3, <2>4, <2>5, <2>6, <2>7 DEF Request
<1>3. job[r] # NoJob /\ job[r].event # NoEvent =>
        tries[r] = MaxTries /\ \A s \in todo[r] : s.does = "emit"
  BY DEF PushInv, EventsAreNew
<1>4. /\ UNCHANGED job
      /\ \A q \in Requests \ {r} : todo'[q] = todo[q] /\ tries'[q] = tries[q]
      /\ job[r] # NoJob /\ job[r].event # NoEvent => todo'[r] = todo[r] /\ tries'[r] = tries[r]
  <2>1. CASE SendRequest(r)
    <3>1. tries[r] \in Nat /\ tries[r] < MaxTries /\ MaxTries \in Nat
      BY <2>1, TrailAssumption DEF SendRequest, TrailInv, RequestsRun
    <3> QED
      BY <2>1, <3>1, <1>1, <1>3 DEF SendRequest
  <2>2. CASE Answer(r)
    BY <2>2 DEF Answer
  <2>3. CASE \E s \in todo[r] : /\ s.does # "emit"
                                /\ \E left : GoOn(r, left)
                                /\ UNCHANGED <<job, tries>>
    BY <2>3, <1>1, <1>3 DEF GoOn
  <2> QED
    BY <1>2, <2>1, <2>2, <2>3
<1>5. \A q \in Requests : job[q] # NoJob /\ job[q].event # NoEvent =>
        todo'[q] = todo[q] /\ tries'[q] = tries[q]
  BY <1>4
<1>6. \A k : IsNew(k)' <=> IsNew(k)
  BY <1>1 DEF IsNew, Held
<1>7. EventsAreNew'
  BY <1>1, <1>4, <1>5, <1>6 DEF PushInv, EventsAreNew
<1>8. HandlersGoAhead'
  <2>1. \A d \in Events : \A j : IsOf(j, handler[d].to)' <=> IsOf(j, handler[d].to)
    BY <1>1 DEF IsOf, Live
  <2> QED
    BY <2>1, <1>1, <1>6 DEF PushInv, HandlersGoAhead
<1> QED
  BY <1>1, <1>7, <1>8, RowsStay DEF PushInv, RowsAreSound

\* An event is published once, and its handler starts on something new.
LEMMA PublishKeeps ==
  ASSUME TrailInv, PushInv, NEW r \in Requests, PublishToHandlers(r)
  PROVE  PushInv'
<1>1. PICK s \in todo[r] :
        /\ PublishEvent(r, s)
        /\ IF s.what \in Subscribed /\ job[r].event # NoEvent
             THEN handler' = [handler EXCEPT ![job[r].event].at = "order"]
             ELSE UNCHANGED handler
  BY DEF PublishToHandlers
<1>2. /\ UNCHANGED <<job, tries, subs, notes, delivery, placed, worker, calls, pushed, moved, lost>>
      /\ todo' = [todo EXCEPT ![r] = @ \ {s}] /\ DOMAIN todo = Requests
      /\ job[r] # NoJob
      /\ handler \in [Events -> HandlerRows]
  BY <1>1 DEF PublishToHandlers, PublishEvent, Record, GoOn, rowVars, queueVars, historyVars,
    TrailInv, RequestsRun, PushInv, RowsAreSound
<1>3. \A k : IsNew(k)' <=> IsNew(k)
  BY <1>2 DEF IsNew, Held
<1>4. \A d \in Events : \A j : IsOf(j, handler[d].to)' <=> IsOf(j, handler'[d].to)
  BY <1>2 DEF IsOf, Live
<1>5. \A q \in Requests \ {r} : todo'[q] = todo[q]
  BY <1>2
<1>6. CASE job[r].event = NoEvent
  <2>1. handler' = handler
    BY <1>1, <1>6
  <2>2. EventsAreNew'
    BY <1>2, <1>3, <1>5, <1>6, <2>1 DEF PushInv, EventsAreNew
  <2>3. HandlersGoAhead'
    BY <1>2, <1>3, <1>4, <2>1 DEF PushInv, HandlersGoAhead
  <2> QED
    BY <1>2, <2>1, <2>2, <2>3, RowsStay
<1>7. CASE job[r].event # NoEvent
  <2>1. PICK e : e = job[r].event
    OBVIOUS
  <2>2. /\ e \in Events /\ todo[r] = {s} /\ handler[e].at = "idle" /\ notes[e] = NoNote
        /\ \A i \in SubIds : IsNew(<<e, i>>)
        /\ \A q \in Requests \ {r} : job[q] # NoJob => job[q].event # e
    BY <1>2, <1>7, <2>1 DEF PushInv, EventsAreNew
  <2>3. todo'[r] = {}
    BY <1>2, <2>2
  <2>4. /\ handler' \in [Events -> HandlerRows] /\ handler'[e].at \in {"idle", "order"}
        /\ \A d \in Events \ {e} : handler'[d] = handler[d]
    <3>1. CASE handler' = handler
      BY <3>1, <1>2, <2>2
    <3>2. CASE handler' = [handler EXCEPT ![e].at = "order"]
      <4>1. handler[e] \in HandlerRows
        BY <1>2, <2>2
      <4>2. [handler[e] EXCEPT !.at = "order"] \in HandlerRows
            /\ [handler[e] EXCEPT !.at = "order"].at = "order"
        BY <4>1 DEF HandlerRows
      <4> QED
        BY <3>2, <4>2, <1>2, <2>2
    <3> QED
      BY <3>1, <3>2, <1>1, <2>1
  <2>5. EventsAreNew'
    <3> SUFFICES ASSUME NEW q \in Requests, job[q] # NoJob, job[q].event # NoEvent
                 PROVE  /\ job[q].event \in Events /\ tries[q] = MaxTries
                        /\ \A p \in Requests \ {q} : job[p] # NoJob => job[p].event # job[q].event
                        /\ \A t \in todo'[q] : t.does = "emit" /\ todo'[q] = {t}
                        /\ todo'[q] # {} =>
                             /\ handler'[job[q].event].at = "idle" /\ notes[job[q].event] = NoNote
                             /\ \A i \in SubIds : IsNew(<<job[q].event, i>>)
      BY <1>2, <1>3 DEF EventsAreNew
    <3>1. /\ job[q].event \in Events /\ tries[q] = MaxTries
          /\ \A p \in Requests \ {q} : job[p] # NoJob => job[p].event # job[q].event
          /\ \A t \in todo[q] : t.does = "emit" /\ todo[q] = {t}
          /\ todo[q] # {} =>
               /\ handler[job[q].event].at = "idle" /\ notes[job[q].event] = NoNote
               /\ \A i \in SubIds : IsNew(<<job[q].event, i>>)
      BY DEF PushInv, EventsAreNew
    <3>2. CASE q = r
      BY <3>1, <3>2, <2>3
    <3>3. CASE q # r
      BY <3>1, <3>3, <1>5, <2>2, <2>4
    <3> QED
      BY <3>2, <3>3
  <2>6. HandlersGoAhead'
    <3>1. ASSUME NEW d \in Events
          PROVE  /\ handler'[d].at \in {"order", "channels"} => notes[d] = NoNote
                 /\ handler'[d].at \in {"order", "channels", "list"} => \A i \in SubIds : IsNew(<<d, i>>)
                 /\ handler'[d].at = "channels" => handler'[d].to \in Profiles
                 /\ handler'[d].at \in {"list", "enqueue"} =>
                      notes[d] # NoNote /\ notes[d].to = handler'[d].to
                 /\ handler'[d].at = "enqueue" =>
                      \A i \in handler'[d].left : IsNew(<<d, i>>) /\ IsOf(i, handler'[d].to)
      <4>1. CASE d = e
        BY <4>1, <2>2, <2>4
      <4>2. CASE d # e
        BY <4>2, <2>4 DEF PushInv, HandlersGoAhead
      <4> QED
        BY <4>1, <4>2
    <3> QED
      BY <3>1, <1>2, <1>3, <1>4 DEF HandlersGoAhead
  <2> QED
    BY <1>2, <2>4, <2>5, <2>6, RowsStay
<1> QED
  BY <1>6, <1>7

\* The handler of an event ends with the request that waits for it.
LEMMA DieWithKeeps ==
  ASSUME TrailInv, PushInv, NEW r \in Requests, DieWithHandler(r)
  PROVE  PushInv'
<1>1. /\ UNCHANGED <<job, tries, subs, notes, delivery, placed, worker, calls, pushed, moved, lost>>
      /\ todo' = [todo EXCEPT ![r] = {}] /\ DOMAIN todo = Requests
      /\ handler \in [Events -> HandlerRows]
      /\ handler' = IF IsHandled(r) THEN handler
                    ELSE [handler EXCEPT ![job[r].event].at = "done"]
  BY DEF DieWithHandler, Die, GoOn, rowVars, queueVars, historyVars, TrailInv, RequestsRun,
    PushInv, RowsAreSound
<1>2. \A k : IsNew(k)' <=> IsNew(k)
  BY <1>1 DEF IsNew, Held
<1>3. \A d \in Events : \A j : IsOf(j, handler[d].to)' <=> IsOf(j, handler'[d].to)
  BY <1>1 DEF IsOf, Live
<1>4. todo'[r] = {} /\ \A q \in Requests \ {r} : todo'[q] = todo[q]
  BY <1>1
<1>5. CASE IsHandled(r)
  <2>1. handler' = handler
    BY <1>1, <1>5
  <2>2. EventsAreNew'
    <3>1. EventsAreNew /\ UNCHANGED <<job, tries, handler, notes>>
      BY <1>1, <2>1 DEF PushInv
    <3>2. \A q \in Requests : todo'[q] = {} \/ todo'[q] = todo[q]
      BY <1>4
    <3> QED
      BY <3>1, <3>2, <1>2 DEF EventsAreNew
  <2>3. HandlersGoAhead'
    BY <1>1, <1>2, <1>3, <2>1 DEF PushInv, HandlersGoAhead
  <2> QED
    BY <1>1, <2>1, <2>2, <2>3, RowsStay
<1>6. CASE ~IsHandled(r)
  <2>1. PICK e : e = job[r].event
    OBVIOUS
  <2>2. job[r] # NoJob /\ e # NoEvent
    BY <1>6, <2>1 DEF IsHandled
  <2>3. /\ e \in Events
        /\ \A q \in Requests \ {r} : job[q] # NoJob => job[q].event # e
    BY <2>1, <2>2 DEF PushInv, EventsAreNew
  <2>4. /\ handler' \in [Events -> HandlerRows] /\ handler'[e].at = "done"
        /\ \A d \in Events \ {e} : handler'[d] = handler[d]
    <3>1. handler' = [handler EXCEPT ![e].at = "done"]
      BY <1>1, <1>6, <2>1
    <3>2. handler[e] \in HandlerRows
      BY <1>1, <2>3
    <3>3. [handler[e] EXCEPT !.at = "done"] \in HandlerRows
          /\ [handler[e] EXCEPT !.at = "done"].at = "done"
      BY <3>2 DEF HandlerRows
    <3> QED
      BY <3>1, <3>3, <1>1, <2>3
  <2>5. EventsAreNew'
    <3> SUFFICES ASSUME NEW q \in Requests, job[q] # NoJob, job[q].event # NoEvent
                 PROVE  /\ job[q].event \in Events /\ tries[q] = MaxTries
                        /\ \A p \in Requests \ {q} : job[p] # NoJob => job[p].event # job[q].event
                        /\ \A t \in todo'[q] : t.does = "emit" /\ todo'[q] = {t}
                        /\ todo'[q] # {} =>
                             /\ handler'[job[q].event].at = "idle" /\ notes[job[q].event] = NoNote
                             /\ \A i \in SubIds : IsNew(<<job[q].event, i>>)
      BY <1>1, <1>2 DEF EventsAreNew
    <3>1. /\ job[q].event \in Events /\ tries[q] = MaxTries
          /\ \A p \in Requests \ {q} : job[p] # NoJob => job[p].event # job[q].event
          /\ \A t \in todo[q] : t.does = "emit" /\ todo[q] = {t}
          /\ todo[q] # {} =>
               /\ handler[job[q].event].at = "idle" /\ notes[job[q].event] = NoNote
               /\ \A i \in SubIds : IsNew(<<job[q].event, i>>)
      BY DEF PushInv, EventsAreNew
    <3>2. CASE q = r
      BY <3>1, <3>2, <1>4
    <3>3. CASE q # r
      BY <3>1, <3>3, <1>4, <2>3, <2>4
    <3> QED
      BY <3>2, <3>3
  <2>6. HandlersGoAhead'
    <3>1. ASSUME NEW d \in Events
          PROVE  /\ handler'[d].at \in {"order", "channels"} => notes[d] = NoNote
                 /\ handler'[d].at \in {"order", "channels", "list"} => \A i \in SubIds : IsNew(<<d, i>>)
                 /\ handler'[d].at = "channels" => handler'[d].to \in Profiles
                 /\ handler'[d].at \in {"list", "enqueue"} =>
                      notes[d] # NoNote /\ notes[d].to = handler'[d].to
                 /\ handler'[d].at = "enqueue" =>
                      \A i \in handler'[d].left : IsNew(<<d, i>>) /\ IsOf(i, handler'[d].to)
      <4>1. CASE d = e
        BY <4>1, <2>4
      <4>2. CASE d # e
        BY <4>2, <2>4 DEF PushInv, HandlersGoAhead
      <4> QED
        BY <4>1, <4>2
    <3> QED
      BY <3>1, <1>1, <1>2, <1>3 DEF HandlersGoAhead
  <2> QED
    BY <1>1, <2>4, <2>5, <2>6, RowsStay
<1> QED
  BY <1>5, <1>6

\* At first nothing is sent, and what is queued is for the subscriptions of the
\* recipients.
LEMMA PushesInitially ==
  ASSUME Init
  PROVE  PushInv /\ PagesAreKept
<1>1. PICK s \in Scenarios :
        /\ subs = [i \in SubIds |-> IF i \in DOMAIN s.subs THEN s.subs[i] ELSE Unused]
        /\ notes = [e \in Events |-> IF e \in DOMAIN s.notes THEN s.notes[e] ELSE NoNote]
        /\ delivery = [k \in Keys |-> IF k \in s.queued THEN Fresh(0) ELSE NoDelivery]
        /\ placed = 0
        /\ handler = [e \in Events |-> [at |-> "idle",
                                        to |-> Nobody, asked |-> {}, on |-> {}, left |-> {}]]
        /\ worker = [w \in Workers |-> Idle]
        /\ calls = s.calls
        /\ reader = [at |-> "idle", who |-> Nobody, cursor |-> NoCursor, shown |-> NoneShown,
                     still |-> {}]
        /\ pushed = {} /\ moved = {} /\ lost = {}
        /\ TrailInit(s.jobs, s.left)
  BY DEF Init
<1>2. SoundJobs(s) /\ SoundLeft(s) /\ SoundRows(s) /\ SoundCalls(s)
  BY ScenarioAssumption
<1>3. /\ job = [r \in Requests |-> s.jobs[r]] /\ todo = [r \in Requests |-> s.left[r]]
      /\ tries = [r \in Requests |-> IF s.left[r] # {} THEN MaxTries ELSE 0]
  BY <1>1 DEF TrailInit
<1>4. Fresh(0) \in DeliveryRows /\ Idle \in WorkerRows
      /\ [at |-> "idle", to |-> Nobody, asked |-> {}, on |-> {}, left |-> {}] \in HandlerRows
  BY DEF Fresh, Idle, DeliveryRows, WorkerRows, HandlerRows
<1>5. RowsAreSound
  <2>1. \A e \in Events : notes[e] # NoNote => notes[e] \in NoteRows /\ notes[e].key % PerMilli = 0
    BY <1>1, <1>2 DEF SoundRows
  <2>2. \A k \in Keys : delivery[k] # NoDelivery => delivery[k] \in DeliveryRows
    BY <1>1, <1>4
  <2>3. \A c \in calls : c.does = "register" => [endpoint |-> c.on, profile |-> c.who] # Unused
    BY <1>1, <1>2 DEF SoundCalls
  <2>4. handler \in [Events -> HandlerRows] /\ worker \in [Workers -> WorkerRows]
    BY <1>1, <1>4
  <2> QED
    BY <1>1, <2>1, <2>2, <2>3, <2>4 DEF RowsAreSound
<1>6. \A w \in Workers : /\ worker[w].at = "idle" /\ worker[w].claimed = {} /\ worker[w].batch = {}
                         /\ worker[w].cur = <<>> /\ Held(w) = {}
  BY <1>1 DEF Idle, Held
<1>7. \A e \in DOMAIN s.notes : e \in Events /\ notes[e] = s.notes[e]
  BY <1>1, <1>2 DEF SoundRows
<1>8. \A k \in s.queued :
        k[1] \in DOMAIN s.notes /\ k[2] \in DOMAIN s.subs /\ s.subs[k[2]].profile = s.notes[k[1]].to
  BY <1>2 DEF SoundRows
<1>9. EventsAreNew
  <2>1. ASSUME NEW r \in Requests, job[r] # NoJob, job[r].event # NoEvent
        PROVE  /\ job[r].event \in Events \ DOMAIN s.notes /\ tries[r] = MaxTries
               /\ \A q \in Requests \ {r} : job[q] # NoJob => job[q].event # job[r].event
               /\ \A t \in todo[r] : t.does = "emit" /\ todo[r] = {t}
    <3>1. /\ s.jobs[r].event \in Events \ DOMAIN s.notes /\ s.left[r] # {}
          /\ \A q \in Requests \ {r} : s.jobs[q] # NoJob => s.jobs[q].event # s.jobs[r].event
      BY <2>1, <1>2, <1>3 DEF SoundJobs
    <3>2. \A t \in s.left[r] : t = NumberedStep(Step("emit", t.what), 1, t.n) /\ s.left[r] = {t}
      BY <3>1, <1>2 DEF SoundLeft
    <3>3. \A t \in s.left[r] : t.does = "emit"
      BY <3>2 DEF NumberedStep, Step
    <3> QED
      BY <3>1, <3>2, <3>3, <1>3
  <2>2. ASSUME NEW e \in Events \ DOMAIN s.notes
        PROVE  /\ handler[e].at = "idle" /\ notes[e] = NoNote
               /\ \A i \in SubIds : IsNew(<<e, i>>)
    <3>1. \A i \in SubIds : <<e, i>> \in Keys /\ <<e, i>> \notin s.queued
      BY <1>8 DEF Keys
    <3>2. \A i \in SubIds : delivery[<<e, i>>] = NoDelivery
      BY <3>1, <1>1
    <3> QED
      BY <3>2, <1>1, <1>6 DEF IsNew
  <2> QED
    BY <2>1, <2>2 DEF EventsAreNew
<1>10. HandlersGoAhead
  BY <1>1 DEF HandlersGoAhead
<1>11. QueueIsRight
  <2> SUFFICES ASSUME NEW k \in Keys, k \in s.queued PROVE IsOf(k[2], notes[k[1]].to)
    BY <1>1, <1>6 DEF QueueIsRight
  <2>1. k[2] \in DOMAIN s.subs /\ k[2] \in SubIds /\ s.subs[k[2]] # Unused
    BY <1>2, <1>8 DEF SoundRows
  <2>2. subs[k[2]] = s.subs[k[2]] /\ notes[k[1]].to = s.notes[k[1]].to
    BY <2>1, <1>1, <1>7, <1>8
  <2> QED
    BY <2>1, <2>2, <1>8 DEF IsOf
<1>12. WorkersHoldApart
  BY <1>6 DEF WorkersHoldApart
<1>13. SentIsNotQueued /\ PushesReachTheRecipientOnce /\ PushesAreNumbered
  BY <1>1, FS_EmptySet DEF SentIsNotQueued, PushesReachTheRecipientOnce, PushesAreNumbered
<1>14. PagesAreKept
  BY <1>1 DEF PagesAreKept, NoneShown
<1> QED
  BY <1>5, <1>9, <1>10, <1>11, <1>12, <1>13, <1>14 DEF PushInv

\* Every step keeps the queue and the workers in order.
LEMMA PushSteps ==
  ASSUME TrailInv, PushInv, [Next]_vars
  PROVE  PushInv'
<1>1. CASE ReadPage \/ UNCHANGED vars
  <2>1. UNCHANGED <<job, todo, tries, subs, notes, delivery, placed, handler, worker, pushed, moved, lost,
                    calls>>
    BY <1>1 DEF ReadPage, UserLeaves, rowVars, queueVars, vars, ownVars, historyVars, trailVars
  <2>2. \A k : IsNew(k)' <=> IsNew(k)
    BY <2>1 DEF IsNew, Held
  <2>3. \A d \in Events : \A j : IsOf(j, handler[d].to)' <=> IsOf(j, handler[d].to)
    BY <2>1 DEF IsOf, Live
  <2>4. EventsAreNew' /\ HandlersGoAhead'
    BY <2>1, <2>2, <2>3 DEF PushInv, EventsAreNew, HandlersGoAhead
  <2> QED
    BY <2>1, <2>4, RowsStay DEF PushInv, RowsAreSound
<1> QED
  BY <1>1, RequestKeeps, PublishKeeps, DieWithKeeps, DispatchKeeps, WorkKeeps, FallDueKeeps,
    UserKeeps DEF Next

\* Every step keeps the reader's place.
LEMMA PageSteps ==
  ASSUME PushInv, PagesAreKept, [Next]_vars
  PROVE  PagesAreKept'
<1>1. RowsAreSound
  BY DEF PushInv
<1>2. CASE UNCHANGED <<notes, reader>>
  BY <1>2, PagesStay
<1>3. ASSUME NEW r \in Requests, Request(r) \/ PublishToHandlers(r) \/ DieWithHandler(r)
      PROVE  UNCHANGED <<notes, reader>>
  BY <1>3 DEF Request, PublishToHandlers, DieWithHandler, ownVars, rowVars
<1>4. ASSUME NEW e \in Events, Dispatch(e) \/ Swallow(e)
      PROVE  /\ UNCHANGED reader
             /\ \A d \in Events : notes[d] # NoNote => notes'[d] = notes[d]
  <2>1. CASE CreateNotification(e)
    <3>1. notes[e] = NoNote
      BY <2>1 DEF CreateNotification, PushInv, HandlersGoAhead
    <3>2. UNCHANGED notes \/ \E n : notes' = [notes EXCEPT ![e] = n]
      BY <2>1 DEF CreateNotification
    <3> QED
      BY <3>1, <3>2, <2>1, <1>1 DEF CreateNotification, HandlerLeaves, RowsAreSound
  <2>2. CASE ~CreateNotification(e)
    BY <2>2, <1>4 DEF Dispatch, FindRecipient, IsChannelEnabled, ListActiveSubscriptions, Enqueue,
      Swallow, HandlerLeaves, rowVars
  <2> QED
    BY <2>1, <2>2
<1>5. ASSUME NEW w \in Workers, Work(w) \/ LoseMark(w) \/ GiveUp(w) PROVE UNCHANGED <<notes, reader>>
  BY <1>5 DEF Work, ClaimBatch, ReadDetails, Send, MarkProcessed, DeleteSubscriptionById,
    MarkFailed, EndTick, LoseMark, GiveUp, WorkerLeaves
<1>6. ASSUME NEW k \in Keys, FallDue(k) PROVE UNCHANGED <<notes, reader>>
  BY <1>6 DEF FallDue, rowVars
<1>7. ASSUME NEW call, MarkRead(call)
      PROVE  /\ UNCHANGED reader
             /\ \A e \in Events : notes[e] # NoNote =>
                  notes'[e] # NoNote /\ notes'[e].key = notes[e].key
  <2> SUFFICES ASSUME NEW e \in Events, notes[e] # NoNote
               PROVE  notes'[e] # NoNote /\ notes'[e].key = notes[e].key
    BY <1>7 DEF MarkRead
  <2>1. notes'[e] \in {notes[e], [notes[e] EXCEPT !.read = TRUE]}
    BY <1>7 DEF MarkRead
  <2>2. notes[e] \in NoteRows
    BY <1>1 DEF RowsAreSound
  <2>3. [notes[e] EXCEPT !.read = TRUE] \in NoteRows /\ [notes[e] EXCEPT !.read = TRUE].key = notes[e].key
    BY <2>2 DEF NoteRows
  <2> QED
    BY <2>1, <2>3, NothingAssumption
<1>8. ASSUME NEW call, RegisterSubscription(call) \/ RemoveSubscription(call) \/ UpdatePreferences(call)
      PROVE  UNCHANGED <<notes, reader>>
  BY <1>8 DEF RegisterSubscription, RemoveSubscription, UpdatePreferences
<1>9. ASSUME NEW call, User(call) PROVE PagesAreKept'
  BY <1>1, <1>2, <1>7, <1>8, <1>9, PagesStay, StartReadingKeeps DEF User
<1>10. ASSUME NEW e \in Events, Dispatch(e) \/ Swallow(e) PROVE PagesAreKept'
  <2>1. \A d \in Events : notes[d] # NoNote => notes'[d] # NoNote /\ notes'[d].key = notes[d].key
    BY <1>4, <1>10
  <2> QED
    BY <2>1, <1>4, <1>10, PagesStay
<1>11. UNCHANGED vars => UNCHANGED <<notes, reader>>
  BY DEF vars, ownVars, rowVars
<1> QED
  BY <1>1, <1>2, <1>3, <1>5, <1>6, <1>9, <1>10, <1>11, ReadPageKeeps DEF Next

\* The queue, the workers and the reader of the inbox are in order, throughout.
THEOREM PushInvariant == Spec => [](PushInv /\ PagesAreKept)
<1>1. TrailInv /\ Init => PushInv /\ PagesAreKept
  BY PushesInitially
<1>2. TrailInv /\ PushInv /\ PagesAreKept /\ [Next]_vars => PushInv' /\ PagesAreKept'
  BY PushSteps, PageSteps
<1> QED
  BY <1>1, <1>2, TrailInvariant, PTL DEF Spec

\* A push reaches whom its notification is for, and again only if it was lost.
THEOREM PushesReach == Spec => []PushesReachTheRecipientOnce
<1>1. PushInv => PushesReachTheRecipientOnce
  BY DEF PushInv
<1> QED
  BY <1>1, PushInvariant, PTL

\* Whoever reads the inbox page by page sees each row once.
THEOREM PagesShow == Spec => []PagesShowEachOnce
<1>1. PagesAreKept => PagesShowEachOnce
  BY DEF PagesAreKept, PagesShowEachOnce
<1> QED
  BY <1>1, PushInvariant, PTL
=============================================================================
