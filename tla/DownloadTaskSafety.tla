------------------------- MODULE DownloadTaskSafety -------------------------
(***************************************************************************)
(* The stages of an attempt: with clients that cancel what is under way    *)
(* and start again what is settled, a download is always in one of them.   *)
(***************************************************************************)
EXTENDS DownloadTaskProofs

USE ChunksAssumption, AttemptsAssumption

InStage == Alive /\ OthersAreOver /\ Stages

-----------------------------------------------------------------------------
(* What is posted, and what is written.                                    *)

LEMMA PrefixGrows ==
  ASSUME NEW k \in Nat, k > 0
  PROVE  Prefix(k - 1) \o << k >> = Prefix(k)
<1> DEFINE p == Prefix(k - 1)
<1>1. p \in Seq(Nat) /\ Len(p) = k - 1 /\ \A i \in 1 .. k - 1 : p[i] = i
  BY DEF Prefix
<1> HIDE DEF p
<1>2. /\ p \o << k >> \in Seq(Nat) /\ Len(p \o << k >>) = k
      /\ \A i \in 1 .. k : (p \o << k >>)[i] = i
  BY <1>1
<1>3. Prefix(k) \in Seq(Nat) /\ Len(Prefix(k)) = k
      /\ \A i \in 1 .. k : Prefix(k)[i] = i
  BY DEF Prefix
<1> QED
  BY <1>2, <1>3 DEF p

LEMMA EmptyPrefix == Prefix(0) = << >>
  BY DEF Prefix

\* An update leaves the head of what is posted.
LEMMA TailInOrder ==
  ASSUME posted \in Seq(Posts), posted # << >>, Head(posted).kind = "update",
         posted' = Tail(posted), UNCHANGED attempt, PostsInOrder
  PROVE  /\ PostsInOrder' /\ LastKind' = LastKind
         /\ LastKind = "done" =>
              posted' # << >> /\ posted'[Len(posted')] = posted[Len(posted)]
<1>1. /\ Head(posted) = posted[1] /\ posted' \in Seq(Posts)
      /\ Len(posted) \in Nat \ {0} /\ Len(posted') = Len(posted) - 1
      /\ \A i \in 1 .. Len(posted') : posted'[i] = posted[i + 1]
  BY TailPosts
<1>2. PostsInOrder'
  BY <1>1 DEF PostsInOrder
<1>3. CASE Len(posted) = 1
  <2>1. posted' = << >>
    BY <1>1, <1>3, EmptyPosts
  <2> QED
    BY <1>1, <1>2, <1>3, <2>1 DEF LastKind
<1>4. CASE Len(posted) > 1
  <2>1. posted' # << >>
    BY <1>1, <1>4
  <2>2. Len(posted') \in 1 .. Len(posted') /\ Len(posted') + 1 = Len(posted)
    BY <1>1, <1>4
  <2>3. posted'[Len(posted')] = posted[Len(posted)]
    BY <1>1, <2>2
  <2> QED
    BY <1>1, <1>2, <1>4, <2>1, <2>3 DEF LastKind
<1> QED
  BY <1>1, <1>3, <1>4

\* What the delegate posts follows updates.
LEMMA AppendInOrder ==
  ASSUME posted \in Seq(Posts), PostsInOrder, LastKind = "update",
         NEW e \in Posts, e.of = attempt,
         posted' = Append(posted, e), UNCHANGED attempt
  PROVE  /\ PostsInOrder' /\ LastKind' = e.kind
         /\ posted' # << >> /\ posted'[Len(posted')] = e
<1>1. /\ posted' \in Seq(Posts) /\ Len(posted') = Len(posted) + 1
      /\ Len(posted) \in Nat
      /\ \A i \in 1 .. Len(posted) : posted'[i] = posted[i]
      /\ posted'[Len(posted')] = e
  BY AppendPosts
<1>2. \A i \in 1 .. Len(posted) : posted[i].kind = "update"
  BY <1>1, EmptyPosts DEF PostsInOrder, LastKind
<1>3. posted' # << >>
  BY <1>1
<1>4. PostsInOrder'
  BY <1>1, <1>2 DEF PostsInOrder
<1> QED
  BY <1>1, <1>3, <1>4 DEF LastKind

\* With the last kind at the head nothing follows.
LEMMA LastAtHead ==
  ASSUME posted \in Seq(Posts), posted # << >>, Head(posted).kind # "update",
         PostsInOrder
  PROVE  /\ Len(posted) = 1 /\ Head(posted) = posted[1] /\ Tail(posted) = << >>
         /\ LastKind = Head(posted).kind /\ Head(posted).of = attempt
<1>1. /\ Head(posted) = posted[1] /\ Tail(posted) \in Seq(Posts)
      /\ Len(posted) \in Nat \ {0} /\ Len(Tail(posted)) = Len(posted) - 1
  BY TailPosts
<1>2. Len(posted) = 1
  BY <1>1 DEF PostsInOrder
<1>3. Tail(posted) = << >>
  <2>1. Len(Tail(posted)) = 0
    BY <1>1, <1>2
  <2> QED
    BY <1>1, <2>1, EmptyPosts
<1> QED
  BY <1>1, <1>2, <1>3 DEF PostsInOrder, LastKind

-----------------------------------------------------------------------------
(* The attempts but the current one.                                       *)

LEMMA OthersStay ==
  ASSUME OthersAreOver, UNCHANGED attempt,
         \A n \in Attempts \ {attempt} :
           network'[n] = network[n] /\ reports'[n] = reports[n]
  PROVE  OthersAreOver'
  BY DEF OthersAreOver, Unused, Attempts

LEMMA NextAttempt ==
  ASSUME TypeOK, OthersAreOver, attempt' = attempt + 1, attempt' \in Attempts,
         attempt > 0 => network[attempt].phase \in {"none", "ended"},
         attempt > 0 => reports[attempt] <= 1,
         UNCHANGED network,
         \A n \in Attempts \ {attempt'} : reports'[n] = reports[n]
  PROVE  OthersAreOver' /\ Unused(attempt + 1)
<1>1. attempt \in Nat
  BY DEF TypeOK
<1> QED
  BY <1>1 DEF OthersAreOver, Unused, Attempts

\* Only the current attempt is not over.
LEMMA OnlyCurrent ==
  ASSUME TypeOK, OthersAreOver, NEW n \in Attempts,
         network[n].phase \in {"running", "cancelling"}
  PROVE  n = attempt
<1>1. CASE n < attempt
  BY <1>1 DEF OthersAreOver
<1>2. CASE n > attempt
  BY <1>2 DEF OthersAreOver, Unused
<1> QED
  BY <1>1, <1>2 DEF TypeOK, Attempts

-----------------------------------------------------------------------------
(* The client's calls.                                                     *)

LEMMA SettledStage ==
  ASSUME TypeOK, Stages, Settled, state # "inProgress"
  PROVE  /\ sessionTask = 0 /\ cookies = << >> /\ posted = << >> /\ waiting = 0
         /\ writer.io = "none"
         /\ attempt > 0 =>
              network[attempt].phase \in {"none", "ended"} /\ reports[attempt] <= 1
<1>1. ~ReadsCookies /\ ~WritesDataUrl /\ ~Closes
  BY DEF ReadsCookies, WritesDataUrl, Closes
<1>2. ~Downloads
  BY DEF Downloads, Current, Settled, Attempts, TypeOK
<1>3. ~SessionEnded
  BY DEF SessionEnded, LastKind, Settled
<1>4. CASE NotStarted
  BY <1>4 DEF NotStarted, NothingPending
<1>5. CASE Complete
  BY <1>5 DEF Complete, NothingPending, Current
<1> QED
  BY <1>1, <1>2, <1>3, <1>4, <1>5 DEF Stages

LEMMA OrdinaryStart ==
  ASSUME TypeOK, Ordinary, InStage, MayStart
  PROVE  /\ sessionTask = 0 /\ cookies = << >> /\ posted = << >> /\ waiting = 0
         /\ attempt \in Nat /\ attempt + 1 \in Attempts
         /\ attempt > 0 => network[attempt].phase \in {"none", "ended"}
         /\ attempt > 0 => reports[attempt] <= 1
<1>1. Settled /\ state # "inProgress"
  BY DEF MayStart, Ordinary
<1>2. attempt + 1 \in Attempts
  <2>1. FieldsOK
    BY DEF TypeOK, FieldsOK
  <2> QED
    BY <2>1, MayStartType
<1> QED
  BY <1>1, <1>2, SettledStage DEF InStage, TypeOK

LEMMA StartHttpStage ==
  ASSUME TypeOK, Ordinary, InStage, StartHttp
  PROVE  InStage'
<1>1. MayStart /\ scheme = "http" /\ state' = "inProgress"
      /\ attempt' = attempt + 1 /\ writer' = NewWriter
      /\ cookies' = Append(cookies, attempt + 1)
      /\ UNCHANGED << scheme, sessionTask, network, waiting, posted, reports >>
  BY DEF StartHttp
<1>2. /\ sessionTask = 0 /\ cookies = << >> /\ posted = << >> /\ waiting = 0
      /\ attempt \in Nat /\ attempt + 1 \in Attempts
      /\ attempt > 0 => network[attempt].phase \in {"none", "ended"}
      /\ attempt > 0 => reports[attempt] <= 1
  BY <1>1, OrdinaryStart
<1>3. OthersAreOver' /\ Unused(attempt + 1)
  BY <1>1, <1>2, NextAttempt DEF InStage
<1>4. Unused(attempt)'
  BY <1>1, <1>3 DEF Unused
<1>5. cookies' = << attempt' >>
  BY <1>1, <1>2
<1>6. NewWriter' = NewWriter
  BY DEF NewWriter
<1>7. ReadsCookies'
  BY <1>1, <1>2, <1>4, <1>5, <1>6 DEF ReadsCookies
<1> QED
  BY <1>1, <1>3, <1>7 DEF InStage, Alive, Stages

\* All of a data: URL's content is written.
LEMMA ContentWritten ==
  ASSUME NEW w \in Writers, w.data = << >>, w.file = "open"
  PROVE  /\ Written(w, Content, "done") \in Writers
         /\ Written(w, Content, "done").io = "none"
         /\ Written(w, Content, "done").data = Content
<1>1. /\ Written(w, Content, "done") \in Writers
      /\ Written(w, Content, "done").io = "none"
      /\ Written(w, Content, "done").data = w.data \o Content
  BY ContentType, WrittenType
<1> QED
  BY <1>1, ContentType

LEMMA OnlyDone == Ordinary => LateResults = {"done"}
  BY DEF LateResults, WriteResults, Ordinary

\* A download that finishes, its file closed at once or already.
LEMMA FinishStage ==
  ASSUME TypeOK, OthersAreOver', attempt' \in Attempts,
         NEW w \in Writers, w.io = "none",
         NEW code \in Errors, Finished(attempt', w, code),
         reports[attempt'] = 0, network'[attempt'].phase \in {"none", "ended"},
         code = "OK" => w.data = Content /\ received' = Chunks,
         NothingPending'
  PROVE  InStage'
<1>1. writer' = [w EXCEPT !.file = "closed"]
  BY DEF Finished
<1>2. writer'.io = "none" /\ writer'.data = w.data
  BY <1>1, WriterUpdates
<1>3. /\ error' = code /\ state' = "complete" /\ sessionTask' = 0
      /\ reports' = [reports EXCEPT ![attempt'] = @ + 1]
  BY DEF Finished, OnDownloadFinished
<1>4. reports'[attempt'] = 1
  BY <1>3 DEF TypeOK
<1>5. attempt' > 0
  BY DEF Attempts
<1>6. Content' = Content
  BY DEF Content, Prefix
<1>7. Complete'
  BY <1>2, <1>3, <1>4, <1>5, <1>6 DEF Complete, Current
<1> QED
  BY <1>3, <1>7 DEF InStage, Alive, Stages

\* Its file is being closed.
LEMMA CloseStage ==
  ASSUME TypeOK, OthersAreOver', attempt' \in Attempts,
         NEW w \in Writers, Closing(w), state' = "inProgress",
         reports[attempt'] = 0, network'[attempt'].phase \in {"none", "ended"},
         sessionTask # 0 => network'[attempt'].phase = "ended",
         w.data = Content, received' = Chunks, NothingPending'
  PROVE  InStage'
<1>1. writer' = [w EXCEPT !.io = "close"] /\ UNCHANGED << sessionTask, reports >>
  BY DEF Closing
<1>2. writer'.io = "close" /\ writer'.data = w.data
  BY <1>1, WriterUpdates
<1>3. attempt' > 0
  BY DEF Attempts
<1>4. Content' = Content
  BY DEF Content, Prefix
<1>5. Closes'
  BY <1>1, <1>2, <1>3, <1>4 DEF Closes, Current
<1> QED
  BY <1>5 DEF InStage, Alive, Stages

LEMMA DataUrlStage ==
  ASSUME TypeOK, OthersAreOver', attempt' \in Attempts,
         NEW w \in Writers, w.io = "none", w.data = Content,
         NEW s, s = "inProgress", OnDataUrlWritten(attempt', w, s),
         reports[attempt'] = 0, network'[attempt'].phase \in {"none", "ended"},
         sessionTask = 0, NothingPending'
  PROVE  InStage'
<1>1. received' = Chunks
  BY DEF OnDataUrlWritten
<1>2. CASE Finished(attempt', w, "OK")
  BY <1>1, <1>2, FinishStage DEF Errors
<1>3. CASE Closing(w) /\ state' = s
  BY <1>1, <1>3, CloseStage
<1> QED
  BY <1>2, <1>3 DEF OnDataUrlWritten

LEMMA OnDataUrlWrittenReports ==
  ASSUME TypeOK, NEW n, NEW w, NEW s, OnDataUrlWritten(n, w, s)
  PROVE  \A i \in Attempts \ {n} : reports'[i] = reports[i]
  BY DEF OnDataUrlWritten, Finished, OnDownloadFinished, Closing, TypeOK

LEMMA StartDataUrlStage ==
  ASSUME TypeOK, Ordinary, InStage, StartDataUrlParsing
  PROVE  InStage'
<1>1. /\ MayStart /\ scheme = "data" /\ attempt' = attempt + 1
      /\ UNCHANGED << scheme, network, cookies, waiting, posted >>
  BY Zenon DEF StartDataUrlParsing
<1>2. /\ sessionTask = 0 /\ cookies = << >> /\ posted = << >> /\ waiting = 0
      /\ attempt \in Nat /\ attempt + 1 \in Attempts
      /\ attempt > 0 => network[attempt].phase \in {"none", "ended"}
      /\ attempt > 0 => reports[attempt] <= 1
  BY <1>1, OrdinaryStart
<1>3. NothingPending' /\ attempt' \in Attempts /\ attempt' > 0
  BY <1>1, <1>2 DEF NothingPending
<1>4. ASSUME \A n \in Attempts \ {attempt'} : reports'[n] = reports[n]
      PROVE  OthersAreOver'
  BY <1>1, <1>2, <1>3, <1>4, NextAttempt DEF InStage
<1>5. reports[attempt'] = 0 /\ network'[attempt'].phase = "none"
      /\ network'[attempt'].sent = 0
      /\ network'[attempt'] = [phase |-> "none", sent |-> 0]
  BY <1>1, <1>2, <1>3 DEF InStage, OthersAreOver, Unused
<1>6. CASE /\ OnDownloadFinished(attempt + 1, "failed")
           /\ received' = 0 /\ writer' = NewWriter
  <2>1. /\ error' = "failed" /\ state' = "complete" /\ sessionTask' = 0
        /\ reports' = [reports EXCEPT ![attempt'] = @ + 1]
    BY <1>1, <1>6 DEF OnDownloadFinished
  <2>2. reports'[attempt'] = 1
        /\ \A n \in Attempts \ {attempt'} : reports'[n] = reports[n]
    BY <1>3, <1>5, <2>1 DEF TypeOK
  <2>3. OthersAreOver'
    BY <1>4, <2>2
  <2>4. writer'.io = "none"
    BY <1>6, NewWriters
  <2>5. Complete'
    BY <1>3, <1>5, <2>1, <2>2, <2>4 DEF Complete, Current
  <2> QED
    BY <2>1, <2>3, <2>5 DEF InStage, Alive, Stages
<1>7. CASE OnDataUrlWritten(attempt + 1, Written(NewWriter, Content, "done"),
                            "inProgress")
  <2> DEFINE w == Written(NewWriter, Content, "done")
  <2>1. w \in Writers /\ w.io = "none" /\ w.data = Content
    BY NewWriters, ContentWritten
  <2> HIDE DEF w
  <2>2. OnDataUrlWritten(attempt', w, "inProgress")
    BY <1>1, <1>7 DEF w
  <2>3. OthersAreOver'
    BY <1>4, <2>2, OnDataUrlWrittenReports
  <2> QED
    BY <1>2, <1>3, <1>5, <2>1, <2>2, <2>3, DataUrlStage
<1>8. CASE /\ writer' = Written(NewWriter, Content, "pending")
           /\ received' = 0 /\ state' = "inProgress"
           /\ UNCHANGED << error, sessionTask, reports >>
  <2>1. OthersAreOver'
    BY <1>4, <1>8
  <2>2. NewWriter' = NewWriter
    BY DEF NewWriter
  <2>3. WritesDataUrl'
    BY <1>1, <1>2, <1>3, <1>5, <1>8, <2>2 DEF WritesDataUrl, Unused, Written
  <2> QED
    BY <1>8, <2>1, <2>3 DEF InStage, Alive, Stages
<1> QED
  BY <1>6, <1>7, <1>8, OnlyDone, Zenon DEF StartDataUrlParsing

\* Which session task runs.
LEMMA RunningStage ==
  ASSUME TypeOK, InStage, NEW n \in Attempts, network[n].phase = "running"
  PROVE  Downloads /\ state = "inProgress" /\ sessionTask = attempt /\ n = attempt
<1>1. n = attempt
  BY OnlyCurrent DEF InStage
<1>2. /\ ~ReadsCookies /\ ~WritesDataUrl /\ ~NotStarted
  BY <1>1 DEF ReadsCookies, WritesDataUrl, NotStarted, Unused, Attempts
<1>3. ~SessionEnded /\ ~Closes /\ ~Complete
  BY <1>1 DEF SessionEnded, Closes, Complete, Current
<1> QED
  BY <1>1, <1>2, <1>3 DEF InStage, Stages, Downloads, Current

LEMMA CancelStage ==
  ASSUME TypeOK, Ordinary, InStage, Cancel
  PROVE  InStage'
<1>1. /\ MayCancel /\ network' = CancelSessionTask(sessionTask)
      /\ state' = "cancelled" /\ sessionTask' = 0
      /\ UNCHANGED << scheme, error, received, attempt, writer, cookies, waiting,
                      posted, reports >>
  BY DEF Cancel
<1>2. sessionTask \in 0 .. MaxAttempts /\ network \in [Attempts -> SessionTasks]
  BY DEF TypeOK
<1>3. /\ network' \in [Attempts -> SessionTasks]
      /\ \A i \in Attempts :
           /\ network'[i].sent = network[i].sent
           /\ network'[i].phase =
                IF i = sessionTask /\ network[i].phase = "running"
                THEN "cancelling" ELSE network[i].phase
  BY <1>1, <1>2, CancelType
<1>4. CASE state = "notStarted"
  <2>1. NotStarted
    BY <1>4 DEF InStage, Stages, ReadsCookies, WritesDataUrl, Downloads,
                SessionEnded, Closes, Complete
  <2>2. network' = network
    BY <1>1, <1>2, <2>1 DEF NotStarted, CancelSessionTask, Attempts
  <2>3. NotStarted'
    BY <1>1, <2>1 DEF NotStarted, NothingPending
  <2>4. OthersAreOver'
    BY <1>1, <2>2, OthersStay DEF InStage
  <2> QED
    BY <1>1, <2>3, <2>4 DEF InStage, Alive, Stages
<1>5. CASE sessionTask # 0 /\ network[sessionTask].phase = "running"
  <2>1. sessionTask \in Attempts
    BY <1>2, <1>5 DEF Attempts
  <2>2. Downloads /\ sessionTask = attempt
    BY <1>5, <2>1, RunningStage
  <2>3. Current' = [phase |-> "cancelling", sent |-> Current.sent]
    BY <1>1, <1>3, <1>5, <2>1, <2>2 DEF Current, SessionTasks
  <2>4. \A i \in Attempts \ {attempt} : network'[i] = network[i]
    BY <1>1, <1>2, <2>2 DEF CancelSessionTask
  <2>5. OthersAreOver'
    BY <1>1, <2>4, OthersStay DEF InStage
  <2>6. /\ PostsInOrder' /\ LastKind' = LastKind
    BY <1>1, <2>2 DEF Downloads, PostsInOrder, LastKind
  <2>7. (ChunkOnItsWay \/ ChunksWritten)'
    BY <1>1, <2>2, <2>3, <2>6
    DEF Downloads, ChunkOnItsWay, ChunksWritten, Prefix
  <2>8. Downloads'
    BY <1>1, <2>2, <2>3, <2>6, <2>7 DEF Downloads
  <2> QED
    BY <1>1, <2>5, <2>8 DEF InStage, Alive, Stages
<1> QED
  BY <1>1, <1>4, <1>5 DEF MayCancel, Ordinary

\* No attempt was told twice of its end.
LEMMA StageReports ==
  ASSUME TypeOK, InStage
  PROVE  \A n \in Attempts : reports[n] <= 1
<1>1. attempt > 0 => reports[attempt] <= 1
  BY DEF InStage, Stages, NotStarted, ReadsCookies, WritesDataUrl, Downloads,
         SessionEnded, Closes, Complete, Unused
<1>2. \A n \in Attempts : n > attempt => reports[n] <= 1
  BY DEF InStage, OthersAreOver, Unused
<1>3. \A n \in Attempts : n < attempt => reports[n] <= 1
  BY DEF InStage, OthersAreOver
<1> QED
  BY <1>1, <1>2, <1>3 DEF TypeOK, Attempts

LEMMA DestroyStage ==
  ASSUME TypeOK, InStage, Destroy
  PROVE  Destroyed'
<1>1. /\ network' = CancelSessionTask(sessionTask) /\ state' = "destroyed"
      /\ writer' = NewWriter /\ UNCHANGED reports
  BY DEF Destroy
<1>2. sessionTask \in 0 .. MaxAttempts /\ network \in [Attempts -> SessionTasks]
  BY DEF TypeOK
<1>3. \A i \in Attempts :
        network'[i].phase = IF i = sessionTask /\ network[i].phase = "running"
                            THEN "cancelling" ELSE network[i].phase
  BY <1>1, <1>2, CancelType
<1>4. \A i \in Attempts : network[i].phase = "running" => i = sessionTask
  BY RunningStage
<1>5. \A i \in Attempts : network'[i].phase # "running"
  BY <1>3, <1>4
<1>6. NewWriter' = NewWriter
  BY DEF NewWriter
<1> QED
  BY <1>1, <1>5, <1>6, StageReports DEF Destroyed

-----------------------------------------------------------------------------
(* What is posted to the UI thread.                                        *)

LEMMA StartWithCookiesStage ==
  ASSUME TypeOK, InStage, StartWithCookies
  PROVE  InStage'
<1>1. ReadsCookies
  BY DEF StartWithCookies, InStage, Stages, NotStarted, WritesDataUrl,
         Downloads, SessionEnded, Closes, Complete, NothingPending
<1>2. /\ Head(cookies) = attempt /\ Tail(cookies) = << >>
      /\ attempt \in Attempts
  BY <1>1 DEF ReadsCookies, TypeOK, Attempts
<1>3. /\ cookies' = << >> /\ sessionTask' = attempt
      /\ network' = [network EXCEPT ![attempt].phase = "running"]
      /\ UNCHANGED << scheme, state, error, received, attempt, writer, waiting,
                      posted, reports >>
  BY <1>2 DEF StartWithCookies, InStage
<1>4. /\ Current' = [phase |-> "running", sent |-> 0]
      /\ \A n \in Attempts \ {attempt} : network'[n] = network[n]
  BY <1>1, <1>2, <1>3 DEF Current, ReadsCookies, Unused, TypeOK
<1>5. OthersAreOver'
  BY <1>3, <1>4, OthersStay DEF InStage
<1>6. PostsInOrder' /\ LastKind' = "update"
  BY <1>1, <1>3 DEF ReadsCookies, PostsInOrder, LastKind
<1>7. ChunksWritten'
  BY <1>1, <1>3, <1>4, <1>6, EmptyPrefix
  DEF ReadsCookies, ChunksWritten, NewWriter, Prefix
<1>8. Downloads'
  BY <1>1, <1>3, <1>4, <1>6, <1>7
  DEF Downloads, ReadsCookies, Unused, NewWriter
<1> QED
  BY <1>3, <1>5, <1>8 DEF InStage, Alive, Stages

\* The chunk that the queue waits for.
LEMMA WaitingStage ==
  ASSUME TypeOK, InStage, waiting # 0
  PROVE  /\ Downloads /\ ChunkOnItsWay /\ attempt \in Attempts
         /\ writer.data \o Chunk = Prefix(Current.sent)
<1>1. Downloads
  BY DEF InStage, Stages, NotStarted, ReadsCookies, WritesDataUrl, SessionEnded,
         ChunksWritten, Closes, Complete, NothingPending
<1>2. ChunkOnItsWay /\ attempt \in Attempts
  BY <1>1 DEF Downloads, ChunksWritten, Attempts, TypeOK
<1>3. Current.sent \in Nat /\ Current.sent > 0
  BY <1>2 DEF ChunkOnItsWay, Current, TypeOK, SessionTasks
<1>4. writer.data \o Chunk = Prefix(Current.sent - 1) \o << Current.sent >>
  BY <1>2 DEF ChunkOnItsWay, Current, Chunk
<1> QED
  BY <1>1, <1>2, <1>3, <1>4, PrefixGrows

\* The chunk was written: the update that follows is posted.
LEMMA ChunkWrittenStage ==
  ASSUME TypeOK, Ordinary, InStage, waiting # 0,
         NEW result \in LateResults, writer' = Written(writer, Chunk, result),
         NEW posts, posts = << >>, Signal(posts),
         UNCHANGED << taskVars, network, cookies, reports >>
  PROVE  InStage'
<1>1. /\ Downloads /\ ChunkOnItsWay /\ attempt \in Attempts
      /\ writer.data \o Chunk = Prefix(Current.sent)
  BY WaitingStage
<1>2. result = "done"
  BY OnlyDone
<1>3. /\ writer' = [writer EXCEPT !.data = writer.data \o Chunk, !.io = "none"]
  BY <1>1, <1>2 DEF Written, Downloads
<1>4. writer \in Writers
  BY DEF TypeOK
<1> HIDE DEF Chunk
<1>5. /\ writer'.data = Prefix(Current.sent) /\ writer'.io = "none"
      /\ writer'.file = "open"
  BY <1>1, <1>3, <1>4 DEF Writers, Downloads
<1>6. /\ waiting' = 0 /\ posted' = << Post("update", attempt, "OK") >>
  BY <1>1 DEF Signal, ChunkOnItsWay
<1>7. /\ Post("update", attempt, "OK").kind = "update"
      /\ Post("update", attempt, "OK").of = attempt
  BY DEF Post
<1>8. UNCHANGED << scheme, state, error, received, attempt, sessionTask,
                   network, cookies, reports >>
  BY DEF taskVars
<1>9. PostsInOrder' /\ LastKind' = "update"
  BY <1>6, <1>7, <1>8 DEF PostsInOrder, LastKind
<1>10. ChunksWritten'
  BY <1>5, <1>6, <1>8, <1>9 DEF ChunksWritten, Current, Prefix
<1>11. Downloads'
  BY <1>1, <1>5, <1>8, <1>9, <1>10 DEF Downloads, Current
<1> QED
  BY <1>8, <1>11, OthersStay DEF InStage, Alive, Stages

LEMMA WriteDataStage ==
  ASSUME TInv, Ordinary, InStage, WriteData
  PROVE  InStage'
<1>0. TypeOK
  BY DEF TInv
<1>1. posted # << >> /\ Head(posted).kind = "data"
      /\ UNCHANGED << taskVars, network, cookies, reports >>
  BY DEF WriteData
<1>2. waiting # 0 /\ Tail(posted) = << >>
  BY <1>1, DataAtHead
<1>3. CASE /\ writer' = Written(writer, Chunk, "pending")
           /\ posted' = Tail(posted) /\ UNCHANGED waiting
  <2>1. /\ Downloads /\ ChunkOnItsWay /\ attempt \in Attempts
    BY <1>0, <1>2, WaitingStage
  <2>2. writer \in Writers
    BY <1>0 DEF TypeOK
  <2>3. writer' = [writer EXCEPT !.io = "write"]
    BY <1>3 DEF Written
  <2>4. writer'.io = "write" /\ writer'.data = writer.data
        /\ writer'.file = writer.file
    BY <2>2, <2>3 DEF Writers
  <2>5. UNCHANGED << scheme, state, error, received, attempt, sessionTask,
                     network, cookies, reports >>
    BY <1>1 DEF taskVars
  <2>6. PostsInOrder' /\ LastKind' = "update"
    <3>1. posted' = << >>
      BY <1>2, <1>3
    <3> QED
      BY <3>1 DEF PostsInOrder, LastKind
  <2>7. ChunkOnItsWay'
    BY <1>3, <2>1, <2>4, <2>5, <2>6 DEF ChunkOnItsWay, Current, Prefix
  <2>8. Downloads'
    BY <2>1, <2>4, <2>5, <2>6, <2>7 DEF Downloads, Current
  <2> QED
    BY <2>5, <2>8, OthersStay DEF InStage, Alive, Stages
<1>4. CASE /\ Signal(Tail(posted))
           /\ \E result \in LateResults : writer' = Written(writer, Chunk, result)
  BY <1>0, <1>1, <1>2, <1>4, ChunkWrittenStage
<1> QED
  BY <1>3, <1>4 DEF WriteData, InStage

LEMMA DataWrittenStage ==
  ASSUME TInv, Ordinary, InStage, DataWritten
  PROVE  InStage'
<1>1. waiting # 0 /\ posted = << >> /\ TypeOK
  BY DEF DataWritten, TInv
<1>2. PICK result \in LateResults : writer' = Written(writer, Chunk, result)
  BY DEF DataWritten
<1>3. Signal(posted) /\ UNCHANGED << taskVars, network, cookies, reports >>
  BY DEF DataWritten
<1> QED
  BY <1>1, <1>2, <1>3, ChunkWrittenStage

LEMMA DataUrlWrittenStage ==
  ASSUME TypeOK, Ordinary, InStage, DataUrlWritten
  PROVE  InStage'
<1>1. WritesDataUrl
  BY DEF DataUrlWritten, InStage, Stages, NotStarted, ReadsCookies, Downloads,
         SessionEnded, Closes, Complete
<1>2. PICK result \in LateResults :
        OnDataUrlWritten(attempt, Written(writer, Content, result), state)
  BY DEF DataUrlWritten
<1>3. UNCHANGED << scheme, attempt, network, cookies, waiting, posted >>
  BY DEF DataUrlWritten
<1>4. result = "done" /\ writer \in Writers
  BY <1>2, OnlyDone DEF TypeOK
<1>5. /\ writer.data = << >> /\ writer.file = "open"
  BY <1>1, NewWriters DEF WritesDataUrl, NewWriter
<1> DEFINE w == Written(writer, Content, result)
<1>6. w \in Writers /\ w.io = "none"
  BY <1>4, <1>5, ContentWritten
<1>7. w.data = Content
  BY <1>4, <1>5, ContentWritten
<1> HIDE DEF w
<1>8. attempt' \in Attempts /\ attempt' = attempt
  BY <1>1, <1>3 DEF WritesDataUrl, TypeOK, Attempts
<1>9. OnDataUrlWritten(attempt', w, state) /\ state = "inProgress"
  BY <1>1, <1>2, <1>8 DEF WritesDataUrl, w
<1>10. OthersAreOver'
  BY <1>2, <1>3, OnDataUrlWrittenReports, OthersStay DEF InStage
<1>11. /\ reports[attempt'] = 0 /\ network'[attempt'].phase \in {"none", "ended"}
       /\ sessionTask = 0 /\ NothingPending'
  BY <1>1, <1>3, <1>8 DEF WritesDataUrl, Unused, NothingPending
<1> QED
  BY <1>6, <1>7, <1>8, <1>9, <1>10, <1>11, DataUrlStage

\* A post is one of an attempt that downloads, or whose session task ended.
LEMMA PostedStage ==
  ASSUME TypeOK, InStage, posted # << >>
  PROVE  /\ Downloads \/ SessionEnded
         /\ PostsInOrder /\ attempt \in Attempts
         /\ Head(posted).kind = "done" => SessionEnded
<1>1. Downloads \/ SessionEnded
  BY DEF InStage, Stages, NotStarted, ReadsCookies, WritesDataUrl, Closes,
         Complete, NothingPending
<1>2. PostsInOrder /\ attempt \in Attempts
  BY <1>1 DEF Downloads, SessionEnded, TypeOK, Attempts
<1>3. Head(posted).kind = "done" => LastKind = "done"
  BY <1>2, LastAtHead DEF TypeOK
<1> QED
  BY <1>1, <1>2, <1>3 DEF Downloads

LEMMA UpdatePropertiesStage ==
  ASSUME TypeOK, InStage, UpdateProperties
  PROVE  InStage'
<1>1. /\ posted # << >> /\ Head(posted).kind = "update"
      /\ posted' = Tail(posted)
      /\ UNCHANGED << scheme, state, attempt, sessionTask, writer, network,
                      cookies, waiting, reports >>
  BY DEF UpdateProperties
<1>2. (Downloads \/ SessionEnded) /\ PostsInOrder /\ posted \in Seq(Posts)
  BY <1>1, PostedStage DEF TypeOK
<1>3. /\ PostsInOrder' /\ LastKind' = LastKind
      /\ LastKind = "done" =>
           posted' # << >> /\ posted'[Len(posted')] = posted[Len(posted)]
  BY <1>1, <1>2, TailInOrder
<1>4. OthersAreOver'
  BY <1>1, OthersStay DEF InStage
<1>5. CASE Downloads
  <2>1. (ChunkOnItsWay \/ ChunksWritten)'
    BY <1>1, <1>3, <1>5
    DEF Downloads, ChunkOnItsWay, ChunksWritten, Current, Prefix
  <2>2. Downloads'
    BY <1>1, <1>3, <1>5, <2>1 DEF Downloads, Current
  <2> QED
    BY <1>1, <1>4, <2>2 DEF InStage, Alive, Stages
<1>6. CASE SessionEnded
  <2>1. ChunksWritten'
    BY <1>1, <1>3, <1>6 DEF SessionEnded, ChunksWritten, Current, Prefix
  <2>2. LastKind' = "done" /\ posted'[Len(posted')] = posted[Len(posted)]
    BY <1>3, <1>6 DEF SessionEnded
  <2>3. SessionEnded'
    BY <1>1, <1>3, <1>6, <2>1, <2>2 DEF SessionEnded, Current
  <2> QED
    BY <1>1, <1>4, <2>3 DEF InStage, Alive, Stages
<1> QED
  BY <1>2, <1>5, <1>6

\* What the end of the session task finds.
LEMMA EndStage ==
  ASSUME TypeOK, InStage, posted # << >>, Head(posted).kind = "done"
  PROVE  /\ SessionEnded /\ attempt \in Attempts /\ Tail(posted) = << >>
         /\ Head(posted).of = attempt /\ Head(posted).error \in Errors
         /\ Head(posted).error = "OK" =>
              writer.data = Content /\ Current.sent = Chunks
         /\ \/ state = "inProgress" /\ Head(posted).error # "aborted"
            \/ state = "cancelled" /\ Head(posted).error = "aborted"
<1>1. SessionEnded /\ PostsInOrder /\ attempt \in Attempts
  BY PostedStage
<1>2. /\ posted \in Seq(Posts) /\ Head(posted).error \in Errors
  BY HeadOfPosts DEF TypeOK
<1>3. /\ Len(posted) = 1 /\ Head(posted) = posted[1] /\ Tail(posted) = << >>
      /\ Head(posted).of = attempt
  BY <1>1, <1>2, LastAtHead
<1>4. posted[Len(posted)].error = Head(posted).error
  BY <1>3
<1> QED
  BY <1>1, <1>2, <1>3, <1>4 DEF SessionEnded, ChunksWritten, Content

LEMMA CompleteDownloadStage ==
  ASSUME TypeOK, InStage, CompleteDownload
  PROVE  InStage'
<1> DEFINE code == Head(posted).error
<1>1. /\ posted # << >> /\ Head(posted).kind = "done"
      /\ posted' = Tail(posted)
      /\ received' = network[Head(posted).of].sent
      /\ EndWith(code)
      /\ UNCHANGED << scheme, attempt, network, cookies, waiting >>
  BY DEF CompleteDownload, InStage
<1> HIDE DEF code
<1>2. /\ SessionEnded /\ attempt \in Attempts /\ posted' = << >>
      /\ code \in Errors
      /\ code = "OK" => writer.data = Content /\ received' = Chunks
      /\ \/ state = "inProgress" /\ code # "aborted"
         \/ state = "cancelled" /\ code = "aborted"
  BY <1>1, EndStage DEF code, Current
<1>3. /\ NothingPending' /\ attempt' = attempt
      /\ reports[attempt'] = 0 /\ network'[attempt'].phase = "ended"
      /\ writer \in Writers /\ writer.io = "none"
  BY <1>1, <1>2 DEF NothingPending, SessionEnded, ChunksWritten, Current, TypeOK
<1>4. CASE Finished(attempt, writer, code)
  <2>1. \A n \in Attempts \ {attempt} : reports'[n] = reports[n]
    BY <1>4 DEF Finished, OnDownloadFinished, TypeOK
  <2>2. OthersAreOver'
    BY <1>1, <2>1, OthersStay DEF InStage
  <2>3. Finished(attempt', writer, code)
    BY <1>3, <1>4
  <2> QED
    BY <1>2, <1>3, <2>2, <2>3, FinishStage
<1>5. CASE code = "OK" /\ Closing(writer) /\ UNCHANGED state
  <2>1. OthersAreOver'
    BY <1>1, <1>5, OthersStay DEF InStage, Closing
  <2>2. state' = "inProgress"
    BY <1>2, <1>5
  <2> QED
    BY <1>2, <1>3, <1>5, <2>1, <2>2, CloseStage
<1> QED
  BY <1>1, <1>4, <1>5 DEF EndWith

\* The file that is closed is that of a download in progress, all written.
LEMMA ClosingStage ==
  ASSUME InStage, writer.io = "close"
  PROVE  Closes
<1>1. /\ ~NotStarted /\ ~ReadsCookies /\ ~WritesDataUrl /\ ~Complete
  BY NewWriters DEF NotStarted, ReadsCookies, WritesDataUrl, Complete
<1>2. ~Downloads /\ ~SessionEnded
  BY DEF Downloads, SessionEnded, ChunkOnItsWay, ChunksWritten
<1> QED
  BY <1>1, <1>2 DEF InStage, Stages

LEMMA WriterClosedStage ==
  ASSUME TypeOK, InStage, WriterClosed
  PROVE  InStage'
<1>1. Closes
  BY ClosingStage DEF WriterClosed
<1>2. /\ attempt \in Attempts /\ writer \in Writers
  BY <1>1 DEF Closes, TypeOK, Attempts
<1>3. /\ state' = "complete" /\ sessionTask' = 0
      /\ reports' = [reports EXCEPT ![attempt] = @ + 1]
      /\ writer' = [writer EXCEPT !.io = "none", !.file = "closed"]
      /\ UNCHANGED << received, attempt, network, cookies, waiting, posted >>
  BY DEF WriterClosed, OnDownloadFinished
<1>4. writer'.io = "none" /\ writer'.data = writer.data
  BY <1>2, <1>3, WriterUpdates
<1>5. /\ reports'[attempt] = 1
      /\ \A n \in Attempts \ {attempt} : reports'[n] = reports[n]
  BY <1>1, <1>2, <1>3 DEF Closes, TypeOK
<1>6. OthersAreOver'
  BY <1>3, <1>5, OthersStay DEF InStage
<1>7. Content' = Content
  BY DEF Content, Prefix
<1>8. Complete'
  BY <1>1, <1>3, <1>4, <1>5, <1>7 DEF Closes, Complete, NothingPending, Current
<1> QED
  BY <1>3, <1>6, <1>8 DEF InStage, Alive, Stages

-----------------------------------------------------------------------------
(* The delegate.                                                           *)

\* The queue is free, and a session task still to end.
LEMMA DeliveryStage ==
  ASSUME TypeOK, InStage, waiting = 0, NEW n \in Attempts,
         network[n].phase \in {"running", "cancelling"}
  PROVE  /\ n = attempt /\ Downloads /\ ChunksWritten /\ PostsInOrder
         /\ LastKind = "update" /\ posted \in Seq(Posts)
<1>1. n = attempt
  BY OnlyCurrent DEF InStage
<1>2. Downloads
  BY <1>1 DEF InStage, Stages, NotStarted, ReadsCookies, WritesDataUrl, Unused,
              SessionEnded, Closes, Complete, Current, Attempts
<1>3. ChunksWritten /\ PostsInOrder
  BY <1>1, <1>2 DEF Downloads, ChunkOnItsWay, Attempts
<1>4. posted \in Seq(Posts)
  BY DEF TypeOK
<1>5. ASSUME posted = << >> PROVE LastKind = "update"
  BY <1>5 DEF LastKind
<1>6. ASSUME posted # << >> PROVE LastKind = "update"
  <2>1. Len(posted) \in 1 .. Len(posted)
    BY <1>4, <1>6, TailPosts
  <2>2. posted[Len(posted)].kind \in {"data", "update", "done"}
    <3>1. posted[Len(posted)] \in Posts
      BY <1>4, <2>1
    <3> QED
      BY <3>1 DEF Posts
  <2>3. LastKind \in {"data", "update", "done"}
    BY <1>6, <2>2 DEF LastKind
  <2> QED
    BY <1>2, <1>3, <2>3 DEF Downloads, ChunksWritten
<1> QED
  BY <1>1, <1>2, <1>3, <1>4, <1>5, <1>6

LEMMA DidReceiveDataStage ==
  ASSUME TypeOK, InStage, NEW n \in Attempts, DidReceiveData(n)
  PROVE  InStage'
<1>1. /\ n = attempt /\ Downloads /\ ChunksWritten /\ PostsInOrder
      /\ LastKind = "update" /\ posted \in Seq(Posts)
  BY DeliveryStage DEF DidReceiveData, Delivers
<1>2. /\ network' = [network EXCEPT ![attempt].sent = @ + 1]
      /\ posted' = Append(posted, Post("data", attempt, "OK"))
      /\ waiting' = attempt
      /\ UNCHANGED << scheme, state, error, received, attempt, sessionTask,
                      writer, cookies, reports >>
  BY <1>1 DEF DidReceiveData, taskVars
<1>3. /\ Current'.phase = Current.phase /\ Current'.sent = Current.sent + 1
      /\ Current.sent \in Nat
      /\ \A i \in Attempts \ {attempt} : network'[i] = network[i]
  BY <1>1, <1>2 DEF Current, TypeOK, SessionTasks
<1>4. OthersAreOver'
  BY <1>2, <1>3, OthersStay DEF InStage
<1>5. PostsInOrder' /\ LastKind' = "data"
  BY <1>1, <1>2, PostType, AppendInOrder DEF Errors
<1>6. ChunkOnItsWay'
  <2>1. Current'.sent - 1 = Current.sent /\ Current'.sent > 0
    BY <1>3
  <2>2. writer'.data = Prefix(Current'.sent - 1) /\ writer'.io = "none"
    BY <1>1, <1>2, <2>1 DEF ChunksWritten
  <2> QED
    BY <1>2, <1>5, <2>1, <2>2 DEF ChunkOnItsWay, Prefix
<1>7. Downloads'
  BY <1>1, <1>2, <1>3, <1>5, <1>6 DEF Downloads
<1> QED
  BY <1>2, <1>4, <1>7 DEF InStage, Alive, Stages

LEMMA DidCompleteStage ==
  ASSUME TypeOK, InStage, NEW n \in Attempts, NEW code \in Errors,
         DidComplete(n, code)
  PROVE  InStage'
<1>1. /\ n = attempt /\ Downloads /\ ChunksWritten /\ PostsInOrder
      /\ LastKind = "update" /\ posted \in Seq(Posts)
  BY DeliveryStage DEF DidComplete
<1>2. /\ network' = [network EXCEPT ![attempt].phase = "ended"]
      /\ posted' = Append(posted, Post("done", attempt, code))
      /\ UNCHANGED << scheme, state, error, received, attempt, sessionTask,
                      writer, cookies, waiting, reports >>
  BY <1>1 DEF DidComplete, taskVars
<1>3. /\ Current'.phase = "ended" /\ Current'.sent = Current.sent
      /\ \A i \in Attempts \ {attempt} : network'[i] = network[i]
  BY <1>1, <1>2 DEF Current, TypeOK, SessionTasks
<1>4. OthersAreOver'
  BY <1>2, <1>3, OthersStay DEF InStage
<1>5. /\ PostsInOrder' /\ LastKind' = "done"
      /\ posted'[Len(posted')].error = code
  BY <1>1, <1>2, PostType, AppendInOrder
<1>6. ChunksWritten'
  BY <1>1, <1>2, <1>3, <1>5 DEF ChunksWritten, Prefix
<1>7. /\ code = "OK" => Current.sent = Chunks
      /\ \/ state = "inProgress" /\ code # "aborted"
         \/ state = "cancelled" /\ code = "aborted"
  BY <1>1 DEF DidComplete, Downloads, Current
<1>8. SessionEnded'
  BY <1>1, <1>2, <1>3, <1>5, <1>6, <1>7 DEF SessionEnded, Downloads
<1> QED
  BY <1>2, <1>4, <1>8 DEF InStage, Alive, Stages

-----------------------------------------------------------------------------
(* After the destructor.                                                   *)

LEMMA DestroyedStays ==
  ASSUME TypeOK, Destroyed, [Next]_vars
  PROVE  Destroyed'
<1>1. NewWriter' = NewWriter /\ writer.io = "none"
  BY NewWriters DEF NewWriter, Destroyed
<1>2. CASE StartHttp \/ StartDataUrlParsing \/ Cancel \/ Destroy
  BY <1>2 DEF StartHttp, StartDataUrlParsing, MayStart, Cancel, MayCancel,
              Destroy, Alive, Destroyed
<1>3. CASE StartWithCookies \/ UpdateProperties \/ CompleteDownload
  BY <1>1, <1>3 DEF StartWithCookies, UpdateProperties, CompleteDownload, Alive,
                    Destroyed
<1>4. CASE WriteData
  BY <1>1, <1>4 DEF WriteData, Alive, Destroyed, taskVars
<1>5. CASE DataWritten \/ DataUrlWritten \/ WriterClosed
  BY <1>1, <1>5 DEF DataWritten, DataUrlWritten, WriterClosed
<1>6. ASSUME NEW n \in Attempts, DidReceiveData(n) PROVE Destroyed'
  BY <1>1, <1>6 DEF DidReceiveData, Destroyed, taskVars, TypeOK, SessionTasks
<1>7. ASSUME NEW n \in Attempts, NEW code \in Errors, DidComplete(n, code)
      PROVE Destroyed'
  BY <1>1, <1>7 DEF DidComplete, Destroyed, taskVars, TypeOK, SessionTasks
<1>8. CASE UNCHANGED vars
  BY <1>1, <1>8 DEF vars, Destroyed
<1> QED
  BY <1>2, <1>3, <1>4, <1>5, <1>6, <1>7, <1>8 DEF Next, UIThread, Session

-----------------------------------------------------------------------------
(* The inductive invariant.                                                *)

LEMMA InitIInv == Init => IInv
<1> SUFFICES ASSUME Init PROVE IInv
  OBVIOUS
<1>1. TypeOK
  BY InitTInv DEF TInv
<1>2. OthersAreOver
  BY DEF Init, OthersAreOver, Unused, Attempts
<1>3. NotStarted
  BY NewWriters DEF Init, NotStarted, NothingPending
<1> QED
  BY <1>1, <1>2, <1>3 DEF Init, IInv, Alive, Stages

LEMMA NextIInv ==
  ASSUME Ordinary, TInv, IInv, [Next]_vars
  PROVE  IInv'
<1>1. TypeOK
  BY DEF TInv
<1>2. TypeOK'
  BY NextTInv DEF TInv
<1>3. CASE Destroyed
  BY <1>1, <1>2, <1>3, DestroyedStays DEF IInv
<1>4. ASSUME InStage PROVE InStage' \/ Destroyed'
  <2>1. CASE StartHttp
    BY <1>1, <1>4, <2>1, StartHttpStage
  <2>2. CASE StartDataUrlParsing
    BY <1>1, <1>4, <2>2, StartDataUrlStage
  <2>3. CASE Cancel
    BY <1>1, <1>4, <2>3, CancelStage
  <2>4. CASE Destroy
    BY <1>1, <1>4, <2>4, DestroyStage
  <2>5. CASE StartWithCookies
    BY <1>1, <1>4, <2>5, StartWithCookiesStage
  <2>6. CASE WriteData
    BY <1>4, <2>6, WriteDataStage
  <2>7. CASE DataWritten
    BY <1>4, <2>7, DataWrittenStage
  <2>8. CASE DataUrlWritten
    BY <1>1, <1>4, <2>8, DataUrlWrittenStage
  <2>9. CASE UpdateProperties
    BY <1>1, <1>4, <2>9, UpdatePropertiesStage
  <2>10. CASE CompleteDownload
    BY <1>1, <1>4, <2>10, CompleteDownloadStage
  <2>11. CASE WriterClosed
    BY <1>1, <1>4, <2>11, WriterClosedStage
  <2>12. ASSUME NEW n \in Attempts, DidReceiveData(n) PROVE InStage'
    BY <1>1, <1>4, <2>12, DidReceiveDataStage
  <2>13. ASSUME NEW n \in Attempts, NEW code \in Errors, DidComplete(n, code)
         PROVE InStage'
    BY <1>1, <1>4, <2>13, DidCompleteStage
  <2>14. CASE UNCHANGED vars
    BY <1>4, <2>14
    DEF vars, InStage, Alive, OthersAreOver, Stages, NotStarted, ReadsCookies,
        WritesDataUrl, Downloads, SessionEnded, Closes, Complete, Unused,
        NothingPending, Current, PostsInOrder, LastKind, ChunkOnItsWay,
        ChunksWritten, Prefix, Content, NewWriter
  <2> QED
    BY <2>1, <2>2, <2>3, <2>4, <2>5, <2>6, <2>7, <2>8, <2>9, <2>10, <2>11, <2>12,
       <2>13, <2>14 DEF Next, UIThread, Session
<1> QED
  BY <1>2, <1>3, <1>4 DEF IInv, InStage

-----------------------------------------------------------------------------
(* What the stages give.                                                   *)

LEMMA StagesHold ==
  ASSUME Ordinary
  PROVE  Spec => [](TInv /\ IInv)
<1>1. Init => TInv /\ IInv
  BY InitTInv, InitIInv
<1>2. (TInv /\ IInv) /\ [Next]_vars => (TInv /\ IInv)'
  BY NextTInv, NextIInv
<1> QED
  BY <1>1, <1>2, PTL DEF Spec

LEMMA StagesAreSafe ==
  ASSUME TInv, IInv
  PROVE  CompleteMeansWritten /\ NothingRunsUnattended /\ FinishesOnce
<1>1. TypeOK
  BY DEF TInv
<1>2. CASE Destroyed
  BY <1>2 DEF Destroyed, CompleteMeansWritten, NothingRunsUnattended, FinishesOnce
<1>3. CASE InStage
  <2>1. NothingRunsUnattended
    BY <1>1, <1>3, RunningStage DEF NothingRunsUnattended
  <2>2. FinishesOnce
    BY <1>1, <1>3, StageReports DEF FinishesOnce
  <2>3. CompleteMeansWritten
    BY <1>3 DEF CompleteMeansWritten, InStage, Stages, NotStarted, ReadsCookies,
                WritesDataUrl, Downloads, SessionEnded, Closes, Complete
  <2> QED
    BY <2>1, <2>2, <2>3
<1> QED
  BY <1>2, <1>3 DEF IInv, InStage

(***************************************************************************)
(* A download that completed without error is all written, in order and    *)
(* once, when its client cancels only what is under way, starts again only *)
(* what is settled, and the disk takes what it is given.                   *)
(***************************************************************************)
THEOREM CompletesWritten ==
  ASSUME Ordinary
  PROVE  Spec => []CompleteMeansWritten
<1>1. TInv /\ IInv => CompleteMeansWritten
  BY StagesAreSafe
<1> QED
  BY StagesHold, <1>1, PTL

-----------------------------------------------------------------------------
(* Session tasks, also of clients that cancel when they like and of writers *)
(* that fail.                                                               *)

LEMMA InitAttended == Init => Attended
  BY NewWriters DEF Init, Attended, RunsOnlyUnderWay, Alive, Active, NoneActive, DonePosted

\* What Attended says depends on these alone.
LEMMA AttendedCore ==
  ASSUME Attended, posted \in Seq(Posts),
         \A n \in Attempts : network'[n].phase = network[n].phase,
         UNCHANGED << scheme, state, sessionTask, cookies >>,
         writer'.io = "close" => writer.io = "close",
         ~Alive => writer'.io = "none",
         DonePosted' => DonePosted
  PROVE  Attended'
<1>1. Alive' <=> Alive
  BY DEF Alive
<1>2. UnderWay' <=> UnderWay
  BY DEF UnderWay
<1>3. /\ NoneActive' <=> NoneActive
      /\ \A n \in Attempts : Active(n)' <=> Active(n)
  BY DEF NoneActive, Active
<1> QED
  BY <1>1, <1>2, <1>3 DEF Attended, RunsOnlyUnderWay

\* No session task is active after the step.
LEMMA AttendedAtRest ==
  ASSUME NoneActive', Alive', cookies' = << >>
  PROVE  Attended'
  BY DEF NoneActive, Active, Attended, RunsOnlyUnderWay

\* What is posted next is no end.
LEMMA SignalDone ==
  ASSUME NEW posts \in Seq(Posts), waiting \in Attempts, Signal(posts),
         \E i \in 1 .. Len(posted') : posted'[i].kind = "done"
  PROVE  \E i \in 1 .. Len(posts) : posts[i].kind = "done"
<1>1. Post("update", waiting, "OK") \in Posts /\ Post("update", waiting, "OK").kind = "update"
  BY PostType DEF Errors
<1> QED
  BY <1>1, AppendPosts DEF Signal

LEMMA NoneDone ==
  ASSUME posted' = << >>
  PROVE  ~DonePosted'
  BY DEF DonePosted

LEMMA TailDone ==
  ASSUME posted \in Seq(Posts), posted # << >>,
         \E i \in 1 .. Len(Tail(posted)) : Tail(posted)[i].kind = "done"
  PROVE  DonePosted
  BY TailPosts DEF DonePosted

\* The cookies of one start, and a session task that there is.
LEMMA OneCookie ==
  ASSUME attempt \in 0 .. MaxAttempts
  PROVE  Len(Append(<< >>, attempt + 1)) = 1
<1>1. attempt + 1 \in Nat
  OBVIOUS
<1> QED
  BY <1>1

LEMMA SessionTaskType ==
  ASSUME sessionTask \in 0 .. MaxAttempts, sessionTask # 0
  PROVE  sessionTask \in Attempts
  BY DEF Attempts

LEMMA ClientAttended ==
  ASSUME TInv, Attended, "early restart" \notin Liberties,
         StartHttp \/ StartDataUrlParsing \/ Cancel \/ Destroy
  PROVE  Attended'
<1>0. /\ network \in [Attempts -> SessionTasks] /\ sessionTask \in 0 .. MaxAttempts
      /\ cookies \in Seq(Attempts) /\ posted \in Seq(Posts)
      /\ attempt \in 0 .. MaxAttempts
  BY DEF TInv, TypeOK
<1>1. CASE StartHttp
  <2>1. /\ Settled /\ state' = "inProgress" /\ scheme = "http" /\ writer' = NewWriter
        /\ cookies' = Append(cookies, attempt + 1)
        /\ UNCHANGED << scheme, network, posted >>
    BY <1>1, Zenon DEF StartHttp, MayStart
  <2>2. NoneActive'
    BY <2>1 DEF Settled, NoneActive, Active
  <2>3. ~DonePosted'
    <3>1. posted' = << >>
      BY <2>1 DEF Settled
    <3> QED
      BY <3>1, NoneDone
  <2>4. Len(cookies') = 1
    <3>1. cookies' = Append(<< >>, attempt + 1)
      BY <2>1 DEF Settled
    <3> QED
      BY <1>0, <3>1, OneCookie
  <2> QED
    BY <2>1, <2>2, <2>3, <2>4, NewWriters
    DEF Attended, RunsOnlyUnderWay, NoneActive, Active, UnderWay, Alive
<1>2. CASE StartDataUrlParsing
  <2>1. Settled /\ UNCHANGED << network, cookies >>
    BY <1>2, Zenon DEF StartDataUrlParsing, MayStart
  <2>2. NoneActive' /\ cookies' = << >>
    BY <2>1 DEF Settled, NoneActive, Active
  <2>3. state' \in {"inProgress", "complete"}
    BY <1>2, Zenon DEF StartDataUrlParsing, OnDataUrlWritten, Finished, OnDownloadFinished
  <2> QED
    BY <2>2, <2>3, AttendedAtRest DEF Alive
<1>3. ASSUME network' = CancelSessionTask(sessionTask)
      PROVE  /\ \A n \in Attempts : network'[n].phase # "running"
             /\ \A n \in Attempts : Active(n)' <=> Active(n)
             /\ NoneActive' <=> NoneActive
  <2>1. \A n \in Attempts :
          network'[n].phase =
            IF n = sessionTask /\ network[n].phase = "running"
            THEN "cancelling" ELSE network[n].phase
    BY <1>0, <1>3, CancelType
  <2> QED
    BY <2>1 DEF Attended, RunsOnlyUnderWay, NoneActive, Active
<1>4. CASE Cancel
  <2>1. /\ MayCancel /\ network' = CancelSessionTask(sessionTask)
        /\ state' = "cancelled"
        /\ UNCHANGED << scheme, writer, cookies, posted >>
    BY <1>4 DEF Cancel
  <2>2. Alive
    BY <2>1 DEF MayCancel, Alive
  <2>3. cookies # << >> => "early cancel" \in Liberties
    <3>1. cookies # << >> => NoneActive /\ UnderWay
      BY <2>2 DEF Attended
    <3>2. sessionTask # 0 => sessionTask \in Attempts
      BY <1>0, SessionTaskType
    <3> QED
      BY <2>1, <3>1, <3>2 DEF MayCancel, NoneActive, Active, UnderWay
  <2>4. DonePosted' <=> DonePosted
    BY <2>1 DEF DonePosted
  <2>5. /\ \A n \in Attempts : network'[n].phase # "running"
        /\ \A n \in Attempts : Active(n)' <=> Active(n)
        /\ NoneActive' <=> NoneActive
    BY <1>3, <2>1
  <2> QED
    BY <2>1, <2>2, <2>3, <2>4, <2>5 DEF Attended, RunsOnlyUnderWay, UnderWay, Alive
<1>5. CASE Destroy
  <2>1. /\ network' = CancelSessionTask(sessionTask) /\ state' = "destroyed"
        /\ writer' = NewWriter
    BY <1>5, Zenon DEF Destroy
  <2>2. \A n \in Attempts : network'[n].phase # "running"
    BY <1>3, <2>1
  <2> QED
    BY <2>1, <2>2, NewWriters DEF Attended, RunsOnlyUnderWay, Alive
<1> QED
  BY <1>1, <1>2, <1>4, <1>5

LEMMA SessionAttended ==
  ASSUME TInv, Attended, NEW n \in Attempts, Session(n)
  PROVE  Attended'
<1>0. /\ network \in [Attempts -> SessionTasks] /\ posted \in Seq(Posts)
      /\ UNCHANGED << scheme, state, sessionTask, cookies, writer >>
  BY Zenon DEF TInv, TypeOK, Session, DidReceiveData, DidComplete, taskVars
<1>1. CASE DidReceiveData(n)
  <2>1. \A m \in Attempts : network'[m].phase = network[m].phase
    BY <1>0, <1>1 DEF DidReceiveData, SessionTasks
  <2>2. Post("data", n, "OK") \in Posts /\ Post("data", n, "OK").kind = "data"
    BY PostType DEF Errors
  <2>3. DonePosted' => DonePosted
    BY <1>0, <1>1, <2>2, AppendPosts DEF DidReceiveData, DonePosted
  <2> QED
    BY <1>0, <2>1, <2>3, AttendedCore DEF Attended
<1>2. ASSUME NEW code \in Errors, DidComplete(n, code)
      PROVE  Attended'
  <2>1. Active(n)
    BY <1>2 DEF DidComplete, Active
  <2>2. \A m \in Attempts :
          network'[m].phase = IF m = n THEN "ended" ELSE network[m].phase
    BY <1>0, <1>2 DEF DidComplete, SessionTasks
  <2>3. CASE ~Alive
    BY <1>0, <2>2, <2>3 DEF Attended, RunsOnlyUnderWay, UnderWay, Alive
  <2>4. CASE Alive
    <3>1. NoneActive' /\ cookies' = << >>
      BY <1>0, <2>1, <2>2, <2>4 DEF Attended, NoneActive, Active
    <3> QED
      BY <1>0, <2>4, <3>1, AttendedAtRest DEF Alive
  <2> QED
    BY <2>3, <2>4
<1> QED
  BY <1>1, <1>2 DEF Session

LEMMA WritingAttended ==
  ASSUME TInv, Attended, WriteData \/ DataWritten \/ UpdateProperties
  PROVE  Attended'
<1>0. /\ posted \in Seq(Posts) /\ writer \in Writers
      /\ UNCHANGED << scheme, state, sessionTask, cookies, network >>
  BY Zenon DEF TInv, TypeOK, WriteData, DataWritten, UpdateProperties, taskVars
<1>1. DonePosted' => DonePosted
  <2>1. CASE UpdateProperties
    BY <1>0, <2>1, TailDone DEF UpdateProperties, DonePosted
  <2>2. CASE WriteData
    <3>1. posted # << >> /\ waiting # 0 /\ Tail(posted) = << >>
      BY <2>2, DataAtHead DEF WriteData
    <3>2. waiting \in Attempts /\ << >> \in Seq(Posts)
      BY <3>1, ChunkType
    <3>3. posted' = << >> \/ Signal(<< >>)
      BY <2>2, <3>1 DEF WriteData
    <3>4. CASE posted' = << >>
      BY <3>4, NoneDone
    <3>5. CASE Signal(<< >>)
      <4>1. ~\E i \in 1 .. Len(<< >>) : (<< >>)[i].kind = "done"
        OBVIOUS
      <4> QED
        BY <3>2, <3>5, <4>1, SignalDone DEF DonePosted
    <3> QED
      BY <3>3, <3>4, <3>5
  <2>3. CASE DataWritten
    <3>1. waiting # 0 /\ posted = << >> /\ Signal(posted)
      BY <2>3 DEF DataWritten, TInv
    <3>2. waiting \in Attempts
      BY <3>1, ChunkType
    <3> QED
      BY <1>0, <3>1, <3>2, SignalDone DEF DonePosted
  <2> QED
    BY <2>1, <2>2, <2>3
<1>2. /\ writer'.io = "close" => writer.io = "close"
      /\ ~Alive => writer'.io = "none"
  <2>1. CASE UpdateProperties
    BY <2>1 DEF UpdateProperties, Attended
  <2>2. CASE WriteData
    <3>1. CASE UNCHANGED writer
      BY <3>1 DEF Attended
    <3>2. ASSUME Alive, NEW result \in WriteResults,
                 writer' = Written(writer, Chunk, result)
          PROVE  writer'.io # "close"
      <4>1. waiting # 0 /\ result \in {"done", "pending", "error"}
        BY <2>2, DataAtHead DEF WriteData, WriteResults
      <4> QED
        BY <1>0, <3>2, <4>1, ChunkType, WrittenType
    <3>3. "pending" \in WriteResults /\ LateResults \subseteq WriteResults
      BY DEF WriteResults, LateResults
    <3> QED
      BY <2>2, <3>1, <3>2, <3>3 DEF WriteData
  <2>3. CASE DataWritten
    <3>1. PICK result \in LateResults : writer' = Written(writer, Chunk, result)
      BY <2>3 DEF DataWritten
    <3>2. waiting # 0 /\ writer.io = "write"
      BY <2>3 DEF DataWritten, TInv
    <3>3. writer'.io = "none"
      BY <1>0, <3>1, <3>2, ChunkType, LateType
    <3> QED
      BY <3>3
  <2> QED
    BY <2>1, <2>2, <2>3
<1> QED
  BY <1>0, <1>1, <1>2, AttendedCore

LEMMA EndingAttended ==
  ASSUME TInv, Attended,
         DataUrlWritten \/ CompleteDownload \/ WriterClosed
  PROVE  Attended'
<1>0. posted \in Seq(Posts) /\ UNCHANGED << network, cookies >>
  BY Zenon DEF TInv, TypeOK, DataUrlWritten, CompleteDownload, WriterClosed
<1>1. CASE ~Alive
  <2>1. CompleteDownload
    BY <1>1 DEF Attended, DataUrlWritten, WriterClosed
  <2>2. /\ UNCHANGED << scheme, state, sessionTask, writer >>
        /\ posted # << >> /\ posted' = Tail(posted)
    BY <1>1, <2>1, Zenon DEF CompleteDownload
  <2>3. DonePosted' => DonePosted
    BY <1>0, <2>2, TailDone DEF DonePosted
  <2> QED
    BY <1>0, <1>1, <2>2, <2>3, AttendedCore DEF Attended
<1>2. CASE Alive
  <2>1. NoneActive /\ cookies = << >>
    <3>1. CASE DataUrlWritten
      BY <1>2, <3>1 DEF DataUrlWritten, Attended
    <3>2. CASE WriterClosed
      BY <1>2, <3>2 DEF WriterClosed, Attended
    <3>3. CASE CompleteDownload
      <4>1. DonePosted
        BY <1>0, <3>3, TailPosts DEF CompleteDownload, DonePosted
      <4> QED
        BY <1>2, <4>1 DEF Attended
    <3> QED
      BY <3>1, <3>2, <3>3
  <2>2. state' \in {state, "complete"}
    BY <1>2, Zenon DEF DataUrlWritten, CompleteDownload, WriterClosed,
       OnDataUrlWritten, EndWith, Finished, OnDownloadFinished
  <2> QED
    BY <1>0, <1>2, <2>1, <2>2, AttendedAtRest DEF Alive, NoneActive, Active
<1> QED
  BY <1>1, <1>2

LEMMA StartAttended ==
  ASSUME TInv, Attended, StartWithCookies
  PROVE  Attended'
<1>0. /\ cookies # << >> /\ cookies \in Seq(Attempts)
      /\ network \in [Attempts -> SessionTasks]
      /\ cookies' = Tail(cookies) /\ UNCHANGED << scheme, state, writer, posted >>
  BY Zenon DEF StartWithCookies, TInv, TypeOK
<1>1. CASE ~Alive
  BY <1>0, <1>1, Zenon DEF StartWithCookies, Attended, RunsOnlyUnderWay, UnderWay, Alive
<1>2. CASE Alive
  <2> DEFINE n == Head(cookies)
  <2>1. /\ n \in Attempts /\ sessionTask' = n
        /\ network' = [network EXCEPT ![n].phase = "running"]
    BY <1>0, <1>2 DEF StartWithCookies
  <2>2. /\ scheme = "http" /\ UnderWay /\ Len(cookies) = 1
        /\ writer.io # "close" /\ ~DonePosted /\ NoneActive
    BY <1>0, <1>2 DEF Attended
  <2> HIDE DEF n
  <2>3. \A m \in Attempts :
          network'[m].phase = IF m = n THEN "running" ELSE network[m].phase
    BY <1>0, <2>1 DEF SessionTasks
  <2>4. cookies' = << >>
    BY <1>0, <2>2
  <2>5. \A m \in Attempts : Active(m)' <=> m = n
    BY <2>2, <2>3 DEF NoneActive, Active
  <2>6. RunsOnlyUnderWay'
    BY <1>0, <2>1, <2>2, <2>3 DEF RunsOnlyUnderWay, UnderWay, NoneActive, Active
  <2>7. Alive' /\ ~DonePosted'
    BY <1>0, <1>2, <2>2 DEF Alive, DonePosted
  <2> QED
    BY <1>0, <2>2, <2>4, <2>5, <2>6, <2>7 DEF Attended
<1> QED
  BY <1>1, <1>2

LEMMA AttendedHolds ==
  ASSUME "early restart" \notin Liberties
  PROVE  Spec => []Attended
<1>1. ASSUME TInv, Attended, [Next]_vars
      PROVE  Attended'
  <2>1. CASE UNCHANGED vars
    <3>1. /\ posted \in Seq(Posts)
          /\ UNCHANGED << scheme, state, sessionTask, cookies, writer, network, posted >>
      BY <1>1, <2>1 DEF vars, TInv, TypeOK
    <3> QED
      BY <1>1, <3>1, AttendedCore DEF DonePosted, Attended
  <2> QED
    BY <1>1, <2>1, ClientAttended, SessionAttended, WritingAttended, EndingAttended,
       StartAttended DEF Next, UIThread
<1> QED
  BY InitTInv, NextTInv, InitAttended, <1>1, PTL DEF Spec

(***************************************************************************)
(* Outside an attempt in progress no session task runs, when the client    *)
(* does neither of two things: cancel while the cookies are read, and      *)
(* start again before the attempt is over.  Cancellations that come late,  *)
(* writes that fail and destruction at any time change nothing.  A client  *)
(* that cancels while the cookies are read is not covered: the code then   *)
(* does leave one running (StartWithCookies), see the next theorem.        *)
(***************************************************************************)
THEOREM NothingIsLeftRunning ==
  ASSUME Liberties \intersect {"early cancel", "early restart"} = {}
  PROVE  Spec => []NothingRunsUnattended
<1>1. "early cancel" \notin Liberties /\ "early restart" \notin Liberties
  OBVIOUS
<1>2. Attended => NothingRunsUnattended
  BY <1>1 DEF Attended, RunsOnlyUnderWay, UnderWay, NothingRunsUnattended
<1>3. Spec => []Attended
  BY <1>1, AttendedHolds
<1> QED
  BY <1>2, <1>3, PTL

(***************************************************************************)
(* What the cancellation while the cookies are read leaves running is at   *)
(* most one session task, of a task in state kCancelled whose session_task_*)
(* it is; none runs once that has completed or was destroyed               *)
(* (OnDownloadFinished, ShutDown).                                         *)
(***************************************************************************)
THEOREM OnlyCancelledRunsOn ==
  ASSUME "early restart" \notin Liberties
  PROVE  Spec => []RunsOnlyUnderWay
<1>1. Attended => RunsOnlyUnderWay
  BY DEF Attended
<1>2. Spec => []Attended
  BY AttendedHolds
<1> QED
  BY <1>1, <1>2, PTL

(***************************************************************************)
(* The end of each attempt is reported at most once, whichever of the      *)
(* session task, the file writer, the writer's completion and the client's *)
(* cancellation ends it (OnDownloadFinished).                              *)
(***************************************************************************)
THEOREM ReportsEndOnce ==
  ASSUME Ordinary
  PROVE  Spec => []FinishesOnce
<1>1. TInv /\ IInv => FinishesOnce
  BY StagesAreSafe
<1> QED
  BY StagesHold, <1>1, PTL

\* The steps that complete a download.
LEMMA CompletingStep ==
  ASSUME TInv, IInv, [Next]_vars, state \in {"inProgress", "cancelled"},
         state' = "complete"
  PROVE  \/ attempt' # attempt /\ state = "cancelled"
         \/ state = "inProgress" /\ error' # "aborted"
         \/ state = "cancelled" /\ error' = "aborted"
<1>1. TypeOK /\ InStage
  BY DEF TInv, IInv, InStage, Destroyed
<1>2. CASE StartHttp
  BY <1>2 DEF StartHttp
<1>3. CASE StartDataUrlParsing
  <2>1. attempt' = attempt + 1 /\ state # "inProgress"
    BY <1>3, Zenon DEF StartDataUrlParsing, MayStart
  <2> QED
    BY <1>1, <2>1 DEF TypeOK
<1>4. CASE Cancel \/ Destroy
  BY <1>4 DEF Cancel, Destroy
<1>5. CASE \/ StartWithCookies \/ UpdateProperties
           \/ WriteData \/ DataWritten
           \/ \E n \in Attempts : Session(n)
  <2>1. state' = state
    BY <1>5, Zenon DEF StartWithCookies, UpdateProperties, WriteData, DataWritten,
                       Session, DidReceiveData, DidComplete, taskVars
  <2> QED
    BY <2>1
<1>6. CASE DataUrlWritten
  <2>1. PICK result \in LateResults :
          OnDataUrlWritten(attempt, Written(writer, Content, result), state)
    BY <1>6 DEF DataUrlWritten
  <2>2. error' = "OK"
    BY <2>1 DEF OnDataUrlWritten, Finished, OnDownloadFinished
  <2>3. state = "inProgress"
    BY <1>1, <1>6 DEF DataUrlWritten, InStage, Stages, NotStarted, ReadsCookies,
         WritesDataUrl, Downloads, SessionEnded, Closes, Complete
  <2> QED
    BY <2>2, <2>3
<1>7. CASE CompleteDownload
  <2>1. /\ \/ state = "inProgress" /\ Head(posted).error # "aborted"
           \/ state = "cancelled" /\ Head(posted).error = "aborted"
        /\ EndWith(Head(posted).error)
    BY <1>1, <1>7, EndStage DEF CompleteDownload, InStage
  <2>2. error' = Head(posted).error
    BY <2>1 DEF EndWith, Finished, OnDownloadFinished
  <2> QED
    BY <2>1, <2>2
<1>8. CASE WriterClosed
  <2>1. error' # "aborted"
    BY <1>8 DEF WriterClosed, OnDownloadFinished, CloseResults
  <2>2. state = "inProgress"
    BY <1>1, <1>8, ClosingStage DEF WriterClosed, Closes
  <2> QED
    BY <2>1, <2>2
<1>9. CASE UNCHANGED vars
  BY <1>9 DEF vars
<1> QED
  BY <1>2, <1>3, <1>4, <1>5, <1>6, <1>7, <1>8, <1>9 DEF Next, UIThread

(***************************************************************************)
(* A cancelled attempt that completes does so as aborted: the end of its   *)
(* session task reaches the attempt it belongs to.                         *)
(***************************************************************************)
THEOREM CancelsAbort ==
  ASSUME Ordinary
  PROVE  Spec => CancelledThenAborted
<1>1. ASSUME TInv /\ IInv, [Next]_vars
      PROVE  [/\ state = "cancelled" /\ state' = "complete"
              /\ attempt' = attempt
              => error' = "aborted"]_vars
  BY <1>1, CompletingStep
<1> QED
  BY StagesHold, <1>1, PTL DEF Spec, CancelledThenAborted

(***************************************************************************)
(* No attempt completes as aborted unless it was cancelled: the cancelled  *)
(* session task of an earlier attempt does not end a later one.            *)
(***************************************************************************)
THEOREM AbortsAreCancelled ==
  ASSUME Ordinary
  PROVE  Spec => OnlyCancelledIsAborted
<1>1. ASSUME TInv /\ IInv, [Next]_vars
      PROVE  [state = "inProgress" /\ state' = "complete"
              => error' # "aborted"]_vars
  BY <1>1, CompletingStep
<1> QED
  BY StagesHold, <1>1, PTL DEF Spec, OnlyCancelledIsAborted
=============================================================================
