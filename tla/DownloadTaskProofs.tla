------------------------- MODULE DownloadTaskProofs -------------------------
(***************************************************************************)
(* Theorems about DownloadTask, for any number of chunks and attempts.     *)
(***************************************************************************)
EXTENDS DownloadTaskStages, TLAPS

USE ChunksAssumption, AttemptsAssumption

-----------------------------------------------------------------------------
(* What is posted.                                                         *)

LEMMA TailPosts ==
  ASSUME NEW S, NEW s \in Seq(S), s # << >>
  PROVE  /\ Head(s) \in S /\ Head(s) = s[1] /\ Tail(s) \in Seq(S)
         /\ Len(s) \in Nat \ {0} /\ Len(Tail(s)) = Len(s) - 1
         /\ \A i \in 1 .. Len(Tail(s)) : Tail(s)[i] = s[i + 1]
  OBVIOUS

LEMMA EmptyPosts ==
  ASSUME NEW s \in Seq(Posts), Len(s) = 0
  PROVE  s = << >>
  OBVIOUS

LEMMA HeadOfPosts ==
  ASSUME posted \in Seq(Posts), posted # << >>
  PROVE  /\ Head(posted) \in Posts /\ Head(posted).of \in Attempts
         /\ Head(posted).error \in Errors /\ Tail(posted) \in Seq(Posts)
<1>1. Head(posted) \in Posts /\ Tail(posted) \in Seq(Posts)
  BY TailPosts
<1> QED
  BY <1>1 DEF Posts

LEMMA AppendPosts ==
  ASSUME NEW S, NEW s \in Seq(S), NEW e \in S
  PROVE  /\ Append(s, e) \in Seq(S) /\ Len(Append(s, e)) = Len(s) + 1
         /\ Len(s) \in Nat
         /\ \A i \in 1 .. Len(s) : Append(s, e)[i] = s[i]
         /\ Append(s, e)[Len(s) + 1] = e
  OBVIOUS

LEMMA PostType ==
  ASSUME NEW kind \in {"data", "update", "done"}, NEW n \in Attempts,
         NEW code \in Errors
  PROVE  /\ Post(kind, n, code) \in Posts
         /\ Post(kind, n, code).kind = kind /\ Post(kind, n, code).of = n
         /\ Post(kind, n, code).error = code
  BY DEF Post, Posts

LEMMA CancelType ==
  ASSUME network \in [Attempts -> SessionTasks], NEW n \in 0 .. MaxAttempts
  PROVE  /\ CancelSessionTask(n) \in [Attempts -> SessionTasks]
         /\ \A i \in Attempts :
              /\ CancelSessionTask(n)[i].sent = network[i].sent
              /\ CancelSessionTask(n)[i].phase =
                   IF i = n /\ network[i].phase = "running"
                   THEN "cancelling" ELSE network[i].phase
  BY DEF CancelSessionTask, SessionTasks

LEMMA NewWriterType == NewWriter \in Writers
  BY DEF NewWriter, Writers

-----------------------------------------------------------------------------
(* Types, whatever client and disk do.                                     *)

FieldsOK ==
  /\ scheme \in {"http", "data"} /\ state \in States /\ error \in Errors
  /\ received \in 0 .. Chunks /\ attempt \in 0 .. MaxAttempts
  /\ sessionTask \in 0 .. MaxAttempts /\ writer \in Writers
  /\ reports \in [Attempts -> Nat]

LEMMA MayStartType ==
  ASSUME FieldsOK, MayStart
  PROVE  attempt + 1 \in Attempts
<1>1. attempt \in 0 .. MaxAttempts
  BY DEF FieldsOK
<1>2. attempt < MaxAttempts
  BY DEF MayStart
<1> QED
  BY <1>1, <1>2 DEF Attempts

\* What TInv says of the queue depends on these alone.
LEMMA TInvCore ==
  ASSUME TInv, FieldsOK', cookies' \in Seq(Attempts),
         network' \in [Attempts -> SessionTasks],
         \A n \in Attempts : network'[n].sent >= network[n].sent,
         UNCHANGED << waiting, posted >>,
         writer'.io = "write" /\ scheme' = "http" =>
           writer.io = "write" /\ scheme = "http"
  PROVE  TInv'
<1>1. TypeOK'
  BY DEF TInv, TypeOK, DataPosts, FieldsOK
<1>2. waiting' # 0 => network'[waiting'].sent > 0
  BY DEF TInv, TypeOK, SessionTasks, Attempts
<1> QED
  BY <1>1, <1>2 DEF TInv, DataPosts

\* The queue posts an update and goes on.
LEMMA SignalTInv ==
  ASSUME TInv, waiting # 0, NEW posts \in Seq(Posts),
         \A i \in 1 .. Len(posts) : posts[i].kind # "data",
         Signal(posts), writer' \in Writers,
         writer'.io # "write" \/ scheme # "http",
         UNCHANGED << taskVars, network, cookies, reports >>
  PROVE  TInv'
<1>1. waiting \in Attempts
  BY DEF TInv, TypeOK, Attempts
<1>2. /\ Post("update", waiting, "OK") \in Posts
      /\ Post("update", waiting, "OK").kind = "update"
  BY <1>1, PostType DEF Errors
<1>3. /\ posted' \in Seq(Posts)
      /\ \A i \in 1 .. Len(posted') : posted'[i].kind # "data"
  BY <1>2, AppendPosts DEF Signal
<1>4. DataPosts' = {}
  BY <1>3 DEF DataPosts
<1> QED
  BY <1>3, <1>4 DEF TInv, TypeOK, Signal, taskVars

LEMMA SignalLast ==
  ASSUME TInv, waiting # 0, NEW posts, posts = << >>,
         Signal(posts), writer' \in Writers,
         writer'.io # "write" \/ scheme # "http",
         UNCHANGED << taskVars, network, cookies, reports >>
  PROVE  TInv'
<1>1. posts \in Seq(Posts) /\ \A i \in 1 .. Len(posts) : posts[i].kind # "data"
  OBVIOUS
<1> QED
  BY <1>1, SignalTInv

LEMMA InitTInv == Init => TInv
<1> SUFFICES ASSUME Init PROVE TInv
  OBVIOUS
<1>1. network \in [Attempts -> SessionTasks] /\ reports \in [Attempts -> Nat]
  BY DEF Init, SessionTasks
<1>2. DataPosts = {}
  BY DEF Init, DataPosts
<1>3. writer \in Writers /\ writer.io = "none"
  BY NewWriterType DEF Init, NewWriter
<1>4. cookies \in Seq(Attempts) /\ posted \in Seq(Posts) /\ waiting = 0
  BY DEF Init
<1>5. /\ scheme \in {"http", "data"} /\ state \in States /\ error \in Errors
      /\ received \in 0 .. Chunks /\ attempt \in 0 .. MaxAttempts
      /\ sessionTask \in 0 .. MaxAttempts
  BY DEF Init, States, Errors
<1> QED
  BY <1>1, <1>2, <1>3, <1>4, <1>5 DEF TInv, TypeOK

LEMMA WriterUpdates ==
  ASSUME NEW w \in Writers
  PROVE  /\ [w EXCEPT !.file = "closed"] \in Writers
         /\ [w EXCEPT !.file = "closed"].io = w.io
         /\ [w EXCEPT !.file = "closed"].data = w.data
         /\ [w EXCEPT !.io = "close"] \in Writers
         /\ [w EXCEPT !.io = "close"].io = "close"
         /\ [w EXCEPT !.io = "close"].data = w.data
         /\ [w EXCEPT !.io = "none", !.file = "closed"] \in Writers
         /\ [w EXCEPT !.io = "none", !.file = "closed"].io = "none"
         /\ [w EXCEPT !.io = "none", !.file = "closed"].data = w.data
  BY DEF Writers

LEMMA CountType ==
  ASSUME NEW f \in [Attempts -> Nat], NEW n \in 0 .. MaxAttempts
  PROVE  [f EXCEPT ![n] = @ + 1] \in [Attempts -> Nat]
<1>1. CASE n \in Attempts
  BY <1>1
<1>2. CASE n \notin Attempts
  BY <1>2
<1> QED
  BY <1>1, <1>2

\* What OnDownloadFinished, Finish and closing the file leave.
LEMMA FinishedType ==
  ASSUME TypeOK, NEW n \in 0 .. MaxAttempts, NEW w \in Writers,
         NEW code \in Errors, Finished(n, w, code)
  PROVE  /\ error' \in Errors /\ state' \in States
         /\ sessionTask' \in 0 .. MaxAttempts /\ writer' \in Writers
         /\ writer'.io = w.io /\ reports' \in [Attempts -> Nat]
<1>1. writer' \in Writers /\ writer'.io = w.io
  BY WriterUpdates DEF Finished
<1>2. reports' \in [Attempts -> Nat]
  BY CountType DEF Finished, OnDownloadFinished, TypeOK
<1>3. /\ error' \in Errors /\ state' \in States
      /\ sessionTask' \in 0 .. MaxAttempts
  BY DEF Finished, OnDownloadFinished, States
<1> QED
  BY <1>1, <1>2, <1>3

LEMMA ClosingType ==
  ASSUME TypeOK, NEW w \in Writers, Closing(w)
  PROVE  /\ sessionTask' \in 0 .. MaxAttempts /\ writer' \in Writers
         /\ writer'.io # "write" /\ reports' \in [Attempts -> Nat]
<1>1. writer' \in Writers /\ writer'.io # "write"
  BY WriterUpdates DEF Closing
<1> QED
  BY <1>1 DEF Closing, TypeOK

LEMMA WrittenType ==
  ASSUME NEW w \in Writers, NEW data \in Seq(1 .. Chunks),
         NEW result \in {"done", "pending", "error"}
  PROVE  /\ Written(w, data, result) \in Writers
         /\ Written(w, data, result).io =
              IF result = "pending" THEN "write" ELSE "none"
         /\ Written(w, data, result).file = w.file
         /\ Written(w, data, result).data =
              IF result = "done" /\ w.file = "open"
              THEN w.data \o data ELSE w.data
<1> DEFINE more == w.data \o data
<1>1. more \in Seq(1 .. Chunks)
  BY DEF Writers
<1> HIDE DEF more
<1>2. CASE result = "done" /\ w.file = "open"
  <2>1. Written(w, data, result) = [w EXCEPT !.data = more, !.io = "none"]
    BY <1>2 DEF Written, more
  <2>2. Written(w, data, result) \in Writers
    BY <1>1, <2>1 DEF Writers
  <2>3. /\ Written(w, data, result).io = "none"
        /\ Written(w, data, result).file = w.file
        /\ Written(w, data, result).data = more
    BY <2>1 DEF Writers
  <2> QED
    BY <1>2, <2>2, <2>3 DEF more
<1>3. CASE result = "pending"
  BY <1>3 DEF Written, Writers
<1>4. CASE result # "pending" /\ ~(result = "done" /\ w.file = "open")
  BY <1>4 DEF Written, Writers
<1> QED
  BY <1>2, <1>3, <1>4

LEMMA LateType ==
  ASSUME NEW w \in Writers, NEW data \in Seq(1 .. Chunks),
         NEW result \in LateResults
  PROVE  Written(w, data, result) \in Writers /\ Written(w, data, result).io = "none"
<1>1. result \in {"done", "pending", "error"} /\ result # "pending"
  BY DEF LateResults, WriteResults
<1> QED
  BY <1>1, WrittenType

LEMMA ContentType == Content \in Seq(1 .. Chunks) /\ << >> \in Seq(1 .. Chunks)
  BY DEF Content, Prefix

LEMMA NewWriters ==
  /\ NewWriter \in Writers /\ NewWriter.io = "none"
  /\ NewWriter.data = << >> /\ NewWriter.file = "open"
  /\ [NewWriter EXCEPT !.io = "write"].io = "write"
  BY DEF NewWriter, Writers

LEMMA DataUrlType ==
  ASSUME TypeOK, NEW n \in 0 .. MaxAttempts, NEW w \in Writers, w.io # "write",
         NEW s \in States, OnDataUrlWritten(n, w, s)
  PROVE  /\ error' \in Errors /\ state' \in States /\ received' \in 0 .. Chunks
         /\ sessionTask' \in 0 .. MaxAttempts /\ writer' \in Writers
         /\ writer'.io # "write" /\ reports' \in [Attempts -> Nat]
<1>1. received' \in 0 .. Chunks
  BY DEF OnDataUrlWritten
<1>2. CASE Finished(n, w, "OK")
  BY <1>1, <1>2, FinishedType DEF Errors
<1>3. CASE Closing(w) /\ state' = s /\ UNCHANGED error
  BY <1>1, <1>3, ClosingType DEF TypeOK
<1> QED
  BY <1>2, <1>3 DEF OnDataUrlWritten

\* The chunk at the head of what is posted is all that is.
LEMMA DataAtHead ==
  ASSUME TInv, posted # << >>, Head(posted).kind = "data"
  PROVE  waiting # 0 /\ Tail(posted) = << >> /\ 1 \in DataPosts
<1>1. posted \in Seq(Posts)
  BY DEF TInv, TypeOK
<1>2. /\ Head(posted) = posted[1] /\ Tail(posted) \in Seq(Posts)
      /\ Len(posted) \in Nat \ {0} /\ Len(Tail(posted)) = Len(posted) - 1
  BY <1>1, TailPosts
<1>3. 1 \in DataPosts
  BY <1>2 DEF DataPosts
<1>4. Len(posted) = 1 /\ waiting # 0
  BY <1>3 DEF TInv, TypeOK
<1>5. Len(Tail(posted)) = 0
  BY <1>2, <1>4
<1>6. Tail(posted) = << >>
  BY <1>2, <1>5, EmptyPosts
<1> QED
  BY <1>3, <1>4, <1>6

LEMMA ChunkType ==
  ASSUME TInv, waiting # 0
  PROVE  Chunk \in Seq(1 .. Chunks) /\ waiting \in Attempts
<1>1. waiting \in Attempts
  BY DEF TInv, TypeOK, Attempts
<1>2. network[waiting].sent \in 1 .. Chunks
  BY <1>1 DEF TInv, TypeOK, SessionTasks
<1> QED
  BY <1>1, <1>2 DEF Chunk

\* A block that is not data leaves the head of what is posted.
LEMMA TailTInv ==
  ASSUME TInv, posted # << >>, Head(posted).kind # "data",
         posted' = Tail(posted), FieldsOK', UNCHANGED scheme,
         writer'.io = "write" => writer.io = "write",
         UNCHANGED << network, cookies, waiting >>
  PROVE  TInv'
<1>1. posted \in Seq(Posts)
  BY DEF TInv, TypeOK
<1>2. /\ Head(posted) = posted[1] /\ Tail(posted) \in Seq(Posts)
      /\ Len(posted) \in Nat \ {0} /\ Len(Tail(posted)) = Len(posted) - 1
      /\ \A i \in 1 .. Len(Tail(posted)) : Tail(posted)[i] = posted[i + 1]
  BY <1>1, TailPosts
<1>3. \A i \in DataPosts' : i + 1 \in DataPosts /\ i \in Nat
  BY <1>2 DEF DataPosts
<1>4. \A i \in DataPosts' : i = Len(posted')
  BY <1>2, <1>3 DEF TInv
<1>5. \A i, j \in DataPosts' : i = j
  BY <1>4
<1>6. DataPosts' # {} => waiting' # 0
  BY <1>3 DEF TInv, TypeOK
<1>7. ~(writer'.io = "write" /\ scheme' = "http")
  BY DEF TInv
<1> QED
  BY <1>2, <1>4, <1>5, <1>6, <1>7 DEF TInv, TypeOK, FieldsOK

LEMMA NextTInv == TInv /\ [Next]_vars => TInv'
<1> SUFFICES ASSUME TInv, [Next]_vars PROVE TInv'
  OBVIOUS
<1>0. /\ TypeOK /\ FieldsOK /\ network \in [Attempts -> SessionTasks]
      /\ cookies \in Seq(Attempts) /\ posted \in Seq(Posts)
      /\ waiting \in 0 .. MaxAttempts
  BY DEF TInv, TypeOK, FieldsOK
<1>1. CASE StartHttp
  <2>1. attempt + 1 \in Attempts
    BY <1>0, <1>1, MayStartType DEF StartHttp
  <2>2. cookies' \in Seq(Attempts)
    BY <1>0, <1>1, <2>1, AppendPosts DEF StartHttp
  <2>3. FieldsOK' /\ writer'.io = "none"
    BY <1>0, <1>1, <2>1, NewWriters DEF StartHttp, FieldsOK, States, Attempts
  <2> QED
    BY <1>0, <1>1, <2>2, <2>3, TInvCore DEF StartHttp, SessionTasks
<1>2. CASE StartDataUrlParsing
  <2>1. attempt + 1 \in Attempts /\ "inProgress" \in States
    BY <1>0, <1>2, MayStartType DEF StartDataUrlParsing, States
  <2>2. /\ error' \in Errors /\ state' \in States /\ received' \in 0 .. Chunks
        /\ sessionTask' \in 0 .. MaxAttempts /\ writer' \in Writers
        /\ reports' \in [Attempts -> Nat]
    <3>1. CASE /\ OnDownloadFinished(attempt + 1, "failed")
               /\ received' = 0 /\ writer' = NewWriter
      BY <1>0, <2>1, <3>1, NewWriters
      DEF OnDownloadFinished, FieldsOK, Errors, States
    <3>0. attempt + 1 \in 0 .. MaxAttempts
      BY <2>1 DEF Attempts
    <3>2. ASSUME NEW result \in LateResults,
                 OnDataUrlWritten(attempt + 1, Written(NewWriter, Content, result),
                                  "inProgress")
          PROVE  /\ error' \in Errors /\ state' \in States
                 /\ received' \in 0 .. Chunks
                 /\ sessionTask' \in 0 .. MaxAttempts /\ writer' \in Writers
                 /\ reports' \in [Attempts -> Nat]
      <4> DEFINE w == Written(NewWriter, Content, result)
      <4>1. w \in Writers /\ w.io # "write"
        BY NewWriters, ContentType, WrittenType DEF LateResults, WriteResults
      <4> HIDE DEF w
      <4>2. OnDataUrlWritten(attempt + 1, w, "inProgress")
        BY <3>2 DEF w
      <4> QED
        BY <1>0, <2>1, <3>0, <4>1, <4>2, DataUrlType
    <3>3. CASE /\ writer' = Written(NewWriter, Content, "pending")
               /\ received' = 0 /\ state' = "inProgress"
               /\ UNCHANGED << error, sessionTask, reports >>
      BY <1>0, <2>1, <3>3, NewWriters, ContentType, WrittenType DEF FieldsOK
    <3> QED
      BY <1>2, <3>1, <3>2, <3>3 DEF StartDataUrlParsing
  <2>3. /\ attempt' = attempt + 1 /\ scheme' = scheme /\ scheme = "data"
        /\ UNCHANGED << network, cookies, waiting, posted >>
    BY <1>2, Zenon DEF StartDataUrlParsing
  <2>4. FieldsOK'
    BY <2>1, <2>2, <2>3 DEF FieldsOK, Attempts
  <2> QED
    BY <1>0, <2>3, <2>4, TInvCore DEF SessionTasks
<1>3. CASE Cancel
  <2>1. FieldsOK' /\ writer' = writer
    BY <1>0, <1>3 DEF Cancel, FieldsOK, States
  <2>2. /\ network' \in [Attempts -> SessionTasks]
        /\ \A n \in Attempts : network'[n].sent >= network[n].sent
    BY <1>0, <1>3, CancelType DEF Cancel, FieldsOK, SessionTasks
  <2> QED
    BY <1>0, <1>3, <2>1, <2>2, TInvCore DEF Cancel
<1>4. CASE Destroy
  <2>1. FieldsOK' /\ writer' \in Writers /\ writer'.io = "none"
    <3>1. writer' \in Writers /\ writer'.io = "none"
      BY <1>4, NewWriters DEF Destroy
    <3>2. /\ state' = "destroyed" /\ sessionTask' = 0
          /\ UNCHANGED << scheme, error, received, attempt, reports >>
      BY <1>4, Zenon DEF Destroy
    <3> QED
      BY <1>0, <3>1, <3>2 DEF FieldsOK, States
  <2>2. /\ network' \in [Attempts -> SessionTasks]
        /\ \A n \in Attempts : network'[n].sent >= network[n].sent
    <3>1. network' = CancelSessionTask(sessionTask)
      BY <1>4 DEF Destroy
    <3>2. sessionTask \in 0 .. MaxAttempts
      BY <1>0 DEF FieldsOK
    <3> QED
      BY <1>0, <3>1, <3>2, CancelType DEF SessionTasks
  <2> QED
    BY <1>0, <1>4, <2>1, <2>2, TInvCore DEF Destroy
<1>5. CASE StartWithCookies
  <2>1. /\ Head(cookies) \in Attempts /\ cookies' \in Seq(Attempts)
    BY <1>0, <1>5, TailPosts DEF StartWithCookies
  <2>2. FieldsOK' /\ writer' = writer
    BY <1>0, <1>5, <2>1 DEF StartWithCookies, FieldsOK, Attempts
  <2>3. /\ network' \in [Attempts -> SessionTasks]
        /\ \A n \in Attempts : network'[n].sent >= network[n].sent
    <3>1. CASE UNCHANGED network
      BY <1>0, <3>1 DEF SessionTasks
    <3>2. CASE network' = [network EXCEPT ![Head(cookies)].phase = "running"]
      BY <1>0, <2>1, <3>2 DEF SessionTasks
    <3> QED
      BY <1>5, <3>1, <3>2 DEF StartWithCookies
  <2> QED
    BY <1>0, <1>5, <2>1, <2>2, <2>3, TInvCore DEF StartWithCookies
<1>6. CASE WriteData
  <2>1. waiting # 0 /\ Tail(posted) = << >>
    BY <1>6, DataAtHead DEF WriteData
  <2>2. Chunk \in Seq(1 .. Chunks) /\ writer \in Writers /\ << >> \in Seq(Posts)
    BY <1>0, <2>1, ChunkType DEF FieldsOK
  <2>3. CASE ~Alive /\ Signal(Tail(posted)) /\ UNCHANGED writer
    <3>1. writer' \in Writers /\ (writer'.io # "write" \/ scheme # "http")
      BY <1>6, <2>2, <2>3 DEF WriteData, TInv
    <3> QED
      BY <1>6, <2>1, <2>3, <3>1, SignalLast DEF WriteData
  <2>4. CASE /\ Alive /\ writer' = Written(writer, Chunk, "pending")
             /\ posted' = Tail(posted) /\ UNCHANGED waiting
    <3>1. writer' \in Writers
      BY <2>2, <2>4, WrittenType
    <3>2. DataPosts' = {}
      BY <2>1, <2>4 DEF DataPosts
    <3> QED
      BY <1>6, <2>1, <2>2, <2>4, <3>1, <3>2 DEF TInv, TypeOK, WriteData, taskVars
  <2>5. CASE /\ Alive /\ Signal(Tail(posted))
             /\ \E result \in LateResults : writer' = Written(writer, Chunk, result)
    <3>1. writer' \in Writers /\ writer'.io # "write"
      BY <2>2, <2>5, LateType
    <3> QED
      BY <1>6, <2>1, <2>5, <3>1, SignalLast DEF WriteData
  <2> QED
    BY <1>6, <2>3, <2>4, <2>5 DEF WriteData
<1>7. CASE DataWritten
  <2>1. waiting # 0 /\ posted = << >>
    BY <1>7 DEF DataWritten, TInv
  <2>2. writer' \in Writers /\ writer'.io # "write"
    <3>1. Chunk \in Seq(1 .. Chunks) /\ writer \in Writers
      BY <1>0, <2>1, ChunkType DEF FieldsOK
    <3>2. PICK result \in LateResults : writer' = Written(writer, Chunk, result)
      BY <1>7 DEF DataWritten
    <3> QED
      BY <3>1, <3>2, LateType
  <2> QED
    BY <1>7, <2>1, <2>2, SignalLast DEF DataWritten
<1>8. CASE DataUrlWritten
  <2>1. PICK result \in LateResults :
          OnDataUrlWritten(attempt, Written(writer, Content, result), state)
    BY <1>8 DEF DataUrlWritten
  <2>2. /\ Written(writer, Content, result) \in Writers
        /\ Written(writer, Content, result).io # "write"
    BY <1>0, ContentType, WrittenType DEF LateResults, WriteResults, FieldsOK
  <2>3. /\ error' \in Errors /\ state' \in States /\ received' \in 0 .. Chunks
        /\ sessionTask' \in 0 .. MaxAttempts /\ writer' \in Writers
        /\ writer'.io # "write" /\ reports' \in [Attempts -> Nat]
    BY <1>0, <2>1, <2>2, DataUrlType DEF FieldsOK
  <2>4. FieldsOK'
    BY <1>0, <1>8, <2>3 DEF DataUrlWritten, FieldsOK
  <2> QED
    BY <1>0, <1>8, <2>3, <2>4, TInvCore DEF DataUrlWritten, SessionTasks
<1>9. CASE UpdateProperties
  <2>1. /\ Head(posted).of \in Attempts
        /\ posted # << >> /\ Head(posted).kind # "data"
    BY <1>0, <1>9, HeadOfPosts DEF UpdateProperties
  <2>2. FieldsOK'
    BY <1>0, <1>9, <2>1 DEF UpdateProperties, FieldsOK, Errors, SessionTasks
  <2> QED
    BY <1>9, <2>1, <2>2, TailTInv DEF UpdateProperties
<1>10. CASE CompleteDownload
  <2>1. /\ Head(posted).of \in Attempts /\ Head(posted).error \in Errors
        /\ posted # << >> /\ Head(posted).kind # "data"
    BY <1>0, <1>10, HeadOfPosts DEF CompleteDownload
  <2>2. network[Head(posted).of].sent \in 0 .. Chunks
    BY <1>0, <2>1 DEF SessionTasks
  <2>3. CASE UNCHANGED << state, error, received, sessionTask, writer, reports >>
    <3>1. FieldsOK'
      BY <1>0, <1>10, <2>3 DEF CompleteDownload, FieldsOK
    <3> QED
      BY <1>10, <2>1, <2>3, <3>1, TailTInv DEF CompleteDownload
  <2>4. CASE /\ received' = network[Head(posted).of].sent
             /\ EndWith(Head(posted).error)
    <3>1. /\ error' \in Errors /\ state' \in States
          /\ sessionTask' \in 0 .. MaxAttempts /\ writer' \in Writers
          /\ writer'.io = "write" => writer.io = "write"
          /\ reports' \in [Attempts -> Nat]
      <4>1. CASE Finished(attempt, writer, Head(posted).error)
        BY <1>0, <2>1, <4>1, FinishedType DEF FieldsOK
      <4>2. CASE Closing(writer) /\ error' = "OK" /\ UNCHANGED state
        BY <1>0, <4>2, ClosingType DEF FieldsOK, Errors
      <4> QED
        BY <2>4, <4>1, <4>2 DEF EndWith
    <3>2. FieldsOK'
      BY <1>0, <1>10, <2>2, <2>4, <3>1 DEF CompleteDownload, FieldsOK
    <3> QED
      BY <1>10, <2>1, <3>1, <3>2, TailTInv DEF CompleteDownload
  <2> QED
    BY <1>10, <2>3, <2>4 DEF CompleteDownload
<1>11. CASE WriterClosed
  <2>1. writer' \in Writers /\ writer'.io = "none"
    BY <1>0, <1>11, WriterUpdates DEF WriterClosed, FieldsOK
  <2>2. reports' \in [Attempts -> Nat]
    <3>1. reports \in [Attempts -> Nat] /\ attempt \in 0 .. MaxAttempts
      BY <1>0 DEF FieldsOK
    <3>2. reports' = [reports EXCEPT ![attempt] = @ + 1]
      BY <1>11 DEF WriterClosed, OnDownloadFinished
    <3> QED
      BY <3>1, <3>2, CountType
  <2>3. FieldsOK'
    <3>1. PICK code \in CloseResults : OnDownloadFinished(attempt, code)
      BY <1>11 DEF WriterClosed
    <3>2. code \in Errors
      BY DEF CloseResults, Errors
    <3> QED
      BY <1>0, <1>11, <2>1, <2>2, <3>1, <3>2
      DEF WriterClosed, OnDownloadFinished, FieldsOK, States
  <2> QED
    BY <1>0, <1>11, <2>1, <2>3, TInvCore DEF WriterClosed, SessionTasks
<1>12. ASSUME NEW n \in Attempts, DidReceiveData(n) PROVE TInv'
  <2>1. /\ Post("data", n, "OK") \in Posts /\ Post("data", n, "OK").kind = "data"
    BY PostType DEF Errors
  <2>2. /\ posted' \in Seq(Posts) /\ Len(posted') = Len(posted) + 1
        /\ Len(posted) \in Nat
        /\ \A i \in 1 .. Len(posted) : posted'[i] = posted[i]
    BY <1>0, <1>12, <2>1, AppendPosts DEF DidReceiveData
  <2>3. waiting = 0 /\ DataPosts = {}
    BY <1>12 DEF DidReceiveData, TInv, TypeOK
  <2>4. \A i \in DataPosts' : i = Len(posted')
    BY <2>2, <2>3 DEF DataPosts
  <2>5. /\ network' \in [Attempts -> SessionTasks] /\ network'[n].sent > 0
    BY <1>0, <1>12 DEF DidReceiveData, Delivers, SessionTasks
  <2>6. ~(writer'.io = "write" /\ scheme' = "http")
    BY <1>12, <2>3 DEF DidReceiveData, taskVars, TInv
  <2>7. waiting' = n /\ n # 0 /\ n \in 0 .. MaxAttempts
    BY <1>12 DEF DidReceiveData, Attempts
  <2>8. TypeOK'
    BY <1>0, <1>12, <2>2, <2>4, <2>5, <2>7
    DEF DidReceiveData, taskVars, TypeOK
  <2> QED
    BY <2>4, <2>5, <2>6, <2>7, <2>8 DEF TInv
<1>13. ASSUME NEW n \in Attempts, NEW code \in Errors, DidComplete(n, code)
       PROVE TInv'
  <2>1. /\ Post("done", n, code) \in Posts /\ Post("done", n, code).kind = "done"
    BY PostType
  <2>2. /\ posted' \in Seq(Posts) /\ Len(posted') = Len(posted) + 1
        /\ Len(posted) \in Nat /\ posted'[Len(posted) + 1].kind = "done"
        /\ \A i \in 1 .. Len(posted) : posted'[i] = posted[i]
    BY <1>0, <1>13, <2>1, AppendPosts DEF DidComplete
  <2>3. waiting = 0 /\ DataPosts = {}
    BY <1>13 DEF DidComplete, TInv, TypeOK
  <2>4. DataPosts' = {}
    BY <2>2, <2>3 DEF DataPosts
  <2>5. network' \in [Attempts -> SessionTasks]
    BY <1>0, <1>13 DEF DidComplete, SessionTasks
  <2>6. ~(writer'.io = "write" /\ scheme' = "http") /\ waiting' = 0
    BY <1>13, <2>3 DEF DidComplete, taskVars, TInv
  <2>7. TypeOK'
    BY <1>0, <1>13, <2>2, <2>4, <2>5, <2>6 DEF DidComplete, taskVars, TypeOK
  <2> QED
    BY <2>4, <2>6, <2>7 DEF TInv
<1>14. CASE UNCHANGED vars
  BY <1>14 DEF vars, TInv, TypeOK, DataPosts
<1> QED
  BY <1>1, <1>2, <1>3, <1>4, <1>5, <1>6, <1>7, <1>8, <1>9, <1>10, <1>11, <1>12,
     <1>13, <1>14 DEF Next, UIThread, Session

(***************************************************************************)
(* Every reachable state has its types, and at most one chunk waits to be  *)
(* written (didReceiveData), whatever the client and the disk do.          *)
(***************************************************************************)
THEOREM TypeCorrect == Spec => []TypeOK
<1>1. TInv => TypeOK
  BY DEF TInv
<1> QED
  BY InitTInv, NextTInv, <1>1, PTL DEF Spec
=============================================================================
