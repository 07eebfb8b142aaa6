------------------------- MODULE ReadingListProofs -------------------------
(***************************************************************************)
(* Theorems about ReadingListDownload and its URLDownloader, for any set   *)
(* of URLs and all bounds.                                                 *)
(***************************************************************************)
EXTENDS ReadingListDownload, ListLemmas

USE ElsewhereAssumption, FailsAssumption, BoundsAssumption

-----------------------------------------------------------------------------
(* Tasks and their queue.                                                  *)

LEMMA TaskShape ==
  /\ \A url \in Urls : /\ Download(url) \in Tasks /\ Delete(url) \in Tasks
                       /\ Download(url).type = "download" /\ Download(url).url = url
                       /\ Delete(url).type = "delete" /\ Delete(url).url = url
                       /\ Download(url) # Delete(url)
  /\ \A t \in Tasks : /\ t.url \in Urls
                      /\ t.type = "download" => t = Download(t.url)
                      /\ t.type # "download" => t = Delete(t.url) /\ t.type = "delete"
  BY DEF Download, Delete, Tasks

\* The order of a queue, said of tasks of one URL.
LEMMA Order ==
  ASSUME NEW q \in Seq(Tasks), InOrder(q), NEW i \in DOMAIN q, NEW j \in DOMAIN q,
         i # j, NEW url \in Urls, q[i] = Download(url)
  PROVE  q[j] # Download(url) /\ (q[j] = Delete(url) => j < i)
  BY TaskShape DEF InOrder

LEMMA HeadOfQueue ==
  ASSUME NEW q \in Seq(Tasks), q # << >>, InOrder(q)
  PROVE  /\ Head(q) \in Tasks /\ Tail(q) \in Seq(Tasks) /\ InOrder(Tail(q))
         /\ In(Head(q), q)
         /\ \A t \in Tasks : In(t, Tail(q)) => In(t, q)
         /\ \A t \in Tasks : In(t, q) => In(t, Tail(q)) \/ t = Head(q)
         /\ \A url \in Urls :
              Head(q) = Download(url) =>
                ~In(Download(url), Tail(q)) /\ ~In(Delete(url), q)
<1>1. /\ Len(q) \in Nat \ {0} /\ Tail(q) \in Seq(Tasks) /\ Len(Tail(q)) = Len(q) - 1
      /\ \A i \in 1 .. Len(Tail(q)) : Tail(q)[i] = q[i + 1] /\ i + 1 \in 1 .. Len(q)
      /\ Head(q) = q[1] /\ 1 \in 1 .. Len(q) /\ q[1] \in Tasks
      /\ DOMAIN q = 1 .. Len(q) /\ DOMAIN Tail(q) = 1 .. Len(Tail(q))
  OBVIOUS
<1>2. InOrder(Tail(q))
  <2> SUFFICES ASSUME NEW i \in DOMAIN Tail(q), NEW j \in DOMAIN Tail(q),
                      Tail(q)[i].type = "download",
                      Tail(q)[j].url = Tail(q)[i].url, i # j
               PROVE  Tail(q)[j].type = "delete" /\ j < i
    BY DEF InOrder
  <2>1. /\ i + 1 \in DOMAIN q /\ j + 1 \in DOMAIN q /\ i + 1 # j + 1
        /\ Tail(q)[i] = q[i + 1] /\ Tail(q)[j] = q[j + 1]
    BY <1>1
  <2>2. q[j + 1].type = "delete" /\ j + 1 < i + 1
    BY <2>1 DEF InOrder
  <2> QED
    BY <1>1, <2>1, <2>2
<1>3. In(Head(q), q)
  BY <1>1 DEF In
<1>4. \A t \in Tasks : In(t, Tail(q)) => In(t, q)
  BY <1>1 DEF In
<1>5. \A i \in 1 .. Len(q) : i = 1 \/ (i - 1 \in 1 .. Len(Tail(q)) /\ Tail(q)[i - 1] = q[i])
  BY <1>1
<1>6. \A t \in Tasks : In(t, q) => In(t, Tail(q)) \/ t = Head(q)
  BY <1>1, <1>5 DEF In
<1>7. ASSUME NEW url \in Urls, Head(q) = Download(url)
      PROVE  ~In(Download(url), Tail(q)) /\ ~In(Delete(url), q)
  <2>1. \A j \in DOMAIN q : j # 1 => q[j] # Download(url) /\ q[j] # Delete(url)
    <3> SUFFICES ASSUME NEW j \in DOMAIN q, j # 1
                 PROVE  q[j] # Download(url) /\ q[j] # Delete(url)
      OBVIOUS
    <3>1. q[j] # Download(url) /\ (q[j] = Delete(url) => j < 1)
      BY <1>1, <1>7, Order
    <3> QED
      BY <1>1, <3>1
  <2>2. q[1] # Delete(url)
    BY <1>1, <1>7, TaskShape
  <2> QED
    BY <1>1, <2>1, <2>2 DEF In
<1> QED
  BY <1>1, <1>2, <1>3, <1>4, <1>6, <1>7

LEMMA AppendToQueue ==
  ASSUME NEW q \in Seq(Tasks), InOrder(q), NEW t \in Tasks, ~In(Download(t.url), q)
  PROVE  /\ Append(q, t) \in Seq(Tasks) /\ InOrder(Append(q, t))
         /\ Append(q, t) # << >>
         /\ \A s \in Tasks : In(s, Append(q, t)) <=> In(s, q) \/ s = t
<1> DEFINE r == Append(q, t)
<1>1. /\ r \in Seq(Tasks) /\ Len(q) \in Nat /\ Len(r) = Len(q) + 1
      /\ DOMAIN q = 1 .. Len(q) /\ DOMAIN r = 1 .. Len(q) + 1
      /\ \A i \in 1 .. Len(q) : r[i] = q[i] /\ q[i] \in Tasks
      /\ r[Len(q) + 1] = t /\ r # << >>
  OBVIOUS
<1> HIDE DEF r
<1>2. \A s \in Tasks : In(s, r) <=> In(s, q) \/ s = t
  BY <1>1 DEF In
<1>3. \A i \in DOMAIN q : q[i].type = "download" => q[i].url # t.url
  BY <1>1, TaskShape DEF In
<1>4. InOrder(r)
  <2> SUFFICES ASSUME NEW i \in DOMAIN r, NEW j \in DOMAIN r,
                      r[i].type = "download", r[j].url = r[i].url, i # j
               PROVE  r[j].type = "delete" /\ j < i
    BY DEF InOrder
  <2>1. CASE i = Len(q) + 1
    <3>1. j \in 1 .. Len(q) /\ r[j] = q[j] /\ q[j] \in Tasks /\ r[i] = t
      BY <1>1, <2>1
    <3>2. q[j].type # "download"
      BY <1>1, <1>3, <3>1
    <3> QED
      BY <2>1, <3>1, <3>2, TaskShape
  <2>2. CASE i # Len(q) + 1
    <3>1. i \in 1 .. Len(q) /\ r[i] = q[i]
      BY <1>1, <2>2
    <3>2. j # Len(q) + 1
      BY <1>1, <1>3, <3>1
    <3>3. j \in 1 .. Len(q) /\ r[j] = q[j]
      BY <1>1, <3>2
    <3> QED
      BY <1>1, <3>1, <3>3 DEF InOrder
  <2> QED
    BY <2>1, <2>2
<1> QED
  BY <1>1, <1>2, <1>4 DEF r

LEMMA WithoutOfQueue ==
  ASSUME NEW q \in Seq(Tasks), InOrder(q), NEW url \in Urls
  PROVE  /\ Without(q, Download(url)) \in Seq(Tasks)
         /\ InOrder(Without(q, Download(url)))
         /\ \A s \in Tasks : In(s, Without(q, Download(url))) <=>
                               In(s, q) /\ s # Download(url)
<1>1. CASE ~In(Download(url), q)
  <2>1. Without(q, Download(url)) = q
    BY <1>1 DEF Without
  <2> QED
    BY <1>1, <2>1
<1>2. CASE In(Download(url), q)
  <2> DEFINE k == CHOOSE i \in DOMAIN q : q[i] = Download(url)
             r == RemoveAt(q, k)
  <2>1. Without(q, Download(url)) = r
    BY <1>2 DEF Without
  <2>2. k \in DOMAIN q /\ q[k] = Download(url)
    BY <1>2 DEF In
  <2> HIDE DEF k
  <2>3. DOMAIN q = 1 .. Len(q) /\ Len(q) \in Nat /\ k \in 1 .. Len(q)
    BY <2>2
  <2>4. /\ r \in Seq(Tasks) /\ Len(r) = Len(q) - 1
        /\ \A j \in 1 .. Len(q) - 1 : r[j] = IF j < k THEN q[j] ELSE q[j + 1]
    BY <2>3, RemoveAtProperties
  <2>5. DOMAIN r = 1 .. Len(q) - 1
    BY <2>4
  <2> HIDE DEF r
  <2> DEFINE old(j) == IF j < k THEN j ELSE j + 1
  <2>6. \A j \in DOMAIN r : old(j) \in DOMAIN q /\ old(j) # k /\ r[j] = q[old(j)]
    BY <2>3, <2>4, <2>5
  <2>7. \A i, j \in DOMAIN r : (i # j => old(i) # old(j)) /\ (old(j) < old(i) => j < i)
    BY <2>3, <2>5
  <2>8. \A i \in DOMAIN q : i # k => \E j \in DOMAIN r : r[j] = q[i]
    <3> SUFFICES ASSUME NEW i \in DOMAIN q, i # k
                 PROVE  \E j \in DOMAIN r : r[j] = q[i]
      OBVIOUS
    <3>1. CASE i < k
      BY <2>3, <2>4, <2>5, <3>1
    <3>2. CASE i > k
      <4>1. i - 1 \in DOMAIN r /\ ~(i - 1 < k) /\ i - 1 + 1 = i
        BY <2>3, <2>5, <3>2
      <4> QED
        BY <2>4, <2>5, <4>1
    <3> QED
      BY <2>3, <3>1, <3>2
  <2>9. InOrder(r)
    <3> HIDE DEF old
    <3> SUFFICES ASSUME NEW i \in DOMAIN r, NEW j \in DOMAIN r,
                        r[i].type = "download", r[j].url = r[i].url, i # j
                 PROVE  r[j].type = "delete" /\ j < i
      BY DEF InOrder
    <3>1. q[old(j)].type = "delete" /\ old(j) < old(i)
      BY <2>6, <2>7 DEF InOrder
    <3> QED
      BY <2>6, <2>7, <3>1
  <2>10. \A s \in Tasks : In(s, r) <=> In(s, q) /\ s # Download(url)
    <3> HIDE DEF old
    <3>1. \A j \in DOMAIN q : j # k => q[j] # Download(url)
      BY <2>2, Order
    <3>2. \A s \in Tasks : In(s, r) => In(s, q) /\ s # Download(url)
      BY <2>6, <3>1 DEF In
    <3>3. \A s \in Tasks : In(s, q) /\ s # Download(url) => In(s, r)
      BY <2>2, <2>8 DEF In
    <3> QED
      BY <3>2, <3>3
  <2> QED
    BY <2>1, <2>4, <2>9, <2>10
<1> QED
  BY <1>1, <1>2

-----------------------------------------------------------------------------
(* The downloader.                                                         *)

DInv == DownloaderTypeOK /\ InTurn

LEMMA NextTask ==
  ASSUME NEW q \in Seq(Tasks), InOrder(q), HandleNextTask(q)
  PROVE  /\ tasks' \in Seq(Tasks) /\ InOrder(tasks') /\ work' \in Works
         /\ work'.step \in {"idle", "delete", "check"}
         /\ work'.step = "idle" => tasks' = << >>
         /\ work'.step # "idle" => work'.url \in Urls
         /\ \A url \in Urls :
              /\ In(Delete(url), tasks') \/ (work'.step = "delete" /\ work'.url = url)
                   <=> In(Delete(url), q)
              /\ work'.step = "check" /\ work'.url = url =>
                   In(Download(url), q) /\ ~In(Delete(url), q)
              /\ In(Download(url), tasks') <=>
                   In(Download(url), q) /\ ~(work'.step = "check" /\ work'.url = url)
<1>1. CASE q = << >>
  <2>1. tasks' = << >> /\ work' = Idle
    BY <1>1 DEF HandleNextTask
  <2>2. Idle \in Works /\ Idle.step = "idle"
    BY DEF Idle, Works, Steps, Addresses
  <2>3. \A t \in Tasks : ~In(t, << >>)
    BY DEF In
  <2>4. In(<< >>, << >>) => TRUE
    OBVIOUS
  <2>5. \A url \in Urls : ~In(Delete(url), q) /\ ~In(Download(url), q)
    BY <1>1, <2>3, TaskShape
  <2> QED
    BY <1>1, <2>1, <2>2, <2>5
<1>2. CASE q # << >> /\ Head(q).type = "delete"
  <2>1. tasks' = Tail(q) /\ work' = [step |-> "delete", url |-> Head(q).url, ok |-> FALSE]
    BY <1>2 DEF HandleNextTask, Step
  <2>2. /\ Head(q) \in Tasks /\ Head(q) = Delete(Head(q).url) /\ Head(q).url \in Urls
    BY <1>2, HeadOfQueue, TaskShape
  <2>3. work' \in Works
    BY <2>1, <2>2 DEF Works, Steps, Addresses
  <2>4. \A url \in Urls : /\ Delete(url) = Head(q) <=> url = Head(q).url
                          /\ Download(url) # Head(q)
    BY <1>2, <2>2, TaskShape
  <2> QED
    BY <1>2, <2>1, <2>2, <2>3, <2>4, HeadOfQueue, TaskShape
<1>3. CASE q # << >> /\ Head(q).type # "delete"
  <2>1. tasks' = Tail(q) /\ work' = [step |-> "check", url |-> Head(q).url, ok |-> FALSE]
    BY <1>3 DEF HandleNextTask, Step
  <2>2. /\ Head(q) \in Tasks /\ Head(q) = Download(Head(q).url) /\ Head(q).url \in Urls
    BY <1>3, HeadOfQueue, TaskShape
  <2>3. work' \in Works
    BY <2>1, <2>2 DEF Works, Steps, Addresses
  <2>4. \A url \in Urls : /\ Download(url) = Head(q) <=> url = Head(q).url
                          /\ Delete(url) # Head(q)
    BY <1>3, <2>2, TaskShape
  <2> QED
    BY <1>3, <2>1, <2>2, <2>3, <2>4, HeadOfQueue, TaskShape
<1> QED
  BY <1>1, <1>2, <1>3

\* A new task begins: what is under way is what the queue had first.
LEMMA Begins ==
  ASSUME DInv, NEW q \in Seq(Tasks), InOrder(q), HandleNextTask(q),
         UNCHANGED << pageVars, disk >>
  PROVE  /\ DInv'
         /\ \A url \in Urls :
              /\ Doomed(url)' <=> In(Delete(url), q)
              /\ Started(url)' => In(Download(url), q) /\ ~In(Delete(url), q)
              /\ Queued(Download(url))' <=> In(Download(url), q) /\ ~Started(url)'
<1>1. /\ tasks' \in Seq(Tasks) /\ InOrder(tasks') /\ work' \in Works
      /\ work'.step \in {"idle", "delete", "check"}
      /\ work'.step = "idle" => tasks' = << >>
      /\ work'.step # "idle" => work'.url \in Urls
  BY NextTask
<1>2. DInv'
  BY <1>1 DEF DInv, DownloaderTypeOK, InTurn, pageVars, Deleting
<1>3. \A url \in Urls :
        /\ Doomed(url)' <=> In(Delete(url), tasks')
                             \/ (work'.step = "delete" /\ work'.url = url)
        /\ Started(url)' <=> work'.step = "check" /\ work'.url = url
        /\ Queued(Download(url))' <=> In(Download(url), tasks')
  BY <1>1 DEF Doomed, Started, Deleting, Queued
<1> QED
  BY <1>2, <1>3, NextTask

LEMMA HandleEffect ==
  ASSUME DInv, NEW q \in Seq(Tasks), InOrder(q), Handle(q),
         UNCHANGED << pageVars, disk >>
  PROVE  /\ DInv'
         /\ \A url \in Urls :
              /\ Doomed(url)' <=> \/ In(Delete(url), q)
                                  \/ (work.step \in Deleting /\ work.url = url)
              /\ work.step # "idle" =>
                   /\ Queued(Download(url))' <=> In(Download(url), q)
                   /\ Started(url)' <=> Started(url)
              /\ work.step = "idle" =>
                   /\ Started(url)' => In(Download(url), q) /\ ~In(Delete(url), q)
                   /\ Queued(Download(url))' <=> In(Download(url), q) /\ ~Started(url)'
<1>1. CASE work.step = "idle"
  <2>1. HandleNextTask(q)
    BY <1>1 DEF Handle
  <2>2. work.step \notin Deleting
    BY <1>1 DEF Deleting
  <2> QED
    BY <1>1, <2>1, <2>2, Begins
<1>2. CASE work.step # "idle"
  <2>1. tasks' = q /\ work' = work
    BY <1>2 DEF Handle
  <2>2. DInv'
    BY <1>2, <2>1 DEF DInv, DownloaderTypeOK, InTurn, pageVars
  <2>3. \A url \in Urls :
          /\ Doomed(url)' <=> \/ In(Delete(url), q)
                              \/ (work.step \in Deleting /\ work.url = url)
          /\ Queued(Download(url))' <=> In(Download(url), q)
          /\ Started(url)' <=> Started(url)
    BY <2>1 DEF Doomed, Started, Queued, pageVars
  <2> QED
    BY <1>2, <2>2, <2>3
<1> QED
  BY <1>1, <1>2

-----------------------------------------------------------------------------
(* Its operations.                                                         *)

LEMMA RemoveEffect ==
  ASSUME DInv, NEW url \in Urls, RemoveOfflineURL(url)
  PROVE  /\ DInv' /\ disk' = disk
         /\ \A u \in Urls :
              /\ Queued(Download(u))' <=> Queued(Download(u)) /\ u # url
              /\ Started(u)' <=> Started(u)
              /\ Doomed(u)' <=> Doomed(u) \/ u = url
<1> DEFINE r == Without(tasks, Download(url))
           q == Append(r, Delete(url))
<1>1. tasks \in Seq(Tasks) /\ InOrder(tasks)
  BY DEF DInv, DownloaderTypeOK, InTurn
<1>2. /\ r \in Seq(Tasks) /\ InOrder(r)
      /\ \A s \in Tasks : In(s, r) <=> In(s, tasks) /\ s # Download(url)
  BY <1>1, WithoutOfQueue
<1>3. Handle(q) /\ UNCHANGED << pageVars, disk >>
  BY DEF RemoveOfflineURL
<1> HIDE DEF r
<1>4. Delete(url) \in Tasks /\ Delete(url).url = url /\ ~In(Download(url), r)
  BY <1>2, TaskShape
<1>5. /\ q \in Seq(Tasks) /\ InOrder(q)
      /\ \A s \in Tasks : In(s, q) <=> In(s, r) \/ s = Delete(url)
  BY <1>2, <1>4, AppendToQueue
<1> HIDE DEF q
<1>6. \A u \in Urls :
        /\ In(Download(u), q) <=> Queued(Download(u)) /\ u # url
        /\ In(Delete(u), q) <=> Queued(Delete(u)) \/ u = url
  BY <1>2, <1>5, TaskShape DEF Queued
<1>7. work.step = "idle" => \A s \in Tasks : ~In(s, tasks)
  BY DEF DInv, InTurn, In
<1>8. work.step = "idle" => \A u \in Urls : ~In(Download(u), q) /\ ~Started(u)
  BY <1>6, <1>7, TaskShape DEF Queued, Started, Deleting
<1> QED
  BY <1>3, <1>5, <1>6, <1>8, HandleEffect DEF Doomed, pageVars

LEMMA DownloadEffect ==
  ASSUME DInv, NEW url \in Urls, DownloadOfflineURL(url)
  PROVE  /\ DInv' /\ disk' = disk
         /\ \A u \in Urls : Doomed(u)' <=> Doomed(u)
         /\ \/ \A u \in Urls : /\ Queued(Download(u))' <=> Queued(Download(u)) \/ u = url
                               /\ Started(u)' <=> Started(u)
            \/ /\ ~Doomed(url)
               /\ \A u \in Urls : /\ Queued(Download(u))' <=> Queued(Download(u))
                                  /\ Started(u)' <=> Started(u) \/ u = url
<1>1. tasks \in Seq(Tasks) /\ InOrder(tasks)
  BY DEF DInv, DownloaderTypeOK, InTurn
<1>2. CASE Queued(Download(url))
  <2>1. UNCHANGED << tasks, work, pageVars, disk >>
    BY <1>2 DEF DownloadOfflineURL
  <2>2. DInv'
    BY <2>1 DEF DInv, DownloaderTypeOK, InTurn, pageVars
  <2> QED
    BY <1>2, <2>1, <2>2 DEF Queued, Started, Doomed, pageVars
<1>3. CASE ~Queued(Download(url))
  <2> DEFINE q == Append(tasks, Download(url))
  <2>1. Handle(q) /\ UNCHANGED << pageVars, disk >>
    BY <1>3 DEF DownloadOfflineURL
  <2>2. Download(url) \in Tasks /\ Download(url).url = url /\ ~In(Download(url), tasks)
    BY <1>3, TaskShape DEF Queued
  <2>3. /\ q \in Seq(Tasks) /\ InOrder(q)
        /\ \A s \in Tasks : In(s, q) <=> In(s, tasks) \/ s = Download(url)
    BY <1>1, <2>2, AppendToQueue
  <2>4. work.step = "idle" => \A s \in Tasks : ~In(s, tasks)
    BY DEF DInv, InTurn, In
  <2>5. work.step = "idle" => tasks' = << >>
    <3> SUFFICES ASSUME work.step = "idle" PROVE tasks' = << >>
      OBVIOUS
    <3>1. tasks = << >> /\ HandleNextTask(q)
      BY <2>1 DEF DInv, InTurn, Handle
    <3>2. q # << >> /\ Tail(q) = << >>
      BY <3>1
    <3> QED
      BY <3>1, <3>2 DEF HandleNextTask
  <2> HIDE DEF q
  <2>6. \A u \in Urls :
          /\ In(Download(u), q) <=> Queued(Download(u)) \/ u = url
          /\ In(Delete(u), q) <=> Queued(Delete(u))
    BY <2>3, TaskShape DEF Queued
  <2>7. /\ DInv'
        /\ \A u \in Urls : Doomed(u)' <=> Doomed(u)
    BY <2>1, <2>3, <2>6, HandleEffect DEF Doomed
  <2>8. CASE work.step = "idle"
    <3>1. \A u \in Urls : ~Queued(Download(u)) /\ ~Queued(Delete(u)) /\ ~Started(u)
      BY <2>4, <2>8, TaskShape DEF Queued, Started, Deleting
    <3>2. \A u \in Urls : ~Queued(Download(u))'
      BY <2>5, <2>8 DEF Queued, In
    <3>3. ~Doomed(url)
      BY <2>8, <3>1 DEF Doomed, Deleting
    <3>4. \A u \in Urls : Started(u)' <=> u = url
      BY <2>1, <2>3, <2>6, <2>8, <3>1, <3>2, HandleEffect
    <3> QED
      BY <2>1, <2>7, <3>1, <3>2, <3>3, <3>4 DEF pageVars
  <2>9. CASE work.step # "idle"
    BY <2>1, <2>3, <2>6, <2>7, <2>9, HandleEffect DEF pageVars
  <2> QED
    BY <2>8, <2>9
<1> QED
  BY <1>2, <1>3

LEMMA CancelEffect ==
  ASSUME DInv, NEW url \in Urls, CancelDownloadOfflineURL(url)
  PROVE  /\ DInv' /\ disk' = disk
         /\ \A u \in Urls :
              /\ Queued(Download(u))' <=> Queued(Download(u)) /\ u # url
              /\ Started(u)' <=> Started(u)
              /\ Doomed(u)' <=> Doomed(u)
<1>1. tasks \in Seq(Tasks) /\ InOrder(tasks)
  BY DEF DInv, DownloaderTypeOK, InTurn
<1>2. /\ tasks' \in Seq(Tasks) /\ InOrder(tasks')
      /\ \A s \in Tasks : In(s, tasks') <=> In(s, tasks) /\ s # Download(url)
      /\ UNCHANGED << work, pageVars, disk >>
  BY <1>1, WithoutOfQueue DEF CancelDownloadOfflineURL
<1>3. work.step = "idle" => tasks' = << >>
  <2>1. work.step = "idle" => tasks = << >>
    BY DEF DInv, InTurn
  <2>2. tasks = << >> => ~In(Download(url), tasks)
    BY DEF In
  <2>3. ~In(Download(url), tasks) => tasks' = tasks
    BY DEF CancelDownloadOfflineURL, Without
  <2> QED
    BY <2>1, <2>2, <2>3
<1>4. DInv'
  BY <1>2, <1>3 DEF DInv, DownloaderTypeOK, InTurn, pageVars
<1>5. \A u \in Urls :
        /\ Queued(Download(u))' <=> Queued(Download(u)) /\ u # url
        /\ Queued(Delete(u))' <=> Queued(Delete(u))
  BY <1>2, TaskShape DEF Queued
<1> QED
  BY <1>2, <1>4, <1>5 DEF Started, Doomed, pageVars

-----------------------------------------------------------------------------
(* Its steps.                                                              *)

\* What a step within a task changes on disk is about that task.
DiskStep ==
  \/ disk' = disk
  \/ \E a \in Addresses, x \in Directories :
       /\ disk' = [disk EXCEPT ![a] = x]
       /\ a \in Urls => Started(a) \/ (Doomed(a) /\ x = "none")

Inner ==
  /\ DInv' /\ DiskStep /\ tasks' = tasks
  /\ \A u \in Urls : /\ Queued(Download(u))' <=> Queued(Download(u))
                     /\ Started(u)' <=> Started(u)
                     /\ Doomed(u)' <=> Doomed(u)

\* The steps of a download once the check is over.
Busy == Steps \ {"idle", "delete", "deleted", "check", "checked"}

LEMMA BusyInner ==
  ASSUME DInv, work.step \in Busy, work'.step \in Busy, work' \in Works,
         work'.url \in {work.url, original, Elsewhere}, tasks' = tasks,
         original' = original, distilled' \in {distilled, Elsewhere},
         mime' \in {"", "html", "pdf"}, disk' \in [Addresses -> Directories],
         DiskStep
  PROVE  Inner
<1>1. /\ original \in Urls /\ work.url \in {original, Elsewhere}
      /\ distilled \in {original, Elsewhere}
      /\ work.step \notin Deleting \union {"idle", "check", "checked"}
      /\ work'.step \notin Deleting \union {"idle", "check", "checked"}
  BY DEF DInv, InTurn, Busy, Deleting
<1>2. work'.step # "idle" /\ work'.step # "deleted"
  BY DEF Busy
<1>3. DInv'
  BY <1>1, <1>2 DEF DInv, DownloaderTypeOK, InTurn, Addresses
<1>4. \A u \in Urls : /\ Started(u)' <=> Started(u)
                      /\ Doomed(u)' <=> Doomed(u)
                      /\ Queued(Download(u))' <=> Queued(Download(u))
  <2>1. work.step \notin {"check", "checked"} /\ work'.step \notin {"check", "checked"}
        /\ work.step \notin Deleting /\ work'.step \notin Deleting
    BY <1>1
  <2> QED
    BY <1>1, <2>1 DEF Started, Doomed, Queued, In, Delete, Download
<1> QED
  BY <1>3, <1>4 DEF Inner

LEMMA StepWorks ==
  ASSUME NEW step \in Steps, NEW url \in Addresses, NEW ok \in BOOLEAN
  PROVE  /\ Step(step, url, ok) \in Works /\ Step(step, url, ok).step = step
         /\ Step(step, url, ok).url = url /\ Step(step, url, ok).ok = ok
  BY DEF Step, Works

LEMMA WorkType ==
  ASSUME DInv
  PROVE  /\ work \in Works /\ work.step \in Steps /\ work.url \in Addresses
         /\ work.ok \in BOOLEAN
         /\ disk \in [Addresses -> Directories]
         /\ work.step \in Busy => /\ original \in Urls /\ Started(original)
                                 /\ work.url \in {original, Elsewhere}
                                 /\ distilled \in {original, Elsewhere}
         /\ \A s \in Steps : /\ [work EXCEPT !.step = s] \in Works
                            /\ [work EXCEPT !.step = s].step = s
                            /\ [work EXCEPT !.step = s].url = work.url
<1>1. work \in Works /\ disk \in [Addresses -> Directories]
  BY DEF DInv, DownloaderTypeOK
<1>2. work.step \in Busy => /\ original \in Urls /\ Started(original)
                            /\ work.url \in {original, Elsewhere}
                            /\ distilled \in {original, Elsewhere}
  BY DEF DInv, InTurn, Busy, Deleting, Started
<1> QED
  BY <1>1, <1>2 DEF Works

LEMMA DeleteDirectoryInner ==
  ASSUME DInv, DeleteDirectory
  PROVE  Inner
<1>1. /\ work.step = "delete" /\ work' = [work EXCEPT !.step = "deleted"]
      /\ disk' = [disk EXCEPT ![work.url] = "none"]
      /\ UNCHANGED << tasks, pageVars >>
  BY DEF DeleteDirectory, BackgroundStep
<1>2. work.url \in Urls /\ Doomed(work.url)
  BY <1>1 DEF DInv, InTurn, Doomed, Deleting
<1>3. work' \in Works /\ work'.step = "deleted" /\ work'.url = work.url
  BY <1>1, WorkType DEF Steps
<1>4. /\ disk' \in [Addresses -> Directories] /\ disk'[work'.url] = "none"
      /\ work.url \in Addresses /\ "none" \in Directories
  BY <1>1, <1>3, WorkType DEF Directories
<1>5. DInv'
  BY <1>1, <1>2, <1>3, <1>4 DEF DInv, DownloaderTypeOK, InTurn, pageVars, Deleting
<1>6. DiskStep
  BY <1>1, <1>2, <1>4 DEF DiskStep
<1>7. \A u \in Urls : /\ Started(u)' <=> Started(u)
                      /\ Doomed(u)' <=> Doomed(u)
                      /\ Queued(Download(u))' <=> Queued(Download(u))
  BY <1>1, <1>3 DEF Started, Doomed, Queued, In, Deleting, Delete, Download, pageVars
<1> QED
  BY <1>1, <1>5, <1>6, <1>7 DEF Inner

LEMMA OfflinePathExistsInner ==
  ASSUME DInv, OfflinePathExists
  PROVE  Inner
<1>1. /\ work.step = "check" /\ disk' = disk
      /\ work' = Step("checked", work.url, disk[work.url] # "none")
      /\ UNCHANGED << tasks, pageVars >>
  BY DEF OfflinePathExists, BackgroundStep
<1>2. work.url \in Urls
  BY <1>1 DEF DInv, InTurn
<1>3. work' \in Works /\ work'.step = "checked" /\ work'.url = work.url
  <2> DEFINE exists == disk[work.url] # "none"
  <2>1. exists \in BOOLEAN /\ "checked" \in Steps /\ work.url \in Addresses
    BY WorkType DEF Steps
  <2>2. work' = Step("checked", work.url, exists)
    BY <1>1
  <2> HIDE DEF exists
  <2> QED
    BY <2>1, <2>2, StepWorks
<1>4. DInv'
  BY <1>1, <1>2, <1>3 DEF DInv, DownloaderTypeOK, InTurn, pageVars, Deleting
<1>5. \A u \in Urls : /\ Started(u)' <=> Started(u)
                      /\ Doomed(u)' <=> Doomed(u)
                      /\ Queued(Download(u))' <=> Queued(Download(u))
  BY <1>1, <1>3 DEF Started, Doomed, Queued, In, Deleting, Delete, Download, pageVars
<1> QED
  BY <1>1, <1>4, <1>5 DEF Inner, DiskStep

LEMMA CreateOfflineURLDirectoryInner ==
  ASSUME DInv, CreateOfflineURLDirectory
  PROVE  Inner
<1>1. work.step = "create" /\ work.step \in Busy
  BY DEF CreateOfflineURLDirectory, BackgroundStep, Busy, Steps
<1>2. UNCHANGED << tasks, original, distilled, mime >>
  BY DEF CreateOfflineURLDirectory, BackgroundStep, pageVars
<1>3. /\ original \in Addresses /\ Started(original)
      /\ distilled \in Addresses /\ mime \in {"", "html", "pdf"}
  BY <1>1, WorkType DEF DInv, DownloaderTypeOK
<1>4. CASE /\ work' = [work EXCEPT !.step = "write"]
           /\ disk' = [disk EXCEPT ![original] = IF @ = "page" THEN @ ELSE "partial"]
  <2>1. work' \in Works /\ work'.step = "write" /\ work'.url = work.url
    BY <1>4, WorkType DEF Steps
  <2> DEFINE x == IF disk[original] = "page" THEN disk[original] ELSE "partial"
  <2>2. x \in Directories /\ disk' = [disk EXCEPT ![original] = x]
    BY <1>4 DEF Directories
  <2> HIDE DEF x
  <2>3. DiskStep /\ disk' \in [Addresses -> Directories]
    BY <1>3, <2>2, WorkType DEF DiskStep
  <2>4. work'.step \in Busy
    BY <2>1 DEF Busy, Steps
  <2> QED
    BY <1>1, <1>2, <1>3, <2>1, <2>3, <2>4, BusyInner
<1>5. CASE work' = Step("saved", work.url, FALSE) /\ disk' = disk
  <2>1. work' \in Works /\ work'.step = "saved" /\ work'.url = work.url
    <3>1. "saved" \in Steps /\ work.url \in Addresses
      BY WorkType DEF Steps
    <3> QED
      BY <1>5, <3>1, StepWorks
  <2>2. DiskStep /\ disk' \in [Addresses -> Directories]
    BY <1>5, WorkType DEF DiskStep
  <2>3. work'.step \in Busy
    BY <2>1 DEF Busy, Steps
  <2> QED
    BY <1>1, <1>2, <1>3, <2>1, <2>2, <2>3, BusyInner
<1> QED
  BY <1>4, <1>5 DEF CreateOfflineURLDirectory, BackgroundStep

LEMMA SavePageInner ==
  ASSUME DInv, SavePage
  PROVE  Inner
<1>1. work.step = "write" /\ work.step \in Busy
  BY DEF SavePage, BackgroundStep, Busy, Steps
<1>2. UNCHANGED << tasks, original, distilled, mime >>
  BY DEF SavePage, BackgroundStep, pageVars
<1>3. /\ original \in Addresses /\ Started(original)
      /\ distilled \in Addresses /\ mime \in {"", "html", "pdf"}
  BY <1>1, WorkType DEF DInv, DownloaderTypeOK
<1>4. PICK ok \in BOOLEAN :
        /\ work' = Step("saved", work.url, ok)
        /\ disk' = disk \/ disk' = [disk EXCEPT ![original] = "page"]
  BY DEF SavePage, BackgroundStep
<1>5. work' \in Works /\ work'.step = "saved" /\ work'.url = work.url
  BY <1>4, WorkType, StepWorks DEF Steps
<1>6. DiskStep /\ disk' \in [Addresses -> Directories]
  BY <1>3, <1>4, WorkType DEF DiskStep, Directories
<1> QED
  BY <1>1, <1>2, <1>3, <1>5, <1>6, BusyInner DEF Busy, Steps

LEMMA CleanUpDownloadInner ==
  ASSUME DInv, CleanUpDownload
  PROVE  Inner
<1>1. /\ work.step = "clean" /\ work.step \in Busy
      /\ work' = [work EXCEPT !.step = "cleaned"]
      /\ disk' = [disk EXCEPT ![work.url] = "none"]
      /\ UNCHANGED << tasks, original, distilled, mime >>
  BY DEF CleanUpDownload, BackgroundStep, Busy, Steps, pageVars
<1>2. /\ original \in Addresses /\ Started(original)
      /\ distilled \in Addresses /\ mime \in {"", "html", "pdf"}
      /\ work.url \in {original, Elsewhere} /\ work.url \in Addresses
  BY <1>1, WorkType DEF DInv, DownloaderTypeOK
<1>3. work' \in Works /\ work'.step = "cleaned" /\ work'.url = work.url
  BY <1>1, WorkType DEF Steps
<1>4. work.url \in Urls => Started(work.url)
  BY <1>2
<1>5. DiskStep /\ disk' \in [Addresses -> Directories]
  BY <1>1, <1>2, <1>4, WorkType DEF DiskStep, Directories
<1> QED
  BY <1>1, <1>2, <1>3, <1>5, BusyInner DEF Busy, Steps

LEMMA BackgroundInner ==
  ASSUME DInv, Background
  PROVE  Inner
  BY DeleteDirectoryInner, OfflinePathExistsInner, CreateOfflineURLDirectoryInner,
     SavePageInner, CleanUpDownloadInner DEF Background

LEMMA DistillerInner ==
  ASSUME DInv, Distiller
  PROVE  Inner
<1>1. /\ work.step = "distill" /\ work.step \in Busy
      /\ UNCHANGED << tasks, work, original, disk >>
      /\ mime' \in {mime, "html", "pdf"} /\ distilled' \in {distilled, Elsewhere}
  BY DEF Distiller, DistilledPageHasMimeType, DistilledPageRedirectedToURL, Busy, Steps
<1>2. mime' \in {"", "html", "pdf"}
  BY <1>1 DEF DInv, DownloaderTypeOK
<1> QED
  BY <1>1, <1>2, BusyInner, WorkType DEF DiskStep

LEMMA DownloadURLInner ==
  ASSUME DInv, DownloadURL
  PROVE  Inner
<1>1. /\ work.step = "checked" /\ original' = work.url /\ distilled' = work.url
      /\ work' = Step("distill", work.url, FALSE)
      /\ UNCHANGED << tasks, mime, disk >>
  BY DEF DownloadURL
<1>2. work.url \in Urls
  BY <1>1 DEF DInv, InTurn
<1>3. work' \in Works /\ work'.step = "distill" /\ work'.url = work.url
  <2>1. "distill" \in Steps /\ work.url \in Addresses
    BY WorkType DEF Steps
  <2> QED
    BY <1>1, <2>1, StepWorks
<1>4. DInv'
  <2>1. DownloaderTypeOK'
    <3>1. work.url \in Addresses
      BY <1>2 DEF Addresses
    <3> QED
      BY <1>1, <1>3, <3>1 DEF DInv, DownloaderTypeOK
  <2>2. InTurn'
    <3>1. work'.step = "distill" /\ work'.url = original' /\ distilled' = original'
          /\ original' \in Urls /\ tasks' = tasks
      BY <1>1, <1>2, <1>3
    <3>2. InOrder(tasks')
      BY <3>1 DEF DInv, InTurn
    <3> QED
      BY <3>1, <3>2 DEF InTurn, Deleting
  <2> QED
    BY <2>1, <2>2 DEF DInv
<1>5. \A u \in Urls : /\ Started(u)' <=> Started(u)
                      /\ Doomed(u)' <=> Doomed(u)
                      /\ Queued(Download(u))' <=> Queued(Download(u))
  BY <1>1, <1>3 DEF Started, Doomed, Queued, In, Deleting, Delete, Download
<1> QED
  BY <1>1, <1>4, <1>5 DEF Inner, DiskStep

\* Replies that move a download on without touching a file.
LEMMA ReplyInner ==
  ASSUME DInv, work.step \in Busy, NEW step \in Busy,
         NEW url \in {work.url, original, distilled},
         work' = Step(step, url, FALSE),
         UNCHANGED << tasks, pageVars, disk >>
  PROVE  Inner
<1>1. url \in Addresses /\ step \in Steps
  BY WorkType DEF DInv, DownloaderTypeOK, Busy
<1>2. work' \in Works /\ work'.step = step /\ work'.url = url
  BY <1>1, StepWorks
<1>3. /\ distilled' \in {distilled, Elsewhere} /\ mime' \in {"", "html", "pdf"}
      /\ url \in {work.url, original, Elsewhere} /\ disk' \in [Addresses -> Directories]
  BY WorkType DEF DInv, DownloaderTypeOK, pageVars
<1>4. tasks' = tasks /\ original' = original /\ DiskStep
  BY DEF pageVars, DiskStep
<1> QED
  BY <1>2, <1>3, <1>4, BusyInner

LEMMA RepliesInner ==
  ASSUME DInv, \/ DownloadURL \/ DownloadCompletionHandler
               \/ \E b \in BOOLEAN : DistillerCallback(b) \/ OnURLLoadComplete(b)
  PROVE  Inner
<1>1. CASE DownloadURL
  BY <1>1, DownloadURLInner
<1>2. CASE DownloadCompletionHandler
  <2>1. work.step = "saved" /\ UNCHANGED << tasks, pageVars, disk >>
    BY <1>2 DEF DownloadCompletionHandler
  <2>2. work' = Step("clean", work.url, FALSE)
    BY <1>2 DEF DownloadCompletionHandler, DownloadFails
  <2>3. {"saved", "clean"} \subseteq Busy
    BY DEF Busy, Steps
  <2> QED
    BY <2>1, <2>2, <2>3, ReplyInner
<1>3. CASE \E b \in BOOLEAN : DistillerCallback(b) \/ OnURLLoadComplete(b)
  <2>1. /\ work.step \in {"distill", "fetch"}
        /\ UNCHANGED << tasks, pageVars, disk >>
    BY <1>3 DEF DistillerCallback, OnURLLoadComplete
  <2>2. PICK step \in {"create", "fetch", "clean"},
             url \in {work.url, original, distilled} :
          work' = Step(step, url, FALSE)
    BY <1>3 DEF DistillerCallback, OnURLLoadComplete, DownloadFails
  <2>3. {"distill", "create", "fetch", "clean"} \subseteq Busy
    BY DEF Busy, Steps
  <2> QED
    BY <2>1, <2>2, <2>3, ReplyInner
<1> QED
  BY <1>1, <1>2, <1>3

\* A task is over, and the next one begins.
Turn ==
  /\ DInv' /\ disk' = disk
  /\ \A u \in Urls :
       /\ Doomed(u)' <=> Queued(Delete(u))
       /\ Started(u)' => Queued(Download(u)) /\ ~Queued(Delete(u))
       /\ Queued(Download(u))' <=> Queued(Download(u)) /\ ~Started(u)'
       /\ Doomed(u) /\ ~Doomed(u)' => disk[u] = "none" /\ ~Started(u)

LEMMA DeleteTurn ==
  ASSUME DInv, DeleteCompletionHandler
  PROVE  Turn
<1>1. /\ tasks \in Seq(Tasks) /\ InOrder(tasks) /\ HandleNextTask(tasks)
      /\ UNCHANGED << pageVars, disk >>
      /\ work.step = "deleted" /\ disk[work.url] = "none"
  BY DEF DInv, DownloaderTypeOK, InTurn, DeleteCompletionHandler
<1>2. \A u \in Urls : /\ Doomed(u) <=> Queued(Delete(u)) \/ work.url = u
                      /\ ~Started(u)
  BY <1>1 DEF Doomed, Started, Deleting
<1>3. \A u \in Urls : Doomed(u)' <=> Queued(Delete(u))
  BY <1>1, Begins DEF Queued
<1> QED
  BY <1>1, <1>2, <1>3, Begins DEF Turn, Queued

LEMMA DownloadTurn ==
  ASSUME DInv, NEW outcome, DownloadEnds(outcome)
  PROVE  Turn
<1>1. /\ tasks \in Seq(Tasks) /\ InOrder(tasks) /\ HandleNextTask(tasks)
      /\ UNCHANGED << pageVars, disk >>
      /\ work.step \in {"checked", "saved", "cleaned"}
  BY DEF DInv, DownloaderTypeOK, InTurn, DownloadEnds
<1>2. \A u \in Urls : Doomed(u) <=> Queued(Delete(u))
  BY <1>1 DEF Doomed, Deleting
<1>3. \A u \in Urls : Doomed(u)' <=> Queued(Delete(u))
  BY <1>1, Begins DEF Queued
<1> QED
  BY <1>1, <1>2, <1>3, Begins DEF Turn, Queued

\* What is started or queued for download is not being deleted.
LEMMA StartedIsNotDeleted ==
  ASSUME DInv, NEW u \in Urls, Started(u), Doomed(u)
  PROVE  Queued(Delete(u))
  BY DEF Started, Doomed, Deleting

LEMMA DownloaderUnchanged ==
  ASSUME DInv, UNCHANGED downloaderVars
  PROVE  /\ DInv' /\ disk' = disk
         /\ \A u \in Urls : /\ Queued(Download(u))' <=> Queued(Download(u))
                            /\ Started(u)' <=> Started(u)
                            /\ Doomed(u)' <=> Doomed(u)
<1>1. UNCHANGED << tasks, work, original, distilled, mime, disk >>
  BY DEF downloaderVars, pageVars
<1>2. DInv'
  BY <1>1 DEF DInv, DownloaderTypeOK, InTurn
<1> QED
  BY <1>1, <1>2 DEF Queued, In, Started, Doomed, Delete, Download

-----------------------------------------------------------------------------
(* The inductive invariant.                                                *)

Swept(url) ==
  sync.phase = "loading" \/ (sync.phase = "cleaning" /\ url \notin sync.keep)

\* A download of a removed entry that has begun is followed by a deletion.
Fine(url) ==
  /\ Queued(Download(url)) => Present(url) /\ ~entries[url].read
  /\ ~Present(url) /\ Started(url) => Doomed(url)
  /\ ~Present(url) /\ disk[url] # "none" => Doomed(url) \/ Swept(url)

TriesLeft ==
  \A url \in Urls :
    entries[url].state # "DISTILLATION_ERROR" => entries[url].fails < StopAfter

IInv ==
  /\ DInv /\ ServiceTypeOK /\ TriesLeft
  /\ \A url \in Urls : Fine(url)

LEMMA FineKept ==
  ASSUME NEW url \in Urls, Fine(url),
         Present(url)' <=> Present(url), entries'[url].read = entries[url].read,
         sync' = sync,
         Queued(Download(url))' =>
           Queued(Download(url)) \/ (Present(url) /\ ~entries[url].read),
         Started(url)' => Started(url) \/ Queued(Download(url)) \/ Present(url),
         Doomed(url) => Doomed(url)' \/ (disk[url] = "none" /\ ~Started(url)),
         disk'[url] # "none" => disk[url] # "none" \/ Started(url)
  PROVE  Fine(url)'
<1>1. Queued(Download(url))' => Present(url)' /\ ~entries'[url].read
  BY DEF Fine
<1>2. ~Present(url)' /\ Started(url)' => Started(url) /\ Doomed(url)
  BY DEF Fine
<1>3. ~Present(url)' /\ Started(url)' => Doomed(url)'
  BY <1>2
<1>4. ~Present(url)' /\ disk'[url] # "none" => Doomed(url)' \/ Swept(url)'
  <2> SUFFICES ASSUME ~Present(url), disk'[url] # "none"
               PROVE  Doomed(url)' \/ Swept(url)'
    OBVIOUS
  <2>1. Swept(url)' <=> Swept(url)
    BY DEF Swept
  <2>2. CASE Started(url)
    BY <2>2 DEF Fine
  <2>3. CASE ~Started(url)
    BY <2>1, <2>3 DEF Fine
  <2> QED
    BY <2>2, <2>3
<1> QED
  BY <1>1, <1>3, <1>4 DEF Fine

\* Nothing changes but the downloader.
LEMMA InnerFine ==
  ASSUME IInv, Inner, UNCHANGED << entries, sync >>, NEW url \in Urls
  PROVE  Fine(url)'
<1>1. disk'[url] # "none" => disk[url] # "none" \/ Started(url)
  <2>1. CASE disk' = disk
    BY <2>1
  <2>2. CASE \E a \in Addresses, x \in Directories :
               /\ disk' = [disk EXCEPT ![a] = x]
               /\ a \in Urls => Started(a) \/ (Doomed(a) /\ x = "none")
    <3>1. PICK a \in Addresses, x \in Directories :
               /\ disk' = [disk EXCEPT ![a] = x]
               /\ a \in Urls => Started(a) \/ (Doomed(a) /\ x = "none")
      BY <2>2
    <3>2. disk \in [Addresses -> Directories] /\ url \in Addresses
      BY WorkType DEF IInv, Addresses
    <3>3. CASE url = a
      BY <3>1, <3>2, <3>3
    <3>4. CASE url # a
      BY <3>1, <3>2, <3>4
    <3> QED
      BY <3>3, <3>4
  <2> QED
    BY <2>1, <2>2 DEF Inner, DiskStep
<1>2. Present(url)' <=> Present(url)
  BY DEF Present
<1> QED
  BY <1>1, <1>2, FineKept DEF IInv, Inner

LEMMA TurnFine ==
  ASSUME IInv, Turn, sync' = sync, NEW url \in Urls,
         Present(url)' <=> Present(url), entries'[url].read = entries[url].read
  PROVE  Fine(url)'
  BY FineKept DEF IInv, Turn

\* What FineKept asks of the entry holds of one that is not changed.
LEMMA SameEntry ==
  ASSUME NEW url, entries'[url] = entries[url]
  PROVE  /\ Present(url)' <=> Present(url)
         /\ entries'[url].read = entries[url].read
  BY DEF Present

-----------------------------------------------------------------------------
(* Entries.                                                                *)

LEMMA EntryTypes ==
  ASSUME ServiceTypeOK, NEW url \in Urls
  PROVE  /\ entries[url] \in Entries \union {Absent}
         /\ Present(url) => entries[url] \in Entries
         /\ Absent \notin Entries /\ Absent.state = "absent" /\ Absent.fails = 0
         /\ NewEntry \in Entries /\ NewEntry.state = "WAITING" /\ ~NewEntry.read
         /\ NewEntry.fails = 0
         /\ \A e \in Entries : e.state # "absent" /\ e.fails \in 0 .. StopAfter
                               /\ e.read \in BOOLEAN
  BY DEF ServiceTypeOK, Entries, Absent, NewEntry, Present, Unfinished

LEMMA AtMostType ==
  ASSUME NEW n \in Nat PROVE AtMost(n) \in 0 .. MaxTimers
  BY BoundsAssumption DEF AtMost

LEMMA ScheduledType ==
  ASSUME ServiceTypeOK, NEW list, NEW times \in [Urls -> Nat]
  PROVE  Scheduled(list, times) \in [Urls -> 0 .. MaxTimers]
<1> SUFFICES ASSUME NEW url \in Urls
             PROVE  (IF ToDownload(list[url]) THEN AtMost(timers[url] + times[url])
                     ELSE timers[url]) \in 0 .. MaxTimers
  BY DEF Scheduled
<1>1. timers[url] \in 0 .. MaxTimers /\ timers[url] + times[url] \in Nat
  BY DEF ServiceTypeOK
<1> QED
  BY <1>1, AtMostType

LEMMA OnceType ==
  ASSUME NEW S PROVE Once(S) \in [Urls -> Nat]
  BY DEF Once

LEMMA RetriesType ==
  ASSUME ServiceTypeOK, NEW connection, NEW calls \in Nat
  PROVE  Retries(connection, calls) \in [Urls -> Nat]
<1> SUFFICES ASSUME NEW url \in Urls
             PROVE  (IF ~hadConnection /\ connection # "none" THEN cellularList[url]
                     ELSE 0)
                    + (IF connection = "wifi" THEN calls * wifiList[url] ELSE 0) \in Nat
  BY DEF Retries
<1>1. cellularList[url] \in Nat /\ wifiList[url] \in Nat
  BY DEF ServiceTypeOK
<1>2. \A m, n \in Nat : m * n \in Nat
  OBVIOUS
<1>3. calls * wifiList[url] \in Nat
  BY <1>1, <1>2
<1> QED
  BY <1>1, <1>3

LEMMA ListedType ==
  ASSUME NEW list \in [Urls -> 0 .. MaxTimers], NEW url \in Urls
  PROVE  Listed(list, url) \in [Urls -> 0 .. MaxTimers]
<1>1. list[url] + 1 \in Nat
  OBVIOUS
<1>2. AtMost(list[url] + 1) \in 0 .. MaxTimers
  BY <1>1, AtMostType
<1> QED
  BY <1>2 DEF Listed

LEMMA NowhereType == Nowhere \in [Urls -> 0 .. MaxTimers]
<1>1. 0 \in 0 .. MaxTimers
  BY BoundsAssumption
<1> QED
  BY <1>1 DEF Nowhere

\* What a state does to an entry.
LEMMA WithStateType ==
  ASSUME NEW e \in Entries, NEW state \in Unfinished \union Errors,
         e.state # "DISTILLATION_ERROR" => e.fails < StopAfter
  PROVE  /\ WithState(e, state) \in Entries
         /\ WithState(e, state).state = state /\ WithState(e, state).read = e.read
         /\ state \notin Errors => WithState(e, state).fails = e.fails
         /\ WithState(e, state).fails \in {e.fails, e.fails + 1}
<1> DEFINE n == IF state \in Errors /\ e.state \notin Errors THEN e.fails + 1 ELSE e.fails
<1>1. e.fails \in 0 .. StopAfter /\ e.read \in BOOLEAN
  BY DEF Entries
<1>2. e.state \notin Errors => e.fails < StopAfter
  BY DEF Errors
<1>3. n \in 0 .. StopAfter /\ n \in {e.fails, e.fails + 1}
      /\ (state \notin Errors => n = e.fails)
  BY <1>1, <1>2
<1>4. WithState(e, state) = [state |-> state, read |-> e.read, fails |-> n]
  BY DEF WithState
<1> HIDE DEF n
<1>5. state \in Unfinished \union {"PROCESSED", "DISTILLATION_ERROR"}
  BY DEF Errors, Unfinished
<1> QED
  BY <1>1, <1>3, <1>4, <1>5 DEF Entries

-----------------------------------------------------------------------------
(* The reading list changes.                                               *)

\* The rest of the types, when the list changes.
LEMMA ListChangeTypes ==
  ASSUME ServiceTypeOK, ListChanges, timers' \in [Urls -> 0 .. MaxTimers],
         entries' \in [Urls -> Entries \union {Absent}]
  PROVE  ServiceTypeOK' /\ sync' = sync
<1>1. budget' \in 0 .. MaxEvents
  BY DEF ListChanges, Event, ServiceTypeOK
<1> QED
  BY <1>1 DEF ListChanges, ServiceTypeOK, listVars, networkVars

\* One entry changes.
LEMMA OneEntry ==
  ASSUME ServiceTypeOK, TriesLeft, NEW url \in Urls, NEW e \in Entries \union {Absent},
         e.state # "DISTILLATION_ERROR" => e.fails < StopAfter,
         entries' = [entries EXCEPT ![url] = e]
  PROVE  /\ entries' \in [Urls -> Entries \union {Absent}] /\ TriesLeft'
         /\ entries'[url] = e
         /\ \A u \in Urls \ {url} : entries'[u] = entries[u]
<1>1. entries \in [Urls -> Entries \union {Absent}]
  BY DEF ServiceTypeOK
<1>2. /\ entries' \in [Urls -> Entries \union {Absent}]
      /\ entries'[url] = e
      /\ \A u \in Urls \ {url} : entries'[u] = entries[u]
  BY <1>1
<1> QED
  BY <1>2 DEF TriesLeft

LEMMA AddEntryIInv ==
  ASSUME IInv, NEW url \in Urls, AddEntry(url)
  PROVE  IInv'
<1>1. /\ ListChanges /\ entries' = [entries EXCEPT ![url] = NewEntry]
      /\ timers' = Scheduled([entries EXCEPT ![url] = NewEntry], Once({url}))
      /\ IF Present(url) THEN RemoveOfflineURL(url) ELSE UNCHANGED downloaderVars
  BY DEF AddEntry
<1>2. DInv /\ ServiceTypeOK /\ TriesLeft
  BY DEF IInv
<1>3. /\ entries' \in [Urls -> Entries \union {Absent}] /\ TriesLeft'
      /\ entries'[url] = NewEntry
      /\ \A u \in Urls \ {url} : entries'[u] = entries[u]
  <2>1. NewEntry \in Entries /\ NewEntry.fails < StopAfter
    BY <1>2, EntryTypes
  <2> QED
    BY <1>1, <1>2, <2>1, OneEntry
<1>4. ServiceTypeOK' /\ sync' = sync
  BY <1>1, <1>2, <1>3, ListChangeTypes, ScheduledType, OnceType
<1>5. /\ DInv' /\ disk' = disk
      /\ \A u \in Urls : /\ Queued(Download(u))' => Queued(Download(u))
                         /\ Started(u)' <=> Started(u)
                         /\ Doomed(u) => Doomed(u)'
  BY <1>1, <1>2, RemoveEffect, DownloaderUnchanged
<1>6. ASSUME NEW u \in Urls PROVE Fine(u)'
  <2>1. CASE u = url
    <3>1. Present(u)' /\ ~entries'[u].read
      BY <1>2, <1>3, <2>1, EntryTypes DEF Present
    <3> QED
      BY <3>1 DEF Fine
  <2>2. CASE u # url
    BY <1>3, <1>4, <1>5, <2>2, SameEntry, FineKept DEF IInv
  <2> QED
    BY <2>1, <2>2
<1> QED
  BY <1>3, <1>4, <1>5, <1>6 DEF IInv

LEMMA RemoveEntryIInv ==
  ASSUME IInv, NEW url \in Urls, RemoveEntry(url)
  PROVE  IInv'
<1>1. /\ ListChanges /\ entries' = [entries EXCEPT ![url] = Absent]
      /\ timers' = timers /\ RemoveOfflineURL(url)
  BY DEF RemoveEntry, SetEntry
<1>2. DInv /\ ServiceTypeOK /\ TriesLeft
  BY DEF IInv
<1>3. /\ entries' \in [Urls -> Entries \union {Absent}] /\ TriesLeft'
      /\ entries'[url] = Absent
      /\ \A u \in Urls \ {url} : entries'[u] = entries[u]
  <2>1. Absent.fails < StopAfter
    BY <1>2, EntryTypes
  <2> QED
    BY <1>1, <1>2, <2>1, OneEntry
<1>4. ServiceTypeOK' /\ sync' = sync
  BY <1>1, <1>2, <1>3, ListChangeTypes DEF ServiceTypeOK
<1>5. /\ DInv' /\ disk' = disk /\ Doomed(url)' /\ ~Queued(Download(url))'
      /\ \A u \in Urls : /\ Queued(Download(u))' => Queued(Download(u))
                         /\ Started(u)' <=> Started(u)
                         /\ Doomed(u) => Doomed(u)'
  BY <1>1, <1>2, RemoveEffect
<1>6. ASSUME NEW u \in Urls PROVE Fine(u)'
  <2>1. CASE u = url
    BY <1>5, <2>1 DEF Fine
  <2>2. CASE u # url
    BY <1>3, <1>4, <1>5, <2>2, SameEntry, FineKept DEF IInv
  <2> QED
    BY <2>1, <2>2
<1> QED
  BY <1>3, <1>4, <1>5, <1>6 DEF IInv

LEMMA MoveEntryIInv ==
  ASSUME IInv, NEW url \in Urls, MoveEntry(url)
  PROVE  IInv'
<1> DEFINE e == [entries[url] EXCEPT !.read = ~@]
           list == [entries EXCEPT ![url] = e]
<1>1. /\ ListChanges /\ Present(url) /\ entries' = list
      /\ ProcessNewEntry(url, list)
  BY DEF MoveEntry
<1>2. DInv /\ ServiceTypeOK /\ TriesLeft
  BY DEF IInv
<1>3. /\ e \in Entries /\ e.fails = entries[url].fails /\ e.state = entries[url].state
      /\ e.read = ~entries[url].read
  <2>1. entries[url] \in Entries
    BY <1>1, <1>2, EntryTypes
  <2> QED
    BY <2>1 DEF Entries
<1> HIDE DEF e
<1>4. /\ entries' \in [Urls -> Entries \union {Absent}] /\ TriesLeft'
      /\ entries'[url] = e
      /\ \A u \in Urls \ {url} : entries'[u] = entries[u]
  <2>1. e.state # "DISTILLATION_ERROR" => e.fails < StopAfter
    BY <1>2, <1>3 DEF TriesLeft
  <2> QED
    BY <1>1, <1>2, <1>3, <2>1, OneEntry
<1>5. list = entries' /\ list[url] = e
  BY <1>1, <1>4
<1> HIDE DEF list
<1>6. CASE e.read \/ e.state = "absent"
  <2>1. CancelDownloadOfflineURL(url) /\ timers' = timers
    BY <1>1, <1>5, <1>6 DEF ProcessNewEntry
  <2>2. ServiceTypeOK' /\ sync' = sync
    BY <1>1, <1>2, <1>4, <2>1, ListChangeTypes DEF ServiceTypeOK
  <2>3. /\ DInv' /\ disk' = disk /\ ~Queued(Download(url))'
        /\ \A u \in Urls : /\ Queued(Download(u))' => Queued(Download(u))
                           /\ Started(u)' <=> Started(u)
                           /\ Doomed(u)' <=> Doomed(u)
    BY <1>2, <2>1, CancelEffect
  <2>4. Fine(url)'
    <3>1. Present(url)'
      BY <1>1, <1>3, <1>4 DEF Present
    <3> QED
      BY <2>3, <3>1 DEF Fine
  <2>5. ASSUME NEW u \in Urls, u # url PROVE Fine(u)'
    BY <1>4, <2>2, <2>3, <2>5, SameEntry, FineKept DEF IInv
  <2> QED
    BY <1>4, <2>2, <2>3, <2>4, <2>5 DEF IInv
<1>7. CASE ~(e.read \/ e.state = "absent")
  <2>1. timers' = Scheduled(list, Once({url})) /\ UNCHANGED downloaderVars
    BY <1>1, <1>5, <1>7 DEF ProcessNewEntry
  <2>2. ServiceTypeOK' /\ sync' = sync
    BY <1>1, <1>2, <1>4, <2>1, ListChangeTypes, ScheduledType, OnceType
  <2>3. /\ DInv' /\ disk' = disk
        /\ \A u \in Urls : /\ Queued(Download(u))' => Queued(Download(u))
                           /\ Started(u)' <=> Started(u)
                           /\ Doomed(u)' <=> Doomed(u)
    BY <1>2, <2>1, DownloaderUnchanged
  <2>4. Fine(url)'
    BY <1>4, <1>7 DEF Fine, Present
  <2>5. ASSUME NEW u \in Urls, u # url PROVE Fine(u)'
    BY <1>4, <2>2, <2>3, <2>5, SameEntry, FineKept DEF IInv
  <2> QED
    BY <1>4, <2>2, <2>3, <2>4, <2>5 DEF IInv
<1> QED
  BY <1>6, <1>7

-----------------------------------------------------------------------------
(* Launch and network.                                                     *)

\* Nothing but the service changes, and no entry.
LEMMA ServiceStep ==
  ASSUME IInv, UNCHANGED << downloaderVars, entries, sync >>, ServiceTypeOK'
  PROVE  IInv'
<1>1. /\ DInv' /\ disk' = disk
      /\ \A u \in Urls : /\ Queued(Download(u))' <=> Queued(Download(u))
                         /\ Started(u)' <=> Started(u)
                         /\ Doomed(u)' <=> Doomed(u)
  BY DownloaderUnchanged DEF IInv
<1>2. \A u \in Urls : Fine(u)'
  BY <1>1, SameEntry, FineKept DEF IInv
<1>3. TriesLeft'
  BY DEF IInv, TriesLeft
<1> QED
  BY <1>1, <1>2, <1>3 DEF IInv

LEMMA SyncTypes ==
  ASSUME NEW phase \in {"loading", "cleaning", "cleaned", "done"},
         NEW keep \in SUBSET Urls, NEW todo \in SUBSET Urls
  PROVE  [phase |-> phase, keep |-> keep, todo |-> todo] \in Syncs
  BY DEF Syncs

LEMMA ReadingListModelLoadedIInv ==
  ASSUME IInv, ReadingListModelLoaded
  PROVE  IInv'
<1>1. /\ sync.phase = "loading" /\ disk' = disk /\ entries' = entries
      /\ sync' = [phase |-> "cleaning", keep |-> InState({"PROCESSED"}),
                  todo |-> InState(Unfinished)]
      /\ UNCHANGED << downloaderVars, timers, listVars, networkVars, ordinary, budget >>
  BY DEF ReadingListModelLoaded, downloaderVars
<1>2. ServiceTypeOK'
  <2>1. sync' \in Syncs
    BY <1>1, SyncTypes DEF InState
  <2> QED
    BY <1>1, <2>1 DEF IInv, ServiceTypeOK, listVars, networkVars
<1>3. /\ DInv'
      /\ \A u \in Urls : /\ Queued(Download(u))' <=> Queued(Download(u))
                         /\ Started(u)' <=> Started(u)
                         /\ Doomed(u)' <=> Doomed(u)
  BY <1>1, DownloaderUnchanged DEF IInv
<1>4. ASSUME NEW u \in Urls PROVE Fine(u)'
  <2>1. (Present(u)' <=> Present(u)) /\ entries'[u].read = entries[u].read
    BY <1>1, SameEntry
  <2>2. ~Present(u) => u \notin InState({"PROCESSED"})
    BY DEF Present, InState
  <2>3. ~Present(u)' => Swept(u)'
    BY <1>1, <2>1, <2>2 DEF Swept
  <2> QED
    BY <1>3, <2>1, <2>3 DEF Fine, IInv
<1>5. TriesLeft'
  BY <1>1 DEF IInv, TriesLeft
<1> QED
  BY <1>2, <1>3, <1>4, <1>5 DEF IInv

LEMMA CleanUpFilesIInv ==
  ASSUME IInv, CleanUpFiles
  PROVE  IInv'
<1>1. /\ sync.phase = "cleaning" /\ entries' = entries
      /\ disk' = [a \in Addresses |-> IF a \in sync.keep THEN disk[a] ELSE "none"]
      /\ sync' = [sync EXCEPT !.phase = "cleaned"]
      /\ UNCHANGED << tasks, work, pageVars, timers, listVars, networkVars,
                      ordinary, budget >>
  BY DEF CleanUpFiles
<1>2. ServiceTypeOK'
  <2>1. sync' \in Syncs
    BY <1>1 DEF IInv, ServiceTypeOK, Syncs
  <2> QED
    BY <1>1, <2>1 DEF IInv, ServiceTypeOK, listVars, networkVars
<1>3. \A a \in Addresses : disk'[a] \in {disk[a], "none"}
  BY <1>1
<1>4. DInv'
  <2>1. disk' \in [Addresses -> Directories]
    BY <1>1, WorkType DEF IInv, Directories
  <2>2. work.step = "deleted" => disk'[work.url] = "none"
    BY <1>3, WorkType DEF IInv, DInv, InTurn
  <2> QED
    BY <1>1, <2>1, <2>2 DEF IInv, DInv, DownloaderTypeOK, InTurn, pageVars
<1>5. \A u \in Urls : /\ Queued(Download(u))' <=> Queued(Download(u))
                      /\ Started(u)' <=> Started(u)
                      /\ Doomed(u)' <=> Doomed(u)
  BY <1>1 DEF Queued, In, Started, Doomed, Delete, Download, pageVars
<1>6. ASSUME NEW u \in Urls PROVE Fine(u)'
  <2>1. (Present(u)' <=> Present(u)) /\ entries'[u].read = entries[u].read
    BY <1>1, SameEntry
  <2>2. disk'[u] # "none" => disk[u] # "none" /\ ~Swept(u)
    BY <1>1 DEF Swept, Addresses
  <2> QED
    BY <1>5, <2>1, <2>2 DEF Fine, IInv
<1>7. TriesLeft'
  BY <1>1 DEF IInv, TriesLeft
<1> QED
  BY <1>2, <1>4, <1>6, <1>7 DEF IInv

LEMMA DownloadUnprocessedEntriesIInv ==
  ASSUME IInv, DownloadUnprocessedEntries
  PROVE  IInv'
<1>1. /\ sync.phase = "cleaned" /\ entries' = entries /\ disk' = disk
      /\ timers' = Scheduled(entries, Once(sync.todo))
      /\ sync' = [phase |-> "done", keep |-> {}, todo |-> {}]
      /\ UNCHANGED << downloaderVars, listVars, networkVars, ordinary, budget >>
  BY DEF DownloadUnprocessedEntries, downloaderVars
<1>2. ServiceTypeOK'
  <2>1. sync' \in Syncs
    BY <1>1, SyncTypes
  <2>2. timers' \in [Urls -> 0 .. MaxTimers]
    BY <1>1, ScheduledType, OnceType DEF IInv
  <2> QED
    BY <1>1, <2>1, <2>2 DEF IInv, ServiceTypeOK, listVars, networkVars
<1>3. /\ DInv'
      /\ \A u \in Urls : /\ Queued(Download(u))' <=> Queued(Download(u))
                         /\ Started(u)' <=> Started(u)
                         /\ Doomed(u)' <=> Doomed(u)
  BY <1>1, DownloaderUnchanged DEF IInv
<1>4. ASSUME NEW u \in Urls PROVE Fine(u)'
  <2>1. (Present(u)' <=> Present(u)) /\ entries'[u].read = entries[u].read
    BY <1>1, SameEntry
  <2>2. ~Swept(u)
    BY <1>1 DEF Swept
  <2> QED
    BY <1>1, <1>3, <2>1, <2>2 DEF Fine, IInv
<1>5. TriesLeft'
  BY <1>1 DEF IInv, TriesLeft
<1> QED
  BY <1>2, <1>3, <1>4, <1>5 DEF IInv

LEMMA RelaunchIInv ==
  ASSUME IInv, Relaunch
  PROVE  IInv'
<1>1. /\ tasks' = << >> /\ work' = Idle /\ mime' = ""
      /\ original' = Elsewhere /\ distilled' = Elsewhere
      /\ disk' = disk /\ entries' = entries /\ Event /\ Launched(network)
      /\ UNCHANGED << network, ordinary >>
  BY DEF Relaunch
<1>2. ServiceTypeOK'
  <2>1. budget' \in 0 .. MaxEvents
    <3>1. budget \in 0 .. MaxEvents /\ budget > 0 /\ budget' = budget - 1
      BY <1>1 DEF Event, IInv, ServiceTypeOK
    <3> QED
      BY <3>1
  <2>2. sync' \in Syncs
    BY <1>1, SyncTypes DEF Launched
  <2>3. /\ timers' \in [Urls -> 0 .. MaxTimers]
        /\ cellularList' = Nowhere /\ wifiList' = Nowhere
        /\ hadConnection' \in BOOLEAN /\ tracker' = "unknown" /\ asked' = 0
        /\ changes' \in Seq(Connections)
    <3>1. network \in Connections /\ changes' = << network >>
      BY <1>1 DEF Launched, IInv, ServiceTypeOK
    <3>2. changes' \in Seq(Connections)
      BY <3>1
    <3>3. timers' = [url \in Urls |-> 0]
      BY <1>1 DEF Launched
    <3>4. timers' \in [Urls -> 0 .. MaxTimers]
      BY <3>3
    <3>5. /\ cellularList' = Nowhere /\ wifiList' = Nowhere /\ tracker' = "unknown"
          /\ asked' = 0 /\ (hadConnection' = TRUE \/ hadConnection' = FALSE)
      BY <1>1, Zenon DEF Launched
    <3> QED
      BY <3>2, <3>4, <3>5
  <2> QED
    <3>1. /\ cellularList' \in [Urls -> 0 .. MaxTimers]
          /\ wifiList' \in [Urls -> 0 .. MaxTimers]
          /\ asked' \in 0 .. MaxTimers /\ tracker' \in Connections \union {"unknown"}
      BY <2>3, NowhereType, BoundsAssumption
    <3>2. /\ entries' \in [Urls -> Entries \union {Absent}]
          /\ network' \in Connections /\ ordinary' \in BOOLEAN
      BY <1>1 DEF IInv, ServiceTypeOK
    <3> QED
      BY <2>1, <2>2, <2>3, <3>1, <3>2 DEF ServiceTypeOK
<1>3. DInv'
  <2>1. Idle \in Works /\ Idle.step = "idle"
    BY DEF Idle, Works, Steps, Addresses
  <2>2. tasks' \in Seq(Tasks) /\ InOrder(tasks')
    <3>1. << >> \in Seq(Tasks) /\ InOrder(<< >>)
      BY DEF InOrder
    <3> QED
      BY <1>1, <3>1
  <2> QED
    BY <1>1, <2>1, <2>2
       DEF IInv, DInv, DownloaderTypeOK, InTurn, Addresses, Deleting
<1>4. \A u \in Urls : ~Queued(Download(u))' /\ ~Started(u)' /\ Swept(u)'
  <2>1. \A t : ~In(t, << >>)
    BY DEF In
  <2>2. \A u \in Urls : ~Queued(Download(u))'
    BY <1>1, <2>1 DEF Queued
  <2>3. work'.step = "idle"
    BY <1>1 DEF Idle
  <2>4. \A u \in Urls : ~Started(u)'
    BY <2>3 DEF Started, Deleting
  <2>5. sync'.phase = "loading"
    BY <1>1 DEF Launched
  <2> QED
    BY <2>2, <2>4, <2>5 DEF Swept
<1>5. TriesLeft'
  BY <1>1 DEF IInv, TriesLeft
<1> QED
  BY <1>2, <1>3, <1>4, <1>5 DEF IInv, Fine

LEMMA NetworkChangesIInv ==
  ASSUME IInv, NEW connection \in Connections, NetworkChanges(connection)
  PROVE  IInv'
<1>1. /\ Event /\ network' = connection /\ changes' = Append(changes, connection)
      /\ UNCHANGED << downloaderVars, entries, timers, listVars, tracker, asked,
                      sync, ordinary >>
  BY DEF NetworkChanges
<1>2. ServiceTypeOK'
  <2>1. budget' \in 0 .. MaxEvents
    BY <1>1 DEF Event, IInv, ServiceTypeOK
  <2>2. changes' \in Seq(Connections)
    BY <1>1 DEF IInv, ServiceTypeOK
  <2> QED
    BY <1>1, <2>1, <2>2 DEF IInv, ServiceTypeOK, listVars
<1> QED
  BY <1>1, <1>2, ServiceStep

LEMMA ConnectionChangedIInv ==
  ASSUME IInv, ConnectionChanged
  PROVE  IInv'
<1>1. PICK n \in DOMAIN changes :
        /\ tracker' = changes[n] /\ changes' = SubSeq(changes, n + 1, Len(changes))
        /\ \/ OnConnectionChanged(changes[n], 1)
           \/ OnConnectionChanged(changes[n], asked)
           \/ UNCHANGED << timers, hadConnection >>
        /\ asked' = 0
        /\ UNCHANGED << downloaderVars, entries, cellularList, wifiList, network,
                        sync, ordinary, budget >>
  BY Zenon DEF ConnectionChanged
<1>2. tracker' \in Connections /\ changes' \in Seq(Connections)
  <2>1. changes \in Seq(Connections) /\ n \in 1 .. Len(changes)
    BY DEF IInv, ServiceTypeOK
  <2> QED
    BY <1>1, <2>1
<1>3. timers' \in [Urls -> 0 .. MaxTimers] /\ hadConnection' \in BOOLEAN
  <2>1. ASSUME NEW calls \in Nat, OnConnectionChanged(changes[n], calls)
        PROVE  timers' \in [Urls -> 0 .. MaxTimers] /\ hadConnection' \in BOOLEAN
    BY <2>1, ScheduledType, RetriesType DEF OnConnectionChanged, IInv
  <2>2. \/ \E calls \in Nat : OnConnectionChanged(changes[n], calls)
        \/ UNCHANGED << timers, hadConnection >>
    <3>1. asked \in Nat /\ 1 \in Nat
      BY DEF IInv, ServiceTypeOK
    <3> QED
      BY <1>1, <3>1, Zenon
  <2>3. timers \in [Urls -> 0 .. MaxTimers] /\ hadConnection \in BOOLEAN
    BY DEF IInv, ServiceTypeOK
  <2> QED
    BY <2>1, <2>2, <2>3
<1>4. ServiceTypeOK'
  BY <1>1, <1>2, <1>3, BoundsAssumption DEF IInv, ServiceTypeOK
<1> QED
  BY <1>1, <1>4, ServiceStep

-----------------------------------------------------------------------------
(* Downloads.                                                              *)

\* The downloader goes on, and entries keep what Fine tells of them.
LEMMA DownloaderMoves ==
  ASSUME IInv, Inner \/ Turn, sync' = sync, ServiceTypeOK', TriesLeft',
         \A u \in Urls : /\ Present(u)' <=> Present(u)
                         /\ entries'[u].read = entries[u].read,
         Turn \/ entries' = entries
  PROVE  IInv'
<1>1. DInv'
  BY DEF Inner, Turn
<1>2. \A u \in Urls : Fine(u)'
  BY InnerFine, TurnFine
<1> QED
  BY <1>1, <1>2 DEF IInv

LEMMA DownloaderStepIInv ==
  ASSUME IInv, DownloaderStep
  PROVE  IInv'
<1>1. UNCHANGED serviceVars /\ (Background \/ Replies \/ Distiller) /\ DInv
  BY DEF DownloaderStep, IInv
<1>2. entries' = entries /\ sync' = sync /\ ServiceTypeOK' /\ TriesLeft'
  BY <1>1 DEF serviceVars, IInv, ServiceTypeOK, TriesLeft
<1>3. Inner \/ Turn
  BY <1>1, BackgroundInner, DistillerInner, RepliesInner, DeleteTurn DEF Replies
<1> QED
  BY <1>2, <1>3, DownloaderMoves, SameEntry

LEMMA StartDownloadIInv ==
  ASSUME IInv, NEW url \in Urls, ToDownload(entries[url]), MayDownload(entries[url]),
         StartDownload(url), timers' \in [Urls -> 0 .. MaxTimers],
         UNCHANGED << hadConnection, network, tracker, changes, sync, ordinary, budget >>
  PROVE  IInv'
<1> DEFINE e == entries[url]
           f == WithState(e, "PROCESSING")
<1>1. /\ entries' = [entries EXCEPT ![url] = f] /\ DownloadOfflineURL(url)
      /\ UNCHANGED << cellularList, wifiList, asked >>
  BY DEF StartDownload, SetEntry
<1>2. DInv /\ ServiceTypeOK /\ TriesLeft
  BY DEF IInv
<1>3. e \in Entries /\ e.fails < StopAfter /\ ~e.read /\ Present(url)
  <2>1. Present(url) /\ ~e.read
    BY DEF ToDownload, Unfinished, Present
  <2>2. e \in Entries /\ e.fails \in 0 .. StopAfter
    BY <1>2, <2>1, EntryTypes
  <2> QED
    BY <2>1, <2>2 DEF MayDownload
<1>4. f \in Entries /\ f.fails = e.fails /\ f.read = e.read /\ f.state = "PROCESSING"
  <2>1. "PROCESSING" \in Unfinished \union Errors /\ "PROCESSING" \notin Errors
    BY DEF Unfinished, Errors
  <2> QED
    BY <1>3, <2>1, WithStateType
<1> HIDE DEF f
<1>5. /\ entries' \in [Urls -> Entries \union {Absent}] /\ TriesLeft'
      /\ entries'[url] = f
      /\ \A u \in Urls \ {url} : entries'[u] = entries[u]
  BY <1>1, <1>2, <1>3, <1>4, OneEntry
<1>6. ServiceTypeOK'
  BY <1>1, <1>2, <1>5 DEF ServiceTypeOK
<1>7. /\ DInv' /\ disk' = disk
      /\ \A u \in Urls : /\ Queued(Download(u))' => Queued(Download(u)) \/ u = url
                         /\ Started(u)' => Started(u) \/ u = url
                         /\ Doomed(u)' <=> Doomed(u)
  BY <1>1, <1>2, DownloadEffect
<1>8. \A u \in Urls : /\ Present(u)' <=> Present(u)
                      /\ entries'[u].read = entries[u].read
  BY <1>3, <1>4, <1>5, SameEntry DEF Present
<1>9. \A u \in Urls : Fine(u)'
  <2> SUFFICES ASSUME NEW u \in Urls PROVE Fine(u)'
    OBVIOUS
  <2>1. u = url => Present(u) /\ ~entries[u].read
    BY <1>3
  <2> QED
    BY <1>7, <1>8, <2>1, FineKept DEF IInv
<1> QED
  BY <1>5, <1>6, <1>7, <1>9 DEF IInv

LEMMA DownloadEntryIInv ==
  ASSUME IInv, NEW url \in Urls, DownloadEntry(url)
  PROVE  IInv'
<1>1. /\ timers[url] > 0 /\ timers' = [timers EXCEPT ![url] = @ - 1]
      /\ UNCHANGED << hadConnection, network, tracker, changes, sync, ordinary,
                      budget >>
  BY DEF DownloadEntry
<1>2. timers' \in [Urls -> 0 .. MaxTimers]
  BY <1>1 DEF IInv, ServiceTypeOK
<1>3. \/ /\ UNCHANGED << downloaderVars, entries >>
         /\ cellularList' \in [Urls -> 0 .. MaxTimers] /\ wifiList' \in [Urls -> 0 .. MaxTimers]
         /\ asked' \in 0 .. MaxTimers
      \/ /\ ToDownload(entries[url]) /\ MayDownload(entries[url])
         /\ StartDownload(url)
  <2>1. /\ cellularList \in [Urls -> 0 .. MaxTimers]
        /\ wifiList \in [Urls -> 0 .. MaxTimers] /\ asked \in 0 .. MaxTimers
    BY DEF IInv, ServiceTypeOK
  <2>2. Listed(cellularList, url) \in [Urls -> 0 .. MaxTimers]
    BY <2>1, ListedType
  <2>3. Listed(wifiList, url) \in [Urls -> 0 .. MaxTimers]
    BY <2>1, ListedType
  <2>4. AtMost(asked + 1) \in 0 .. MaxTimers
    BY <2>1, AtMostType
  <2> QED
    BY <2>1, <2>2, <2>3, <2>4 DEF DownloadEntry, WaitForConnection, WaitForWifi
<1>4. CASE /\ UNCHANGED << downloaderVars, entries >>
           /\ cellularList' \in [Urls -> 0 .. MaxTimers] /\ wifiList' \in [Urls -> 0 .. MaxTimers]
           /\ asked' \in 0 .. MaxTimers
  <2>1. ServiceTypeOK'
    BY <1>1, <1>2, <1>4 DEF IInv, ServiceTypeOK
  <2> QED
    BY <1>1, <1>4, <2>1, ServiceStep
<1>5. CASE /\ ToDownload(entries[url]) /\ MayDownload(entries[url])
           /\ StartDownload(url)
  BY <1>1, <1>2, <1>5, StartDownloadIInv
<1> QED
  BY <1>3, <1>4, <1>5

\* The entry after a download of it.
LEMMA Outcome ==
  ASSUME IInv, NEW url \in Urls, Present(url), NEW outcome,
         OnDownloadEnd(url, outcome)
  PROVE  /\ \E f \in Entries :
              /\ entries' = [entries EXCEPT ![url] = f] /\ f.read = entries[url].read
              /\ f.state # "DISTILLATION_ERROR" => f.fails < StopAfter
         /\ timers' \in [Urls -> 0 .. MaxTimers]
<1> DEFINE e == entries[url]
<1>1. /\ e \in Entries /\ e.fails \in 0 .. StopAfter
      /\ e.state # "DISTILLATION_ERROR" => e.fails < StopAfter
      /\ timers \in [Urls -> 0 .. MaxTimers]
  BY EntryTypes DEF IInv, TriesLeft, ServiceTypeOK
<1>2. /\ WithInfo(e) \in Entries /\ WithInfo(e).read = e.read /\ WithInfo(e).fails = 0
  BY <1>1 DEF WithInfo, Entries
<1>3. {"WILL_RETRY", "DISTILLATION_ERROR"} \subseteq Unfinished \union Errors
  BY DEF Errors
<1>4. CASE outcome = "success"
  <2> DEFINE f == WithInfo(e)
  <2>1. entries' = [entries EXCEPT ![url] = f] /\ timers' = timers
    BY <1>4 DEF OnDownloadEnd, SetEntry
  <2>2. f \in Entries /\ f.read = e.read /\ f.fails < StopAfter
    BY <1>2
  <2> HIDE DEF f
  <2> QED
    BY <1>1, <2>1, <2>2
<1>5. CASE outcome # "success" /\ e.fails + 1 < StopAfter
  <2> DEFINE f == WithState(e, "WILL_RETRY")
  <2>1. /\ entries' = [entries EXCEPT ![url] = f]
        /\ timers' = Scheduled([entries EXCEPT ![url] = f], Once({url}))
    BY <1>1, <1>5 DEF OnDownloadEnd
  <2>2. f \in Entries /\ f.read = e.read /\ f.fails \in {e.fails, e.fails + 1}
    BY <1>1, <1>3, WithStateType
  <2>3. timers' \in [Urls -> 0 .. MaxTimers]
    BY <2>1, ScheduledType, OnceType DEF IInv
  <2>4. f.fails < StopAfter
    BY <1>1, <1>5, <2>2
  <2> HIDE DEF f
  <2> QED
    BY <2>1, <2>2, <2>3, <2>4
<1>6. CASE outcome # "success" /\ ~(e.fails + 1 < StopAfter)
  <2> DEFINE f == WithState(e, "DISTILLATION_ERROR")
  <2>1. entries' = [entries EXCEPT ![url] = f] /\ timers' = timers
    BY <1>1, <1>6 DEF OnDownloadEnd, SetEntry
  <2>2. f \in Entries /\ f.read = e.read /\ f.state = "DISTILLATION_ERROR"
    BY <1>1, <1>3, WithStateType
  <2> HIDE DEF f
  <2> QED
    BY <1>1, <2>1, <2>2
<1> QED
  BY <1>4, <1>5, <1>6

LEMMA DownloadEndIInv ==
  ASSUME IInv, DownloadEnd
  PROVE  IInv'
<1>1. PICK outcome \in Outcomes :
        /\ DownloadEnds(outcome) /\ OnDownloadEnd(work.url, outcome)
        /\ UNCHANGED << listVars, networkVars, sync, ordinary, budget >>
  BY DEF DownloadEnd
<1>2. Turn
  BY <1>1, DownloadTurn DEF IInv
<1>3. DInv /\ ServiceTypeOK /\ TriesLeft
  BY DEF IInv
<1>4. CASE work.url \notin Urls \/ ~Present(work.url)
  <2>1. entries' = entries /\ timers' = timers
    BY <1>1, <1>4 DEF OnDownloadEnd
  <2>2. ServiceTypeOK' /\ TriesLeft'
    BY <1>1, <1>3, <2>1 DEF ServiceTypeOK, TriesLeft, listVars, networkVars
  <2> QED
    BY <1>1, <1>2, <2>1, <2>2, SameEntry, DownloaderMoves
<1>5. CASE work.url \in Urls /\ Present(work.url)
  <2>1. PICK f \in Entries :
          /\ entries' = [entries EXCEPT ![work.url] = f]
          /\ f.read = entries[work.url].read
          /\ f.state # "DISTILLATION_ERROR" => f.fails < StopAfter
    BY <1>1, <1>5, Outcome
  <2>2. timers' \in [Urls -> 0 .. MaxTimers]
    BY <1>1, <1>5, Outcome
  <2>3. /\ entries' \in [Urls -> Entries \union {Absent}] /\ TriesLeft'
        /\ entries'[work.url] = f
        /\ \A u \in Urls \ {work.url} : entries'[u] = entries[u]
    BY <1>3, <1>5, <2>1, OneEntry
  <2>4. ServiceTypeOK'
    BY <1>1, <1>3, <2>2, <2>3 DEF ServiceTypeOK, listVars, networkVars
  <2>5. f.state # "absent"
    BY <1>3, <1>5, EntryTypes
  <2>6. ASSUME NEW u \in Urls
        PROVE  (Present(u)' <=> Present(u)) /\ entries'[u].read = entries[u].read
    <3>1. CASE u = work.url
      BY <1>5, <2>1, <2>3, <2>5, <3>1 DEF Present
    <3>2. CASE u # work.url
      BY <2>3, <3>2, SameEntry
    <3> QED
      BY <3>1, <3>2
  <2> QED
    BY <1>1, <1>2, <2>3, <2>4, <2>6, DownloaderMoves
<1> QED
  BY <1>4, <1>5

-----------------------------------------------------------------------------
(* The theorems.                                                           *)

LEMMA InitIInv == Init => IInv
<1> SUFFICES ASSUME Init PROVE IInv
  OBVIOUS
<1>1. /\ tasks = << >> /\ work = Idle /\ mime = ""
      /\ original = Elsewhere /\ distilled = Elsewhere
      /\ disk = [a \in Addresses |-> "none"]
      /\ entries = [url \in Urls |-> Absent]
      /\ sync = [phase |-> "loading", keep |-> {}, todo |-> {}]
  BY DEF Init, DownloaderInit
<1>2. Idle \in Works /\ Idle.step = "idle"
  BY DEF Idle, Works, Steps, Addresses
<1>3. tasks \in Seq(Tasks) /\ InOrder(tasks) /\ \A t : ~In(t, tasks)
  <2>1. << >> \in Seq(Tasks) /\ InOrder(<< >>) /\ \A t : ~In(t, << >>)
    BY DEF InOrder, In
  <2> QED
    BY <1>1, <2>1
<1>4. DownloaderTypeOK
  BY <1>1, <1>2, <1>3 DEF DownloaderTypeOK, Addresses, Directories
<1>5. InTurn
  BY <1>1, <1>2, <1>3 DEF InTurn, Deleting
<1>6. ServiceTypeOK
  <2>1. sync \in Syncs
    BY <1>1, SyncTypes
  <2>2. network \in Connections /\ changes = << network >>
    BY DEF Init
  <2>3. changes \in Seq(Connections)
    BY <2>2
  <2>4. entries \in [Urls -> Entries \union {Absent}]
    BY <1>1
  <2>5. timers \in [Urls -> 0 .. MaxTimers]
    BY DEF Init
  <2>6. /\ cellularList = Nowhere /\ wifiList = Nowhere /\ hadConnection \in BOOLEAN
        /\ ordinary \in BOOLEAN /\ tracker = "unknown" /\ asked = 0
        /\ budget = MaxEvents
    BY DEF Init
  <2>7. budget \in 0 .. MaxEvents
    BY <2>6
  <2> QED
    BY <2>1, <2>2, <2>3, <2>4, <2>5, <2>6, <2>7, NowhereType, BoundsAssumption
       DEF ServiceTypeOK
<1>7. TriesLeft
  <2>1. Absent.fails = 0 /\ 0 < StopAfter
    BY DEF Absent
  <2> QED
    BY <1>1, <2>1 DEF TriesLeft
<1>8. \A u \in Urls : Fine(u)
  <2>1. \A u \in Urls : ~Queued(Download(u)) /\ ~Started(u) /\ Swept(u)
    BY <1>1, <1>2, <1>3 DEF Queued, Started, Deleting, Swept
  <2> QED
    BY <2>1 DEF Fine
<1> QED
  BY <1>4, <1>5, <1>6, <1>7, <1>8 DEF IInv, DInv

LEMMA NextIInv == IInv /\ [Next]_vars => IInv'
<1> SUFFICES ASSUME IInv, [Next]_vars PROVE IInv'
  OBVIOUS
<1>1. CASE \E url \in Urls : \/ AddEntry(url) \/ RemoveEntry(url) \/ MoveEntry(url)
                             \/ DownloadEntry(url)
  BY <1>1, AddEntryIInv, RemoveEntryIInv, MoveEntryIInv, DownloadEntryIInv
<1>2. CASE ReadingListModelLoaded \/ CleanUpFiles \/ DownloadUnprocessedEntries
  BY <1>2, ReadingListModelLoadedIInv, CleanUpFilesIInv,
     DownloadUnprocessedEntriesIInv
<1>3. CASE Relaunch
  BY <1>3, RelaunchIInv
<1>4. CASE \E connection \in Connections : NetworkChanges(connection)
  BY <1>4, NetworkChangesIInv
<1>5. CASE ConnectionChanged
  BY <1>5, ConnectionChangedIInv
<1>6. CASE DownloaderStep \/ DownloadEnd
  BY <1>6, DownloaderStepIInv, DownloadEndIInv
<1>7. CASE UNCHANGED vars
  <2>1. UNCHANGED << downloaderVars, entries, sync >> /\ ServiceTypeOK'
    BY <1>7 DEF vars, serviceVars, IInv, ServiceTypeOK
  <2> QED
    BY <2>1, ServiceStep
<1> QED
  BY <1>1, <1>2, <1>3, <1>4, <1>5, <1>6, <1>7, Zenon DEF Next

LEMMA Inductive == Spec => []IInv
  BY InitIInv, NextIInv, PTL DEF Spec

(***************************************************************************)
(* Service and downloader keep to their types; no entry is given more than *)
(* StopAfter failures, though nothing caps the counter.                    *)
(***************************************************************************)
THEOREM ReadingListTypes == Spec => []TypeOK
<1>1. IInv => TypeOK
  BY DEF IInv, DInv, TypeOK
<1> QED
  BY <1>1, Inductive, PTL

(***************************************************************************)
(* The queue of the downloader stays in order, and its tasks are about the *)
(* URLs they were queued for.                                              *)
(***************************************************************************)
THEOREM TasksInTurn == Spec => []InTurn
<1>1. IInv => InTurn
  BY DEF IInv, DInv
<1> QED
  BY <1>1, Inductive, PTL

(***************************************************************************)
(* No download is queued of an entry that was removed or marked as read.   *)
(***************************************************************************)
THEOREM NoReadDownloads == Spec => []QueuedIsUnread
<1>1. IInv => QueuedIsUnread
  BY DEF IInv, Fine, QueuedIsUnread
<1> QED
  BY <1>1, Inductive, PTL

(***************************************************************************)
(* What a removed entry leaves on disk is on its way out, even if its      *)
(* download was under way or the application was launched meanwhile.       *)
(***************************************************************************)
THEOREM RemovedPagesAreDeleted == Spec => []RemovedPagesGo
<1>1. IInv => RemovedPagesGo
  BY DEF IInv, Fine, Swept, RemovedPagesGo
<1> QED
  BY <1>1, Inductive, PTL

-----------------------------------------------------------------------------
(* The downloader implements OfflinePages.                                 *)

LEMMA RemoveMaps ==
  ASSUME DInv, NEW url \in Urls, RemoveOfflineURL(url)
  PROVE  Pages!AskDelete(url)
  BY RemoveEffect DEF Pages!AskDelete

LEMMA DownloadMaps ==
  ASSUME DInv, NEW url \in Urls, DownloadOfflineURL(url)
  PROVE  Pages!AskDownload(url)
  BY DownloadEffect DEF Pages!AskDownload

LEMMA CancelMaps ==
  ASSUME DInv, NEW url \in Urls, CancelDownloadOfflineURL(url)
  PROVE  Pages!CallOff(url)
  BY CancelEffect DEF Pages!CallOff

LEMMA UnchangedMaps ==
  ASSUME DInv, UNCHANGED downloaderVars
  PROVE  UNCHANGED Pages!vars
  BY DownloaderUnchanged DEF Pages!vars

LEMMA InnerMaps ==
  ASSUME DInv, Inner
  PROVE  Pages!Next \/ UNCHANGED Pages!vars
<1> DEFINE stored == {u \in Urls : disk[u] # "none"}
<1>1. /\ {u \in Urls : Queued(Download(u))}' = {u \in Urls : Queued(Download(u))}
      /\ {u \in Urls : Started(u)}' = {u \in Urls : Started(u)}
      /\ {u \in Urls : Doomed(u)}' = {u \in Urls : Doomed(u)}
  BY DEF Inner
<1>2. CASE stored' = stored
  BY <1>1, <1>2 DEF Pages!vars
<1>3. CASE stored' # stored
  <2>1. PICK a \in Addresses, x \in Directories :
          /\ disk' = [disk EXCEPT ![a] = x]
          /\ a \in Urls => Started(a) \/ (Doomed(a) /\ x = "none")
    BY <1>3 DEF Inner, DiskStep
  <2>2. disk \in [Addresses -> Directories] /\ Urls \subseteq Addresses
    BY WorkType DEF Addresses
  <2>3. a \in Urls /\ (Started(a) \/ (Doomed(a) /\ x = "none"))
    BY <1>3, <2>1, <2>2
  <2>4. CASE x = "none"
    <3>1. stored' = stored \ {a}
      BY <2>1, <2>2, <2>3, <2>4
    <3>2. Pages!Discard(a)
      BY <1>1, <2>3, <3>1 DEF Pages!Discard
    <3> QED
      BY <2>3, <3>2, Zenon DEF Pages!Next
  <2>5. CASE x # "none"
    <3>1. stored' = stored \union {a}
      BY <2>1, <2>2, <2>3, <2>5
    <3>2. Pages!Store(a)
      BY <1>1, <2>3, <2>5, <3>1 DEF Pages!Store
    <3> QED
      BY <2>3, <3>2, Zenon DEF Pages!Next
  <2> QED
    BY <2>4, <2>5
<1> QED
  BY <1>2, <1>3

LEMMA TurnMaps ==
  ASSUME DInv, Turn
  PROVE  Pages!Next
<1> DEFINE ended == {u \in Urls : Started(u) /\ ~Started(u)'}
           deleted == {u \in Urls : Doomed(u) /\ ~Doomed(u)'}
           begun == {u \in Urls : Started(u)' /\ Queued(Download(u))}
<1>1. {u \in Urls : Queued(Download(u))}' = {u \in Urls : Queued(Download(u))} \ begun
  BY DEF Turn
<1>2. {u \in Urls : Started(u)}' = ({u \in Urls : Started(u)} \ ended) \union begun
  BY DEF Turn
<1>3. \A u \in Urls : Doomed(u)' => Doomed(u)
  BY DEF Turn, Doomed
<1>4. {u \in Urls : Doomed(u)}' = {u \in Urls : Doomed(u)} \ deleted
  BY <1>3
<1>5. begun \intersect ({u \in Urls : Doomed(u)} \ deleted) = {}
  BY DEF Turn
<1>6. deleted \intersect ({u \in Urls : disk[u] # "none"} \union {u \in Urls : Started(u)})
        = {}
  BY DEF Turn
<1>7. Pages!Proceed(ended, deleted, begun)
  BY <1>1, <1>2, <1>4, <1>5, <1>6 DEF Turn, Pages!Proceed
<1>8. /\ ended \in SUBSET {u \in Urls : Started(u)}
      /\ deleted \in SUBSET {u \in Urls : Doomed(u)}
      /\ begun \in SUBSET {u \in Urls : Queued(Download(u))}
  OBVIOUS
<1> HIDE DEF ended, deleted, begun
<1> QED
  BY <1>7, <1>8, Zenon DEF Pages!Next

LEMMA SweepMaps ==
  ASSUME IInv, CleanUpFiles
  PROVE  Pages!Next
<1>1. /\ disk' = [a \in Addresses |-> IF a \in sync.keep THEN disk[a] ELSE "none"]
      /\ UNCHANGED << tasks, work, pageVars >>
  BY DEF CleanUpFiles
<1>2. {u \in Urls : disk[u] # "none"}' \subseteq {u \in Urls : disk[u] # "none"}
  BY <1>1 DEF Addresses
<1>3. \A u \in Urls : /\ Queued(Download(u))' <=> Queued(Download(u))
                      /\ Started(u)' <=> Started(u)
                      /\ Doomed(u)' <=> Doomed(u)
  BY <1>1 DEF Queued, In, Started, Doomed, Delete, Download, pageVars
<1>4. Pages!Sweep
  BY <1>2, <1>3 DEF Pages!Sweep
<1> QED
  BY <1>4, Zenon DEF Pages!Next

LEMMA EndMaps ==
  ASSUME IInv, Relaunch
  PROVE  Pages!Next
<1>1. tasks' = << >> /\ work' = Idle /\ disk' = disk
  BY DEF Relaunch
<1>2. \A u \in Urls : ~Queued(Download(u))' /\ ~Queued(Delete(u))'
  <2>1. \A t : ~In(t, << >>)
    BY DEF In
  <2> QED
    BY <1>1, <2>1 DEF Queued
<1>3. work'.step = "idle"
  BY <1>1 DEF Idle
<1>4. \A u \in Urls : ~Started(u)' /\ ~Doomed(u)'
  BY <1>2, <1>3 DEF Started, Doomed, Deleting
<1>5. Pages!End
  BY <1>1, <1>2, <1>4 DEF Pages!End
<1> QED
  BY <1>5, Zenon DEF Pages!Next

LEMMA UrlMaps ==
  ASSUME IInv, NEW url \in Urls,
         \/ AddEntry(url) \/ RemoveEntry(url) \/ MoveEntry(url) \/ DownloadEntry(url)
  PROVE  Pages!Next \/ UNCHANGED Pages!vars
<1>1. DInv
  BY DEF IInv
<1>2. \/ RemoveOfflineURL(url) \/ CancelDownloadOfflineURL(url)
      \/ DownloadOfflineURL(url) \/ UNCHANGED downloaderVars
  <2>1. CASE AddEntry(url)
    BY <2>1 DEF AddEntry
  <2>2. CASE RemoveEntry(url)
    BY <2>2 DEF RemoveEntry
  <2>3. CASE MoveEntry(url)
    BY <2>3 DEF MoveEntry, ProcessNewEntry
  <2>4. CASE DownloadEntry(url)
    BY <2>4 DEF DownloadEntry, StartDownload, WaitForConnection, WaitForWifi
  <2> QED
    BY <2>1, <2>2, <2>3, <2>4
<1>3. \/ Pages!AskDelete(url) \/ Pages!CallOff(url) \/ Pages!AskDownload(url)
      \/ UNCHANGED Pages!vars
  BY <1>1, <1>2, RemoveMaps, CancelMaps, DownloadMaps, UnchangedMaps
<1> QED
  BY <1>3, Zenon DEF Pages!Next

LEMMA NextMaps == IInv /\ [Next]_vars => [Pages!Next]_(Pages!vars)
<1> SUFFICES ASSUME IInv, [Next]_vars
             PROVE  Pages!Next \/ UNCHANGED Pages!vars
  OBVIOUS
<1>1. DInv
  BY DEF IInv
<1>2. CASE \E url \in Urls : \/ AddEntry(url) \/ RemoveEntry(url) \/ MoveEntry(url)
                             \/ DownloadEntry(url)
  BY <1>2, UrlMaps
<1>3. CASE ReadingListModelLoaded \/ DownloadUnprocessedEntries
  <2>1. UNCHANGED downloaderVars
    BY <1>3 DEF ReadingListModelLoaded, DownloadUnprocessedEntries
  <2> QED
    BY <1>1, <2>1, UnchangedMaps
<1>4. CASE CleanUpFiles
  BY <1>4, SweepMaps
<1>5. CASE Relaunch
  BY <1>5, EndMaps
<1>6. CASE (\E connection \in Connections : NetworkChanges(connection)) \/ ConnectionChanged
  <2>1. UNCHANGED downloaderVars
    BY <1>6 DEF NetworkChanges, ConnectionChanged
  <2> QED
    BY <1>1, <2>1, UnchangedMaps
<1>7. CASE DownloaderStep
  <2>1. Inner \/ Turn
    BY <1>1, <1>7, BackgroundInner, DistillerInner, RepliesInner, DeleteTurn
       DEF Replies, DownloaderStep
  <2> QED
    BY <1>1, <2>1, InnerMaps, TurnMaps
<1>8. CASE DownloadEnd
  <2>1. Turn
    BY <1>1, <1>8, DownloadTurn DEF DownloadEnd
  <2> QED
    BY <1>1, <2>1, TurnMaps
<1>9. CASE UNCHANGED vars
  <2>1. UNCHANGED downloaderVars
    BY <1>9 DEF vars
  <2> QED
    BY <1>1, <2>1, UnchangedMaps
<1> QED
  BY <1>2, <1>3, <1>4, <1>5, <1>6, <1>7, <1>8, <1>9, Zenon DEF Next

LEMMA InitMaps == Init => Pages!Init
<1> SUFFICES ASSUME Init PROVE Pages!Init
  OBVIOUS
<1>1. IInv /\ tasks = << >> /\ work.step = "idle"
  BY InitIInv DEF Init, DownloaderInit, Idle
<1>2. \A u \in Urls : /\ ~Queued(Download(u)) /\ ~Started(u) /\ ~Doomed(u)
                      /\ disk[u] = "none"
  BY <1>1 DEF Queued, In, Started, Doomed, Deleting, Init, Addresses
<1> QED
  BY <1>2 DEF Pages!Init

(***************************************************************************)
(* Whatever the list, the network and the launches do, and whatever fails: *)
(* pages are stored by downloads that have begun only, no download begins  *)
(* before the deletions asked for earlier are over, and these are over     *)
(* only when nothing is left.                                              *)
(***************************************************************************)
THEOREM DownloaderImplementsPages == Spec => KeepsPagesPromise
<1>1. Init => Pages!Init
  BY InitMaps
<1>2. IInv /\ [Next]_vars => [Pages!Next]_(Pages!vars)
  BY NextMaps
<1> QED
  BY <1>1, <1>2, Inductive, PTL DEF Spec, Pages!Spec, KeepsPagesPromise


-----------------------------------------------------------------------------
(* The ordinary case: nothing schedules a download of an entry while one   *)
(* is scheduled or under way.  What an entry says, where its only download *)
(* is and what is on disk then go together.                                *)

\* A download that ends tells what is on disk; it is about one URL from its
\* start to its end, unless its page turned into a PDF after a redirection.
Exact ==
  /\ work.step = "saved" /\ work.ok => disk[original] = "page"
  /\ ~LatePdf =>
       /\ work.step \in Busy => work.url = original
       /\ work.step = "distill" /\ mime = "pdf" => distilled = original
       /\ work.step = "cleaned" => disk[original] = "none"
  /\ work.step = "checked" /\ work.ok => disk[work.url] # "none"

Resting == (\A u \in Urls : timers[u] = 0) /\ work.step = "idle"

\* Until the sweep is over, and while a change of the network is on its way,
\* there is no download; the change schedules one of an entry at most.
NothingMeanwhile ==
  /\ asked = 0 /\ Len(changes) <= 1
  /\ sync.phase # "done" => Resting
  /\ sync.phase = "cleaning" => sync.keep = InState({"PROCESSED"})
  /\ changes # << >> /\ tracker # "unknown" =>
       /\ sync.phase = "done" /\ Resting
       /\ \A u \in Urls : ToDownload(entries[u]) => Retries(Head(changes), 1)[u] <= 1

\* The download of "u" may have written to disk.
At(u) == work.step \in Busy /\ original = u

\* An entry has one download: a timer, a task in the queue or the one begun.
OneDownload(u) ==
  /\ timers[u] <= 1
  /\ timers[u] > 0 => ~Queued(Download(u)) /\ ~Started(u)
  /\ Queued(Download(u)) => ~Started(u) /\ entries[u].state = "PROCESSING"
  /\ Started(u) => \/ entries[u].state = "absent"
                   \/ entries[u].state = "PROCESSING" /\ ~Doomed(u)
  /\ Doomed(u) => entries[u].state \in {"absent", "WAITING", "PROCESSING"}

Stored(u) ==
  /\ entries[u].state = "PROCESSED" => disk[u] = "page"
  /\ /\ ~LatePdf
     /\ Present(u) /\ entries[u].state # "PROCESSED" /\ ~Doomed(u) /\ ~At(u)
     /\ sync.phase \in {"cleaned", "done"}
     => disk[u] = "none"
  /\ entries[u].state = "DISTILLATION_ERROR" => entries[u].fails = StopAfter

Orderly ==
  /\ Exact /\ NothingMeanwhile
  /\ \A u \in Urls : OneDownload(u) /\ Stored(u)

OrdinaryInv == IInv /\ (ordinary => Orderly)

\* What is asked of a URL that a step does not touch.
Untouched(u) ==
  /\ entries'[u] = entries[u] /\ timers'[u] = timers[u] /\ disk'[u] = disk[u]
  /\ Queued(Download(u))' <=> Queued(Download(u))
  /\ Started(u)' <=> Started(u)
  /\ Doomed(u)' <=> Doomed(u)
  /\ At(u)' <=> At(u)

LEMMA UntouchedKept ==
  ASSUME NEW u \in Urls, OneDownload(u), Stored(u), Untouched(u), sync' = sync
  PROVE  OneDownload(u)' /\ Stored(u)'
  BY DEF Untouched, OneDownload, Stored, Present

LEMMA NewTask ==
  ASSUME NEW q, HandleNextTask(q)
  PROVE  work'.step \in {"idle", "delete", "check"}
<1>1. CASE q = << >>
  BY <1>1 DEF HandleNextTask, Idle
<1>2. CASE q # << >>
  <2>1. \A s, url : Step(s, url, FALSE).step = s
    BY DEF Step
  <2> QED
    BY <1>2, <2>1 DEF HandleNextTask
<1> QED
  BY <1>1, <1>2

LEMMA NewTaskExact ==
  ASSUME NEW q, HandleNextTask(q)
  PROVE  Exact' /\ \A u : ~At(u)'
<1>1. work'.step \in {"idle", "delete", "check"}
  BY NewTask
<1>2. work'.step \notin Busy
  BY <1>1 DEF Busy
<1> QED
  BY <1>1, <1>2 DEF Exact, At

LEMMA HandleExact ==
  ASSUME Exact, NEW q, Handle(q), UNCHANGED << pageVars, disk >>
  PROVE  Exact' /\ \A u : At(u)' <=> At(u)
<1>1. CASE work.step = "idle"
  <2>1. HandleNextTask(q)
    BY <1>1 DEF Handle
  <2>2. \A u : ~At(u)
    BY <1>1 DEF At, Busy
  <2> QED
    BY <2>1, <2>2, NewTaskExact
<1>2. CASE work.step # "idle"
  <2>1. UNCHANGED << work, pageVars, disk >>
    BY <1>2 DEF Handle
  <2> QED
    BY <2>1 DEF Exact, At, pageVars
<1> QED
  BY <1>1, <1>2

\* The operations of the downloader do not disturb what is under way.
LEMMA OperationExact ==
  ASSUME Exact, NEW url,
         \/ RemoveOfflineURL(url) \/ DownloadOfflineURL(url)
         \/ CancelDownloadOfflineURL(url) \/ UNCHANGED downloaderVars
  PROVE  Exact' /\ \A u : At(u)' <=> At(u)
<1>1. CASE UNCHANGED << work, pageVars, disk >>
  BY <1>1 DEF Exact, At, pageVars
<1>2. CASE \E q : Handle(q) /\ UNCHANGED << pageVars, disk >>
  BY <1>2, HandleExact
<1>3. \/ UNCHANGED << work, pageVars, disk >>
      \/ \E q : Handle(q) /\ UNCHANGED << pageVars, disk >>
  BY DEF RemoveOfflineURL, DownloadOfflineURL, CancelDownloadOfflineURL,
         downloaderVars, pageVars
<1> QED
  BY <1>1, <1>2, <1>3

\* While there is a timer or a task, nothing is on its way that schedules.
LEMMA NotMeanwhile ==
  ASSUME NothingMeanwhile, ~Resting
  PROVE  /\ asked = 0 /\ sync.phase = "done"
         /\ changes = << >> \/ tracker = "unknown"
  BY DEF NothingMeanwhile

LEMMA SettledKept ==
  ASSUME ServiceTypeOK, NothingMeanwhile, sync.phase = "done",
         changes = << >> \/ tracker = "unknown", UNCHANGED << networkVars, sync >>
  PROVE  NothingMeanwhile'
  BY DEF NothingMeanwhile, networkVars

LEMMA ScheduledOnce ==
  ASSUME ServiceTypeOK, NEW url \in Urls, NEW list,
         timers' = Scheduled(list, Once({url}))
  PROVE  /\ \A u \in Urls \ {url} : timers'[u] = timers[u]
         /\ timers'[url] \in {timers[url], AtMost(timers[url] + 1)}
         /\ timers[url] = 0 => timers'[url] \in {0, 1}
<1>1. \A u \in Urls : timers[u] \in 0 .. MaxTimers
  BY DEF ServiceTypeOK
<1>2. \A u \in Urls : timers'[u] = IF ToDownload(list[u])
                                   THEN AtMost(timers[u] + Once({url})[u]) ELSE timers[u]
  BY DEF Scheduled
<1>3. \A u \in Urls : Once({url})[u] = IF u = url THEN 1 ELSE 0
  BY DEF Once
<1>4. \A n \in 0 .. MaxTimers : AtMost(n + 0) = n
  BY DEF AtMost
<1>5. AtMost(0 + 1) = 1
  BY DEF AtMost
<1>6. ASSUME NEW u \in Urls \ {url} PROVE timers'[u] = timers[u]
  BY <1>1, <1>2, <1>3, <1>4
<1>7. timers'[url] \in {timers[url], AtMost(timers[url] + 1)}
  BY <1>2, <1>3
<1> QED
  BY <1>5, <1>6, <1>7

\* With the downloader idle, no URL is queued or under way.
LEMMA RestingUrls ==
  ASSUME DInv, work.step = "idle", NEW u \in Urls
  PROVE  ~Queued(Download(u)) /\ ~Started(u) /\ ~Doomed(u) /\ ~At(u)
<1>1. tasks = << >>
  BY DEF DInv, InTurn
<1>2. \A t : ~In(t, tasks)
  BY <1>1 DEF In
<1> QED
  BY <1>2 DEF Queued, Started, Doomed, At, Deleting, Busy


\* A change of the reading list while all is settled.
LEMMA ListChangeSettled ==
  ASSUME IInv, Orderly, ListChanges, Settled
  PROVE  NothingMeanwhile'
<1>1. sync.phase = "done" /\ changes = << >>
  BY DEF Settled
<1>2. UNCHANGED << networkVars, sync >>
  BY DEF ListChanges
<1> QED
  BY <1>1, <1>2, SettledKept DEF IInv, Orderly

LEMMA AddEntryOrderly ==
  ASSUME IInv, ordinary, Orderly, NEW url \in Urls, AddEntry(url)
  PROVE  Orderly'
<1>1. /\ ListChanges /\ entries' = [entries EXCEPT ![url] = NewEntry]
      /\ timers' = Scheduled([entries EXCEPT ![url] = NewEntry], Once({url}))
      /\ IF Present(url) THEN RemoveOfflineURL(url) ELSE UNCHANGED downloaderVars
      /\ Settled /\ Quiet(url)
  BY DEF AddEntry, MayChange
<1>2. DInv /\ ServiceTypeOK /\ TriesLeft /\ Exact
      /\ \A u \in Urls : Fine(u) /\ OneDownload(u) /\ Stored(u)
  BY DEF IInv, Orderly
<1>3. sync' = sync /\ sync.phase = "done"
  BY <1>1 DEF ListChanges, Settled
<1>4. /\ entries'[url].state = "WAITING"
      /\ \A u \in Urls \ {url} : entries'[u] = entries[u]
  <2>1. entries \in [Urls -> Entries \union {Absent}]
    BY <1>2 DEF ServiceTypeOK
  <2> QED
    BY <1>1, <2>1 DEF NewEntry
<1>5. Exact' /\ \A u : At(u)' <=> At(u)
  BY <1>1, <1>2, OperationExact
<1>6. /\ disk' = disk
      /\ \A u \in Urls : /\ Started(u)' <=> Started(u)
                         /\ Queued(Download(u))' => Queued(Download(u))
                         /\ u # url => /\ Queued(Download(u))' <=> Queued(Download(u))
                                       /\ Doomed(u)' <=> Doomed(u)
      /\ Present(url) => Doomed(url)'
      /\ ~Present(url) => (Doomed(url)' <=> Doomed(url))
  BY <1>1, <1>2, RemoveEffect, DownloaderUnchanged
<1>7. /\ \A u \in Urls \ {url} : timers'[u] = timers[u]
      /\ timers'[url] \in {0, 1}
  BY <1>1, <1>2, ScheduledOnce DEF Quiet
<1>8. OneDownload(url)'
  <2>1. ~Queued(Download(url))' /\ ~Started(url)'
    BY <1>1, <1>6 DEF Quiet, InProgress
  <2> QED
    BY <1>4, <1>7, <2>1 DEF OneDownload
<1>9. Stored(url)'
  <2>1. ~Doomed(url)' => disk'[url] = "none"
    BY <1>2, <1>3, <1>6 DEF Fine, Swept
  <2> QED
    BY <1>4, <2>1 DEF Stored
<1>10. ASSUME NEW u \in Urls, u # url PROVE OneDownload(u)' /\ Stored(u)'
  <2>1. Untouched(u)
    BY <1>4, <1>5, <1>6, <1>7, <1>10 DEF Untouched
  <2> QED
    BY <1>2, <1>3, <2>1, UntouchedKept
<1>11. NothingMeanwhile'
  BY <1>1, ListChangeSettled
<1> QED
  BY <1>5, <1>8, <1>9, <1>10, <1>11 DEF Orderly

LEMMA RemoveEntryOrderly ==
  ASSUME IInv, ordinary, Orderly, NEW url \in Urls, RemoveEntry(url)
  PROVE  Orderly'
<1>1. /\ ListChanges /\ entries' = [entries EXCEPT ![url] = Absent]
      /\ timers' = timers /\ RemoveOfflineURL(url) /\ Settled
  BY DEF RemoveEntry, SetEntry, MayChange
<1>2. DInv /\ ServiceTypeOK /\ Exact
      /\ \A u \in Urls : OneDownload(u) /\ Stored(u)
  BY DEF IInv, Orderly
<1>3. sync' = sync
  BY <1>1 DEF ListChanges
<1>4. /\ entries'[url].state = "absent"
      /\ \A u \in Urls \ {url} : entries'[u] = entries[u]
  <2>1. entries \in [Urls -> Entries \union {Absent}]
    BY <1>2 DEF ServiceTypeOK
  <2> QED
    BY <1>1, <2>1 DEF Absent
<1>5. Exact' /\ \A u : At(u)' <=> At(u)
  BY <1>1, <1>2, OperationExact
<1>6. /\ disk' = disk
      /\ \A u \in Urls : /\ Started(u)' <=> Started(u)
                         /\ Queued(Download(u))' <=> Queued(Download(u)) /\ u # url
                         /\ Doomed(u)' <=> Doomed(u) \/ u = url
  BY <1>1, <1>2, RemoveEffect
<1>7. OneDownload(url)' /\ Stored(url)'
  BY <1>1, <1>2, <1>4, <1>6 DEF OneDownload, Stored, Present
<1>8. ASSUME NEW u \in Urls, u # url PROVE OneDownload(u)' /\ Stored(u)'
  <2>1. Untouched(u)
    BY <1>1, <1>4, <1>5, <1>6, <1>8 DEF Untouched
  <2> QED
    BY <1>2, <1>3, <2>1, UntouchedKept
<1>9. NothingMeanwhile'
  BY <1>1, ListChangeSettled
<1> QED
  BY <1>5, <1>7, <1>8, <1>9 DEF Orderly

LEMMA MoveEntryOrderly ==
  ASSUME IInv, ordinary, Orderly, NEW url \in Urls, MoveEntry(url)
  PROVE  Orderly'
<1> DEFINE list == [entries EXCEPT ![url].read = ~@]
<1>1. /\ ListChanges /\ Present(url) /\ entries' = list
      /\ ProcessNewEntry(url, list)
      /\ Settled /\ (entries[url].read => Quiet(url))
  BY DEF MoveEntry, MayChange
<1>2. DInv /\ ServiceTypeOK /\ Exact
      /\ \A u \in Urls : OneDownload(u) /\ Stored(u)
  BY DEF IInv, Orderly
<1>3. sync' = sync
  BY <1>1 DEF ListChanges
<1>4. /\ list[url].read = ~entries[url].read /\ list[url].state = entries[url].state
      /\ list[url].fails = entries[url].fails
      /\ \A u \in Urls \ {url} : list[u] = entries[u]
  <2>1. entries \in [Urls -> Entries \union {Absent}] /\ entries[url] \in Entries
    BY <1>1, <1>2, EntryTypes DEF ServiceTypeOK
  <2> QED
    BY <2>1 DEF Entries
<1> HIDE DEF list
<1>5. CASE list[url].read \/ list[url].state = "absent"
  <2>1. CancelDownloadOfflineURL(url) /\ timers' = timers
    BY <1>1, <1>5 DEF ProcessNewEntry
  <2>2. Exact' /\ \A u : At(u)' <=> At(u)
    BY <1>2, <2>1, OperationExact
  <2>3. /\ disk' = disk
        /\ \A u \in Urls : /\ Started(u)' <=> Started(u)
                           /\ Queued(Download(u))' <=> Queued(Download(u)) /\ u # url
                           /\ Doomed(u)' <=> Doomed(u)
    BY <1>2, <2>1, CancelEffect
  <2>4. OneDownload(url)' /\ Stored(url)'
    BY <1>1, <1>2, <1>3, <1>4, <2>1, <2>2, <2>3 DEF OneDownload, Stored, Present
  <2>5. ASSUME NEW u \in Urls, u # url PROVE OneDownload(u)' /\ Stored(u)'
    <3>1. Untouched(u)
      BY <1>1, <1>4, <2>1, <2>2, <2>3, <2>5 DEF Untouched
    <3> QED
      BY <1>2, <1>3, <3>1, UntouchedKept
  <2>6. NothingMeanwhile'
    BY <1>1, ListChangeSettled
  <2> QED
    BY <2>2, <2>4, <2>5, <2>6 DEF Orderly
<1>6. CASE ~(list[url].read \/ list[url].state = "absent")
  <2>1. timers' = Scheduled(list, Once({url})) /\ UNCHANGED downloaderVars
    BY <1>1, <1>6 DEF ProcessNewEntry
  <2>2. Quiet(url)
    BY <1>1, <1>4, <1>6
  <2>3. Exact' /\ \A u : At(u)' <=> At(u)
    BY <1>2, <2>1, OperationExact
  <2>4. /\ disk' = disk
        /\ \A u \in Urls : /\ Started(u)' <=> Started(u)
                           /\ Queued(Download(u))' <=> Queued(Download(u))
                           /\ Doomed(u)' <=> Doomed(u)
    BY <1>2, <2>1, DownloaderUnchanged
  <2>5. /\ \A u \in Urls \ {url} : timers'[u] = timers[u]
        /\ timers'[url] \in {0, 1}
    BY <1>2, <2>1, <2>2, ScheduledOnce DEF Quiet
  <2>6. OneDownload(url)' /\ Stored(url)'
    BY <1>1, <1>2, <1>3, <1>4, <2>2, <2>3, <2>4, <2>5
       DEF OneDownload, Stored, Present, Quiet, InProgress
  <2>7. ASSUME NEW u \in Urls, u # url PROVE OneDownload(u)' /\ Stored(u)'
    <3>1. Untouched(u)
      BY <1>1, <1>4, <2>3, <2>4, <2>5, <2>7 DEF Untouched
    <3> QED
      BY <1>2, <1>3, <3>1, UntouchedKept
  <2>8. NothingMeanwhile'
    BY <1>1, ListChangeSettled
  <2> QED
    BY <2>3, <2>6, <2>7, <2>8 DEF Orderly
<1> QED
  BY <1>5, <1>6

LEMMA ReadingListModelLoadedOrderly ==
  ASSUME IInv, ordinary, Orderly, ReadingListModelLoaded
  PROVE  Orderly'
<1>1. /\ sync.phase = "loading" /\ entries' = entries /\ timers' = timers
      /\ sync' = [phase |-> "cleaning", keep |-> InState({"PROCESSED"}),
                  todo |-> InState(Unfinished)]
      /\ UNCHANGED << downloaderVars, listVars, networkVars >>
  BY DEF ReadingListModelLoaded
<1>2. DInv /\ Exact /\ NothingMeanwhile /\ \A u \in Urls : OneDownload(u) /\ Stored(u)
  BY DEF IInv, Orderly
<1>3. Exact' /\ \A u : At(u)' <=> At(u)
  BY <1>1, <1>2, OperationExact
<1>4. /\ disk' = disk
      /\ \A u \in Urls : /\ Started(u)' <=> Started(u)
                         /\ Queued(Download(u))' <=> Queued(Download(u))
                         /\ Doomed(u)' <=> Doomed(u)
  BY <1>1, <1>2, DownloaderUnchanged
<1>5. \A u \in Urls : OneDownload(u)' /\ Stored(u)'
  BY <1>1, <1>2, <1>3, <1>4 DEF OneDownload, Stored
<1>6. NothingMeanwhile'
  <2>1. Resting /\ asked = 0 /\ Len(changes) <= 1
        /\ ~(changes # << >> /\ tracker # "unknown")
    BY <1>1, <1>2 DEF NothingMeanwhile
  <2>2. Resting'
    BY <1>1, <2>1 DEF Resting, downloaderVars
  <2>3. sync'.keep = InState({"PROCESSED"})'
    BY <1>1 DEF InState
  <2>4. asked' = asked /\ changes' = changes /\ tracker' = tracker
    BY <1>1 DEF networkVars
  <2> QED
    BY <2>1, <2>2, <2>3, <2>4 DEF NothingMeanwhile
<1> QED
  BY <1>3, <1>5, <1>6 DEF Orderly

LEMMA CleanUpFilesOrderly ==
  ASSUME IInv, ordinary, Orderly, CleanUpFiles
  PROVE  Orderly'
<1>1. /\ sync.phase = "cleaning" /\ entries' = entries /\ timers' = timers
      /\ disk' = [a \in Addresses |-> IF a \in sync.keep THEN disk[a] ELSE "none"]
      /\ sync' = [sync EXCEPT !.phase = "cleaned"]
      /\ UNCHANGED << tasks, work, pageVars, listVars, networkVars >>
  BY DEF CleanUpFiles
<1>2. DInv /\ NothingMeanwhile /\ \A u \in Urls : OneDownload(u) /\ Stored(u)
  BY DEF IInv, Orderly
<1>3. /\ Resting /\ sync.keep = InState({"PROCESSED"}) /\ asked = 0 /\ Len(changes) <= 1
      /\ ~(changes # << >> /\ tracker # "unknown")
  BY <1>1, <1>2 DEF NothingMeanwhile
<1>4. sync'.phase = "cleaned"
  BY <1>1 DEF IInv, ServiceTypeOK, Syncs
<1>5. Resting' /\ work'.step = "idle"
  BY <1>1, <1>3 DEF Resting
<1>6. Exact' /\ \A u : ~At(u)'
  BY <1>5 DEF Exact, At, Busy
<1>7. \A u \in Urls : /\ Started(u)' <=> Started(u)
                      /\ Queued(Download(u))' <=> Queued(Download(u))
                      /\ Doomed(u)' <=> Doomed(u)
  BY <1>1 DEF Queued, In, Started, Doomed, Delete, Download, pageVars
<1>8. ASSUME NEW u \in Urls PROVE OneDownload(u)' /\ Stored(u)'
  <2>1. disk'[u] = IF entries[u].state = "PROCESSED" THEN disk[u] ELSE "none"
    BY <1>1, <1>3 DEF InState, Addresses
  <2> QED
    BY <1>1, <1>2, <1>7, <2>1 DEF OneDownload, Stored
<1>9. NothingMeanwhile'
  <2>1. asked' = asked /\ changes' = changes /\ tracker' = tracker
    BY <1>1 DEF networkVars
  <2> QED
    BY <1>3, <1>4, <1>5, <2>1 DEF NothingMeanwhile
<1> QED
  BY <1>6, <1>8, <1>9 DEF Orderly


\* From rest, each entry is scheduled once at most.
LEMMA ScheduledFromRest ==
  ASSUME DInv, ServiceTypeOK, Resting, UNCHANGED << downloaderVars, entries >>,
         NEW times \in [Urls -> Nat],
         \A u \in Urls : ToDownload(entries[u]) => times[u] <= 1,
         timers' = Scheduled(entries, times),
         NEW u \in Urls, OneDownload(u)
  PROVE  OneDownload(u)'
<1>1. timers'[u] = IF ToDownload(entries[u]) THEN AtMost(timers[u] + times[u])
                   ELSE timers[u]
  BY DEF Scheduled
<1>2. timers[u] = 0 /\ times[u] \in Nat
  BY DEF Resting
<1>3. timers'[u] <= 1
  BY <1>1, <1>2 DEF AtMost
<1>4. ~Queued(Download(u)) /\ ~Started(u) /\ ~Doomed(u)
  BY RestingUrls DEF Resting
<1>5. ~Queued(Download(u))' /\ ~Started(u)' /\ ~Doomed(u)'
  BY <1>4, DownloaderUnchanged
<1> QED
  BY <1>3, <1>5 DEF OneDownload

LEMMA DownloadUnprocessedEntriesOrderly ==
  ASSUME IInv, ordinary, Orderly, DownloadUnprocessedEntries
  PROVE  Orderly'
<1>1. /\ sync.phase = "cleaned" /\ entries' = entries
      /\ timers' = Scheduled(entries, Once(sync.todo))
      /\ sync' = [phase |-> "done", keep |-> {}, todo |-> {}]
      /\ UNCHANGED << downloaderVars, listVars, networkVars >>
  BY DEF DownloadUnprocessedEntries
<1>2. DInv /\ ServiceTypeOK /\ Exact /\ NothingMeanwhile
      /\ \A u \in Urls : OneDownload(u) /\ Stored(u)
  BY DEF IInv, Orderly
<1>3. /\ Resting /\ asked = 0 /\ Len(changes) <= 1
      /\ ~(changes # << >> /\ tracker # "unknown")
  BY <1>1, <1>2 DEF NothingMeanwhile
<1>4. Exact' /\ \A u : At(u)' <=> At(u)
  BY <1>1, <1>2, OperationExact
<1>5. /\ disk' = disk
      /\ \A u \in Urls : Doomed(u)' <=> Doomed(u)
  BY <1>1, <1>2, DownloaderUnchanged
<1>6. ASSUME NEW u \in Urls PROVE OneDownload(u)'
  <2>1. Once(sync.todo) \in [Urls -> Nat] /\ \A w \in Urls : Once(sync.todo)[w] <= 1
    BY DEF Once
  <2> QED
    BY <1>1, <1>2, <1>3, <2>1, ScheduledFromRest
<1>7. ASSUME NEW u \in Urls PROVE Stored(u)'
  BY <1>1, <1>2, <1>4, <1>5 DEF Stored, Present
<1>8. NothingMeanwhile'
  <2>1. asked' = asked /\ changes' = changes /\ tracker' = tracker
    BY <1>1 DEF networkVars
  <2> QED
    BY <1>1, <1>3, <2>1 DEF NothingMeanwhile
<1> QED
  BY <1>4, <1>6, <1>7, <1>8 DEF Orderly

LEMMA RelaunchOrderly ==
  ASSUME IInv, ordinary, Orderly, Relaunch
  PROVE  Orderly'
<1>1. /\ tasks' = << >> /\ work' = Idle /\ disk' = disk /\ entries' = entries
      /\ timers' = [url \in Urls |-> 0] /\ tracker' = "unknown" /\ asked' = 0
      /\ changes' = << network >>
      /\ sync' = [phase |-> "loading", keep |-> {}, todo |-> {}]
  BY DEF Relaunch, Launched
<1>2. work'.step = "idle"
  BY <1>1 DEF Idle
<1>3. Resting'
  BY <1>1, <1>2 DEF Resting
<1>4. Exact' /\ \A u : ~At(u)'
  BY <1>2 DEF Exact, At, Busy
<1>5. NothingMeanwhile'
  BY <1>1, <1>3 DEF NothingMeanwhile
<1>6. ASSUME NEW u \in Urls PROVE OneDownload(u)' /\ Stored(u)'
  <2>1. ~Queued(Download(u))' /\ ~Started(u)' /\ ~Doomed(u)'
    BY <1>1, <1>2 DEF Queued, In, Started, Doomed, Deleting
  <2>2. OneDownload(u)'
    BY <1>1, <2>1 DEF OneDownload
  <2>3. Stored(u)'
    BY <1>1 DEF Orderly, Stored
  <2> QED
    BY <2>2, <2>3
<1> QED
  BY <1>4, <1>5, <1>6 DEF Orderly

LEMMA NetworkChangesOrderly ==
  ASSUME IInv, ordinary, Orderly, NEW connection \in Connections,
         NetworkChanges(connection)
  PROVE  Orderly'
<1>1. /\ changes' = Append(changes, connection)
      /\ UNCHANGED << downloaderVars, entries, timers, listVars, tracker, asked, sync >>
      /\ changes = << >> /\ sync.phase = "done"
      /\ \A url \in Urls :
           Quiet(url) /\ (ToDownload(entries[url]) => Retries(connection, 1)[url] <= 1)
  BY DEF NetworkChanges, Settled
<1>2. DInv /\ Exact /\ NothingMeanwhile /\ \A u \in Urls : OneDownload(u) /\ Stored(u)
  BY DEF IInv, Orderly
<1>3. work.step = "idle"
  <2>1. \A u \in Urls : ~InProgress(u)
    BY <1>1 DEF Quiet
  <2>2. work.step \notin Deleting \union {"check", "checked"}
    BY <1>2, <2>1 DEF DInv, InTurn, InProgress, Started
  <2>3. work.step \notin Busy
    BY <1>2, <2>1, WorkType DEF InProgress
  <2> QED
    BY <1>2, <2>2, <2>3, WorkType DEF Busy, Deleting
<1>4. Exact' /\ \A u : At(u)' <=> At(u)
  BY <1>1, <1>2, OperationExact
<1>5. ASSUME NEW u \in Urls PROVE OneDownload(u)' /\ Stored(u)'
  <2>1. Untouched(u)
    BY <1>1, <1>2, <1>4, DownloaderUnchanged DEF Untouched
  <2> QED
    BY <1>1, <1>2, <2>1, UntouchedKept
<1>6. NothingMeanwhile'
  <2>1. Resting'
    BY <1>1, <1>3 DEF Resting, Quiet, downloaderVars
  <2>2. changes' = << connection >> /\ Head(changes') = connection /\ Len(changes') = 1
    BY <1>1
  <2>3. \A u \in Urls : Retries(connection, 1)'[u] = Retries(connection, 1)[u]
    BY <1>1 DEF Retries, listVars
  <2>4. \A u \in Urls : ToDownload(entries'[u]) => Retries(Head(changes), 1)'[u] <= 1
    BY <1>1, <2>2, <2>3 DEF Retries
  <2> QED
    BY <1>1, <1>2, <2>1, <2>2, <2>4 DEF NothingMeanwhile
<1> QED
  BY <1>4, <1>5, <1>6 DEF Orderly

LEMMA ConnectionChangedOrderly ==
  ASSUME IInv, ordinary, Orderly, ConnectionChanged
  PROVE  Orderly'
<1>1. PICK n \in DOMAIN changes :
        /\ changes' = SubSeq(changes, n + 1, Len(changes)) /\ asked' = 0
        /\ \/ tracker # "unknown" /\ OnConnectionChanged(changes[n], 1)
           \/ tracker = "unknown" /\ asked > 0
           \/ /\ tracker = "unknown" /\ ~(asked > 0)
              /\ UNCHANGED << timers, hadConnection >>
        /\ UNCHANGED << downloaderVars, entries, cellularList, wifiList, sync >>
  BY Zenon DEF ConnectionChanged
<1>2. DInv /\ ServiceTypeOK /\ Exact /\ NothingMeanwhile
      /\ \A u \in Urls : OneDownload(u) /\ Stored(u)
  BY DEF IInv, Orderly
<1>3. /\ asked = 0 /\ Len(changes) <= 1
      /\ changes # << >> /\ changes[n] = Head(changes) /\ changes' = << >>
  <2>1. asked = 0 /\ Len(changes) <= 1
    BY <1>2 DEF NothingMeanwhile
  <2>2. changes \in Seq(Connections) /\ n \in 1 .. Len(changes)
    BY <1>2 DEF ServiceTypeOK
  <2>3. n = 1 /\ Len(changes) = 1
    <3> DEFINE k == Len(changes)
    <3>1. k \in Nat /\ n \in 1 .. k /\ k <= 1
      BY <2>1, <2>2
    <3> HIDE DEF k
    <3>2. n = 1 /\ k = 1
      BY <3>1
    <3> QED
      BY <3>2 DEF k
  <2> QED
    BY <1>1, <2>1, <2>2, <2>3
<1>4. Exact' /\ \A u : At(u)' <=> At(u)
  BY <1>1, <1>2, OperationExact
<1>5. /\ disk' = disk
      /\ \A u \in Urls : /\ Queued(Download(u))' <=> Queued(Download(u))
                         /\ Started(u)' <=> Started(u)
                         /\ Doomed(u)' <=> Doomed(u)
  BY <1>1, <1>2, DownloaderUnchanged
<1>6. \A u \in Urls : Stored(u)'
  BY <1>1, <1>2, <1>4, <1>5 DEF Stored, Present
<1>7. CASE tracker = "unknown"
  <2>1. timers' = timers
    BY <1>1, <1>3, <1>7
  <2>2. \A u \in Urls : OneDownload(u)'
    BY <1>1, <1>2, <1>5, <2>1 DEF OneDownload
  <2>3. Resting' <=> Resting
    BY <1>1, <2>1 DEF Resting, downloaderVars
  <2>4. sync'.phase = "cleaning" => sync'.keep = InState({"PROCESSED"})'
    BY <1>1, <1>2 DEF NothingMeanwhile, InState
  <2>5. NothingMeanwhile'
    BY <1>1, <1>2, <1>3, <2>3, <2>4 DEF NothingMeanwhile
  <2> QED
    BY <1>4, <1>6, <2>2, <2>5 DEF Orderly
<1>8. CASE tracker # "unknown"
  <2> DEFINE times == Retries(Head(changes), 1)
  <2>1. timers' = Scheduled(entries, times)
    BY <1>1, <1>3, <1>8 DEF OnConnectionChanged
  <2>2. times \in [Urls -> Nat]
    BY <1>2, RetriesType
  <2>3. /\ Resting /\ sync.phase = "done"
        /\ \A u \in Urls : ToDownload(entries[u]) => times[u] <= 1
    BY <1>2, <1>3, <1>8 DEF NothingMeanwhile
  <2> HIDE DEF times
  <2>4. \A u \in Urls : OneDownload(u)'
    BY <1>1, <1>2, <2>1, <2>2, <2>3, ScheduledFromRest
  <2>5. NothingMeanwhile'
    BY <1>1, <1>3, <2>3 DEF NothingMeanwhile
  <2> QED
    BY <1>4, <1>6, <2>4, <2>5 DEF Orderly
<1> QED
  BY <1>7, <1>8

LEMMA DownloadEntryOrderly ==
  ASSUME IInv, ordinary, Orderly, NEW url \in Urls, DownloadEntry(url)
  PROVE  Orderly'
<1>1. /\ timers[url] > 0 /\ timers' = [timers EXCEPT ![url] = @ - 1]
      /\ tracker # "unknown"
      /\ UNCHANGED << tracker, changes, sync >>
  BY DEF DownloadEntry
<1>2. DInv /\ ServiceTypeOK /\ TriesLeft /\ Exact /\ NothingMeanwhile
      /\ \A u \in Urls : OneDownload(u) /\ Stored(u)
  BY DEF IInv, Orderly
<1>3. /\ timers'[url] = 0 /\ ~Queued(Download(url)) /\ ~Started(url)
      /\ \A u \in Urls \ {url} : timers'[u] = timers[u]
  <2>1. timers \in [Urls -> 0 .. MaxTimers] /\ timers[url] <= 1
    BY <1>2 DEF ServiceTypeOK, OneDownload
  <2> QED
    BY <1>1, <1>2, <2>1 DEF OneDownload
<1>4. asked = 0 /\ sync.phase = "done" /\ changes = << >>
  <2>1. ~Resting
    BY <1>1 DEF Resting
  <2> QED
    BY <1>1, <1>2, <2>1, NotMeanwhile
<1>5. NothingMeanwhile'
  <2>1. asked' = asked
    BY <1>1 DEF DownloadEntry, StartDownload, WaitForConnection, WaitForWifi
  <2> QED
    BY <1>1, <1>4, <2>1 DEF NothingMeanwhile
<1>6. \/ UNCHANGED << downloaderVars, entries >>
      \/ ToDownload(entries[url]) /\ StartDownload(url)
  BY DEF DownloadEntry, WaitForConnection, WaitForWifi
<1>7. CASE UNCHANGED << downloaderVars, entries >>
  <2>1. Exact' /\ \A u : At(u)' <=> At(u)
    BY <1>2, <1>7, OperationExact
  <2>2. /\ disk' = disk /\ entries' = entries
        /\ \A u \in Urls : /\ Queued(Download(u))' <=> Queued(Download(u))
                           /\ Started(u)' <=> Started(u)
                           /\ Doomed(u)' <=> Doomed(u)
    BY <1>2, <1>7, DownloaderUnchanged
  <2>3. \A u \in Urls : timers'[u] = timers[u] \/ timers'[u] = 0
    BY <1>3
  <2>4. \A u \in Urls : OneDownload(u)'
    BY <1>2, <2>2, <2>3 DEF OneDownload
  <2>5. \A u \in Urls : Stored(u)'
    BY <1>1, <1>2, <2>1, <2>2 DEF Stored, Present
  <2> QED
    BY <1>5, <2>1, <2>4, <2>5 DEF Orderly
<1>8. CASE ToDownload(entries[url]) /\ StartDownload(url)
  <2> DEFINE f == WithState(entries[url], "PROCESSING")
  <2>1. entries' = [entries EXCEPT ![url] = f] /\ DownloadOfflineURL(url)
    BY <1>8 DEF StartDownload, SetEntry
  <2>2. /\ entries'[url].state = "PROCESSING"
        /\ \A u \in Urls \ {url} : entries'[u] = entries[u]
    <3>1. entries \in [Urls -> Entries \union {Absent}] /\ f.state = "PROCESSING"
      BY <1>2 DEF ServiceTypeOK, WithState
    <3> QED
      BY <2>1, <3>1
  <2>3. Exact' /\ \A u : At(u)' <=> At(u)
    BY <1>2, <2>1, OperationExact
  <2>4. /\ disk' = disk
        /\ \A u \in Urls : Doomed(u)' <=> Doomed(u)
        /\ \/ \A u \in Urls : /\ Queued(Download(u))' <=> Queued(Download(u)) \/ u = url
                              /\ Started(u)' <=> Started(u)
           \/ /\ ~Doomed(url)
              /\ \A u \in Urls : /\ Queued(Download(u))' <=> Queued(Download(u))
                                 /\ Started(u)' <=> Started(u) \/ u = url
    BY <1>2, <2>1, DownloadEffect
  <2>5. OneDownload(url)'
    BY <1>3, <2>2, <2>4 DEF OneDownload
  <2>6. Stored(url)'
    <3>1. Present(url) /\ entries[url].state # "PROCESSED"
      BY <1>8 DEF ToDownload, Unfinished, Present
    <3> QED
      BY <1>1, <1>2, <2>2, <2>3, <2>4, <3>1 DEF Stored
  <2>7. ASSUME NEW u \in Urls, u # url PROVE OneDownload(u)' /\ Stored(u)'
    <3>1. Untouched(u)
      BY <1>3, <2>2, <2>3, <2>4, <2>7 DEF Untouched
    <3> QED
      BY <1>1, <1>2, <3>1, UntouchedKept
  <2> QED
    BY <1>5, <2>3, <2>5, <2>6, <2>7 DEF Orderly
<1> QED
  BY <1>6, <1>7, <1>8


\* What the steps within a task write to disk is the download's, or nothing.
Staying ==
  /\ disk \in [Addresses -> Directories] =>
       \A u \in Urls : disk'[u] # disk[u] => At(u) \/ disk'[u] = "none"
  /\ \A u \in Urls : At(u) => At(u)'

LEMMA BackgroundExact ==
  ASSUME DInv, Exact, Background
  PROVE  Exact' /\ Staying
<1>1. /\ work \in Works /\ work.url \in Addresses /\ original \in Addresses
      /\ disk \in [Addresses -> Directories]
      /\ original' = original /\ distilled' = distilled /\ mime' = mime
  BY WorkType DEF DInv, DownloaderTypeOK, Background, DeleteDirectory,
     OfflinePathExists, CreateOfflineURLDirectory, SavePage, CleanUpDownload,
     BackgroundStep, pageVars
<1>2. \A s : /\ [work EXCEPT !.step = s].step = s
             /\ [work EXCEPT !.step = s].url = work.url
  BY <1>1 DEF Works
<1>3. CASE DeleteDirectory
  <2>1. /\ work.step = "delete" /\ work'.step = "deleted"
        /\ disk' = [disk EXCEPT ![work.url] = "none"]
    BY <1>2, <1>3 DEF DeleteDirectory, BackgroundStep
  <2>2. Exact'
    BY <2>1 DEF Exact, Busy
  <2>3. Staying
    BY <1>1, <2>1 DEF Staying, At, Busy
  <2> QED
    BY <2>2, <2>3
<1>4. CASE OfflinePathExists
  <2>1. /\ work.step = "check" /\ disk' = disk
        /\ work'.step = "checked" /\ work'.url = work.url
        /\ work'.ok = (disk[work.url] # "none")
    BY <1>4 DEF OfflinePathExists, BackgroundStep, Step
  <2>2. Exact'
    BY <2>1 DEF Exact, Busy
  <2>3. Staying
    BY <2>1 DEF Staying, At, Busy
  <2> QED
    BY <2>2, <2>3
<1>5. CASE CreateOfflineURLDirectory
  <2>1. /\ work.step = "create" /\ work'.url = work.url
        /\ \/ work'.step = "write"
           \/ work'.step = "saved" /\ work'.ok = FALSE
        /\ \A a \in Addresses \ {original} : disk'[a] = disk[a]
    <3>1. CASE BackgroundStep("create", [work EXCEPT !.step = "write"],
                 [disk EXCEPT ![original] = IF @ = "page" THEN @ ELSE "partial"])
      BY <1>1, <1>2, <3>1 DEF BackgroundStep
    <3>2. CASE BackgroundStep("create", Step("saved", work.url, FALSE), disk)
      BY <3>2 DEF BackgroundStep, Step
    <3> QED
      BY <1>5, <3>1, <3>2 DEF CreateOfflineURLDirectory
  <2>2. ~LatePdf => work.url = original
    BY <2>1 DEF Exact, Busy, Steps
  <2>3. Exact'
    BY <1>1, <2>1, <2>2 DEF Exact
  <2>4. work.step \in Busy /\ work'.step \in Busy
    BY <2>1 DEF Busy, Steps
  <2>5. Staying
    BY <1>1, <2>1, <2>4 DEF Staying, At, Addresses
  <2> QED
    BY <2>3, <2>5
<1>6. CASE SavePage
  <2>1. /\ work.step = "write" /\ work'.url = work.url /\ work'.step = "saved"
        /\ \A a \in Addresses \ {original} : disk'[a] = disk[a]
        /\ work'.ok = FALSE \/ disk'[original] = "page"
    <3>1. CASE BackgroundStep("write", Step("saved", work.url, TRUE),
                              [disk EXCEPT ![original] = "page"])
      BY <1>1, <3>1 DEF BackgroundStep, Step
    <3>2. CASE BackgroundStep("write", Step("saved", work.url, FALSE), disk)
      BY <3>2 DEF BackgroundStep, Step
    <3> QED
      BY <1>6, <3>1, <3>2 DEF SavePage
  <2>2. ~LatePdf => work.url = original
    BY <2>1 DEF Exact, Busy, Steps
  <2>3. Exact'
    BY <1>1, <2>1, <2>2 DEF Exact
  <2>4. work.step \in Busy /\ work'.step \in Busy
    BY <2>1 DEF Busy, Steps
  <2>5. Staying
    BY <1>1, <2>1, <2>4 DEF Staying, At, Addresses
  <2> QED
    BY <2>3, <2>5
<1>7. CASE CleanUpDownload
  <2>1. /\ work.step = "clean" /\ work'.step = "cleaned" /\ work'.url = work.url
        /\ disk' = [disk EXCEPT ![work.url] = "none"]
    BY <1>2, <1>7 DEF CleanUpDownload, BackgroundStep
  <2>2. ~LatePdf => work.url = original
    BY <2>1 DEF Exact, Busy, Steps
  <2>3. Exact'
    BY <1>1, <2>1, <2>2 DEF Exact
  <2>4. work.step \in Busy /\ work'.step \in Busy
    BY <2>1 DEF Busy, Steps
  <2>5. Staying
    BY <1>1, <2>1, <2>4 DEF Staying, At
  <2> QED
    BY <2>3, <2>5
<1> QED
  BY <1>3, <1>4, <1>5, <1>6, <1>7 DEF Background

LEMMA DistillerExact ==
  ASSUME DInv, Exact, Distiller
  PROVE  Exact' /\ Staying
<1>1. /\ UNCHANGED << work, original, disk >> /\ work.step = "distill"
      /\ ~LatePdf /\ mime' = "pdf" => distilled' = original
  BY DEF Distiller, DistilledPageHasMimeType, DistilledPageRedirectedToURL
<1>2. Exact'
  BY <1>1 DEF Exact
<1>3. Staying
  BY <1>1 DEF Staying, At
<1> QED
  BY <1>2, <1>3

LEMMA RepliesExact ==
  ASSUME DInv, Exact,
         \/ DownloadURL \/ DownloadCompletionHandler
         \/ \E b \in BOOLEAN : DistillerCallback(b) \/ OnURLLoadComplete(b)
  PROVE  Exact' /\ Staying
<1>1. CASE DownloadURL
  <2>1. /\ work.step = "checked" /\ work'.step = "distill" /\ disk' = disk
        /\ work'.url = work.url /\ original' = work.url /\ distilled' = work.url
    <3>1. work' = Step("distill", work.url, FALSE)
      BY <1>1 DEF DownloadURL
    <3> QED
      BY <1>1, <3>1 DEF DownloadURL, Step
  <2>2. Exact'
    BY <2>1 DEF Exact
  <2>3. Staying
    BY <2>1 DEF Staying, At, Busy
  <2> QED
    BY <2>2, <2>3
<1>2. CASE \/ DownloadCompletionHandler
           \/ \E b \in BOOLEAN : DistillerCallback(b) \/ OnURLLoadComplete(b)
  <2>1. /\ work.step \in {"saved", "distill", "fetch"}
        /\ UNCHANGED << pageVars, disk >>
        /\ work'.step \in {"clean", "create", "fetch"}
        /\ \/ work'.url \in {work.url, original}
           \/ work.step = "distill" /\ mime = "pdf" /\ work'.url = distilled
    <3>1. /\ work.step \in {"saved", "distill", "fetch"}
          /\ UNCHANGED << pageVars, disk >>
          /\ \E s \in {"clean", "create", "fetch"} :
               \/ work' = Step(s, work.url, FALSE)
               \/ work' = Step(s, original, FALSE)
               \/ /\ work.step = "distill" /\ mime = "pdf"
                  /\ work' = Step(s, distilled, FALSE)
      BY <1>2 DEF DownloadCompletionHandler, DistillerCallback,
         OnURLLoadComplete, DownloadFails
    <3> QED
      BY <3>1 DEF Step
  <2>2. ~LatePdf => work.url = original /\ work'.url = original
    BY <2>1 DEF Exact, Busy, Steps
  <2>3. Exact'
    BY <2>1, <2>2 DEF Exact, pageVars
  <2>4. work'.step \in Busy
    BY <2>1 DEF Busy, Steps
  <2>5. Staying
    BY <2>1, <2>4 DEF Staying, At, pageVars
  <2> QED
    BY <2>3, <2>5
<1> QED
  BY <1>1, <1>2

\* A step within the task under way.
LEMMA InnerOrderly ==
  ASSUME IInv, Orderly, Inner, Exact', Staying, UNCHANGED serviceVars, work.step # "idle"
  PROVE  Orderly'
<1>1. DInv /\ ServiceTypeOK /\ NothingMeanwhile
      /\ \A u \in Urls : OneDownload(u) /\ Stored(u)
  BY DEF IInv, Orderly
<1>2. UNCHANGED << entries, timers, networkVars, sync >>
  BY DEF serviceVars, networkVars
<1>3. ~Resting
  BY DEF Resting
<1>4. NothingMeanwhile'
  BY <1>1, <1>2, <1>3, NotMeanwhile, SettledKept
<1>5. ASSUME NEW u \in Urls PROVE OneDownload(u)'
  BY <1>1, <1>2 DEF Inner, OneDownload
<1>6. ASSUME NEW u \in Urls PROVE Stored(u)'
  <2>1. disk \in [Addresses -> Directories] /\ u \in Addresses
    BY <1>1, WorkType DEF Addresses
  <2>2. disk'[u] = disk[u] \/ At(u) \/ disk'[u] = "none"
    BY <2>1 DEF Staying
  <2>3. At(u) => At(u)'
    BY DEF Staying
  <2>4. disk'[u] = disk[u] \/ Started(u) \/ Doomed(u)
    <3>1. CASE disk' = disk
      BY <3>1
    <3>2. CASE \E a \in Addresses, x \in Directories :
                 /\ disk' = [disk EXCEPT ![a] = x]
                 /\ a \in Urls => Started(a) \/ (Doomed(a) /\ x = "none")
      BY <2>1, <3>2
    <3> QED
      BY <3>1, <3>2 DEF Inner, DiskStep
  <2>5. entries[u].state = "PROCESSED" => ~Started(u) /\ ~Doomed(u)
    BY <1>1 DEF OneDownload
  <2>6. Doomed(u)' <=> Doomed(u)
    BY DEF Inner
  <2> QED
    BY <1>1, <1>2, <2>2, <2>3, <2>4, <2>5, <2>6 DEF Stored, Present
<1> QED
  BY <1>4, <1>5, <1>6 DEF Orderly

\* A task is over; the entry is not changed.
LEMMA TurnUrl ==
  ASSUME Turn, NEW u \in Urls, OneDownload(u), Stored(u), ~At(u) \/ LatePdf, ~At(u)',
         sync' = sync, entries'[u] = entries[u], timers'[u] = timers[u]
  PROVE  OneDownload(u)' /\ Stored(u)'
<1>1. /\ disk' = disk
      /\ Doomed(u)' <=> Queued(Delete(u))
      /\ Started(u)' => Queued(Download(u)) /\ ~Queued(Delete(u))
      /\ Queued(Download(u))' <=> Queued(Download(u)) /\ ~Started(u)'
      /\ Doomed(u) /\ ~Doomed(u)' => disk[u] = "none" /\ ~Started(u)
      /\ Queued(Delete(u)) => Doomed(u)
  BY DEF Turn, Doomed
<1>2. OneDownload(u)'
  BY <1>1 DEF OneDownload
<1>3. Stored(u)'
  BY <1>1 DEF Stored, Present
<1> QED
  BY <1>2, <1>3

LEMMA DownloaderStepOrderly ==
  ASSUME IInv, ordinary, Orderly, DownloaderStep
  PROVE  Orderly'
<1>1. UNCHANGED serviceVars /\ (Background \/ Replies \/ Distiller)
  BY DEF DownloaderStep
<1>2. DInv /\ ServiceTypeOK /\ Exact /\ NothingMeanwhile
      /\ \A u \in Urls : OneDownload(u) /\ Stored(u)
  BY DEF IInv, Orderly
<1>3. work.step # "idle"
  BY <1>1 DEF Background, DeleteDirectory, OfflinePathExists,
     CreateOfflineURLDirectory, SavePage, CleanUpDownload, BackgroundStep,
     Replies, DeleteCompletionHandler, DownloadURL, DownloadCompletionHandler,
     DistillerCallback, OnURLLoadComplete, Distiller, DistilledPageHasMimeType,
     DistilledPageRedirectedToURL
<1>4. CASE DeleteCompletionHandler
  <2>1. work.step = "deleted" /\ HandleNextTask(tasks)
    BY <1>4 DEF DeleteCompletionHandler
  <2>2. Exact' /\ \A u : ~At(u)'
    BY <2>1, NewTaskExact
  <2>3. \A u : ~At(u)
    BY <2>1 DEF At, Busy
  <2>4. UNCHANGED << entries, timers, networkVars, sync >>
    BY <1>1 DEF serviceVars, networkVars
  <2>5. \A u \in Urls : OneDownload(u)' /\ Stored(u)'
    BY <1>2, <1>4, <2>2, <2>3, <2>4, DeleteTurn, TurnUrl
  <2>6. NothingMeanwhile'
    <3>1. ~Resting
      BY <1>3 DEF Resting
    <3> QED
      BY <1>2, <2>4, <3>1, NotMeanwhile, SettledKept
  <2> QED
    BY <2>2, <2>5, <2>6 DEF Orderly
<1>5. CASE \/ Background \/ Distiller
           \/ DownloadURL \/ DownloadCompletionHandler
           \/ \E b \in BOOLEAN : DistillerCallback(b) \/ OnURLLoadComplete(b)
  <2>1. Inner
    BY <1>2, <1>5, BackgroundInner, DistillerInner, RepliesInner
  <2>2. Exact' /\ Staying
    BY <1>2, <1>5, BackgroundExact, DistillerExact, RepliesExact
  <2> QED
    BY <1>1, <1>3, <2>1, <2>2, InnerOrderly
<1> QED
  BY <1>1, <1>4, <1>5 DEF Replies


\* The end of the download of an entry that is still there.
LEMMA EndedEntry ==
  ASSUME IInv, Orderly, NEW outcome \in Outcomes, DownloadEnds(outcome), Turn,
         sync.phase = "done", sync' = sync,
         NEW url \in Urls, url = work.url, Present(url), Started(url),
         At(url) \/ work.step = "checked", ~At(url)',
         OnDownloadEnd(url, outcome)
  PROVE  /\ OneDownload(url)' /\ Stored(url)'
         /\ \A u \in Urls \ {url} : entries'[u] = entries[u] /\ timers'[u] = timers[u]
<1> DEFINE e == entries[url]
<1>1. /\ DInv /\ ServiceTypeOK /\ TriesLeft /\ Exact
      /\ OneDownload(url) /\ Stored(url)
  BY DEF IInv, Orderly
<1>2. /\ e \in Entries /\ e.state = "PROCESSING" /\ ~Doomed(url)
      /\ ~Queued(Download(url)) /\ timers[url] = 0
      /\ e.fails \in Nat /\ e.fails < StopAfter
  <2>1. e \in Entries /\ e.fails \in 0 .. StopAfter
    BY <1>1, EntryTypes
  <2>2. e.state = "PROCESSING" /\ ~Doomed(url) /\ ~Queued(Download(url)) /\ timers[url] = 0
    BY <1>1 DEF OneDownload, Present, ServiceTypeOK
  <2> QED
    BY <1>1, <2>1, <2>2 DEF TriesLeft
<1>3. /\ disk' = disk /\ ~Doomed(url)' /\ ~Queued(Download(url))' /\ ~Started(url)'
  BY <1>2 DEF Turn, Doomed
<1>4. entries \in [Urls -> Entries \union {Absent}]
  BY <1>1 DEF ServiceTypeOK
<1>5. CASE outcome = "success"
  <2>1. disk[url] = "page"
    <3>1. work.step = "saved" /\ work.ok
      BY <1>5 DEF DownloadEnds
    <3>2. url = original
      BY <3>1 DEF At
    <3> QED
      BY <1>1, <3>1, <3>2 DEF Exact
  <2>2. entries' = [entries EXCEPT ![url] = WithInfo(e)] /\ timers' = timers
    BY <1>5 DEF OnDownloadEnd, SetEntry
  <2>3. entries'[url].state = "PROCESSED"
    BY <1>4, <2>2 DEF WithInfo
  <2>4. OneDownload(url)' /\ Stored(url)'
    BY <1>2, <1>3, <2>1, <2>2, <2>3 DEF OneDownload, Stored
  <2> QED
    BY <1>4, <2>2, <2>4
<1>6. CASE outcome # "success"
  <2>1. ~LatePdf => disk[url] = "none"
    <3> SUFFICES ASSUME ~LatePdf PROVE disk[url] = "none"
      OBVIOUS
    <3>1. CASE outcome = "exists"
      <4>1. work.step = "checked" /\ work.ok
        BY <3>1 DEF DownloadEnds
      <4>2. disk[url] # "none"
        BY <1>1, <4>1 DEF Exact
      <4>3. ~At(url)
        BY <4>1 DEF At, Busy
      <4> QED
        BY <1>1, <1>2, <4>2, <4>3 DEF Stored
    <3>2. CASE outcome = "error"
      <4>1. work.step = "cleaned"
        BY <3>2 DEF DownloadEnds
      <4>2. url = original
        BY <4>1 DEF At
      <4> QED
        BY <1>1, <4>1, <4>2 DEF Exact
    <3> QED
      BY <1>6, <3>1, <3>2 DEF Outcomes
  <2>2. CASE e.fails + 1 < StopAfter
    <3> DEFINE f == WithState(e, "WILL_RETRY")
               list == [entries EXCEPT ![url] = f]
    <3>1. entries' = list /\ timers' = Scheduled(list, Once({url}))
      BY <1>2, <1>6, <2>2 DEF OnDownloadEnd
    <3>2. f.state = "WILL_RETRY"
      BY DEF WithState
    <3> HIDE DEF f
    <3>3. /\ entries'[url].state = "WILL_RETRY"
          /\ \A u \in Urls \ {url} : entries'[u] = entries[u]
      BY <1>4, <3>1, <3>2
    <3> HIDE DEF list
    <3>4. /\ timers'[url] \in {0, 1}
          /\ \A u \in Urls \ {url} : timers'[u] = timers[u]
      BY <1>1, <1>2, <3>1, ScheduledOnce
    <3>5. OneDownload(url)' /\ Stored(url)'
      BY <1>3, <2>1, <3>3, <3>4 DEF OneDownload, Stored
    <3> QED
      BY <3>3, <3>4, <3>5
  <2>3. CASE ~(e.fails + 1 < StopAfter)
    <3> DEFINE f == WithState(e, "DISTILLATION_ERROR")
    <3>1. entries' = [entries EXCEPT ![url] = f] /\ timers' = timers
      BY <1>2, <1>6, <2>3 DEF OnDownloadEnd, SetEntry
    <3>2. f.state = "DISTILLATION_ERROR" /\ f.fails = e.fails + 1
      BY <1>2 DEF WithState, Errors
    <3> HIDE DEF f
    <3>3. /\ entries'[url].state = "DISTILLATION_ERROR"
          /\ entries'[url].fails = StopAfter
          /\ \A u \in Urls \ {url} : entries'[u] = entries[u]
      <4>1. e.fails + 1 = StopAfter
        BY <1>2, <2>3
      <4> QED
        BY <1>4, <3>1, <3>2, <4>1
    <3>4. OneDownload(url)' /\ Stored(url)'
      BY <1>2, <1>3, <2>1, <3>1, <3>3 DEF OneDownload, Stored
    <3> QED
      BY <3>1, <3>3, <3>4
  <2> QED
    BY <2>2, <2>3
<1> QED
  BY <1>5, <1>6

\* The URL whose download ends.
LEMMA EndedUrl ==
  ASSUME IInv, Orderly, NEW outcome, DownloadEnds(outcome)
  PROVE  /\ sync.phase = "done"
         /\ work.url \in Urls => /\ Started(work.url)
                                 /\ At(work.url) \/ work.step = "checked"
         /\ \A u \in Urls : At(u) => u = work.url \/ LatePdf
<1>1. work.step \in {"checked", "saved", "cleaned"}
  BY DEF DownloadEnds
<1>2. DInv /\ Exact /\ NothingMeanwhile
  BY DEF IInv, Orderly
<1>3. sync.phase = "done"
  BY <1>1, <1>2, NotMeanwhile DEF Resting
<1>4. CASE work.step = "checked"
  BY <1>3, <1>4 DEF Started, At, Busy
<1>5. CASE work.step \in {"saved", "cleaned"}
  <2>1. work.step \in Busy
    BY <1>5 DEF Busy, Steps
  <2> QED
    BY <1>2, <1>3, <2>1, WorkType DEF Exact, At
<1> QED
  BY <1>1, <1>4, <1>5

LEMMA DownloadEndOrderly ==
  ASSUME IInv, ordinary, Orderly, DownloadEnd
  PROVE  Orderly'
<1>1. PICK outcome \in Outcomes :
        /\ DownloadEnds(outcome) /\ OnDownloadEnd(work.url, outcome)
        /\ UNCHANGED << listVars, networkVars, sync, ordinary, budget >>
  BY DEF DownloadEnd
<1>2. DInv /\ ServiceTypeOK /\ NothingMeanwhile
      /\ \A u \in Urls : OneDownload(u) /\ Stored(u)
  BY DEF IInv, Orderly
<1>3. Turn
  BY <1>1, <1>2, DownloadTurn
<1>4. /\ sync.phase = "done"
      /\ work.url \in Urls => /\ Started(work.url)
                              /\ At(work.url) \/ work.step = "checked"
      /\ \A u \in Urls : At(u) => u = work.url \/ LatePdf
  BY <1>1, EndedUrl
<1>5. Exact' /\ \A u : ~At(u)'
  BY <1>1, NewTaskExact DEF DownloadEnds
<1>6. sync' = sync
  BY <1>1
<1>7. NothingMeanwhile'
  <2>1. work.step # "idle"
    BY <1>1 DEF DownloadEnds
  <2>2. ~Resting
    BY <2>1 DEF Resting
  <2> QED
    BY <1>1, <1>2, <2>2, NotMeanwhile, SettledKept
<1>8. ASSUME NEW u \in Urls, entries'[u] = entries[u], timers'[u] = timers[u],
             u # work.url
      PROVE  OneDownload(u)' /\ Stored(u)'
  <2>1. ~At(u) \/ LatePdf
    BY <1>4, <1>8
  <2> QED
    BY <1>2, <1>3, <1>5, <1>6, <1>8, <2>1, TurnUrl
<1>9. ASSUME NEW url \in Urls, url = work.url, Present(url)
      PROVE  Orderly'
  <2>1. /\ Started(url) /\ ~At(url)' /\ OnDownloadEnd(url, outcome)
        /\ At(url) \/ work.step = "checked"
    BY <1>1, <1>4, <1>5, <1>9
  <2>2. /\ OneDownload(url)' /\ Stored(url)'
        /\ \A u \in Urls \ {url} : entries'[u] = entries[u] /\ timers'[u] = timers[u]
    BY <1>1, <1>3, <1>4, <1>6, <1>9, <2>1, EndedEntry
  <2>3. \A u \in Urls : OneDownload(u)' /\ Stored(u)'
    BY <1>8, <1>9, <2>2
  <2> QED
    BY <1>5, <1>7, <2>3 DEF Orderly
<1>10. ASSUME work.url \notin Urls \/ ~Present(work.url)
       PROVE  Orderly'
  <2>1. entries' = entries /\ timers' = timers
    BY <1>1, <1>10 DEF OnDownloadEnd
  <2>2. ASSUME NEW u \in Urls, u = work.url PROVE OneDownload(u)' /\ Stored(u)'
    <3>1. entries[u].state = "absent"
      BY <1>10, <2>2 DEF Present
    <3>2. OneDownload(u)'
      BY <1>2, <1>3, <2>1, <3>1 DEF Turn, OneDownload, Doomed
    <3>3. Stored(u)'
      BY <2>1, <3>1 DEF Stored, Present
    <3> QED
      BY <3>2, <3>3
  <2>3. \A u \in Urls : OneDownload(u)' /\ Stored(u)'
    BY <1>8, <2>1, <2>2
  <2> QED
    BY <1>5, <1>7, <2>3 DEF Orderly
<1> QED
  BY <1>9, <1>10


LEMMA InitOrderly == Init => Orderly
<1> SUFFICES ASSUME Init PROVE Orderly
  OBVIOUS
<1>1. IInv
  BY InitIInv
<1>2. /\ work = Idle /\ entries = [url \in Urls |-> Absent] /\ timers = [url \in Urls |-> 0]
      /\ tracker = "unknown" /\ asked = 0 /\ changes = << network >>
      /\ sync = [phase |-> "loading", keep |-> {}, todo |-> {}]
  BY DEF Init, DownloaderInit
<1>3. work.step = "idle"
  BY <1>2 DEF Idle
<1>4. Resting
  BY <1>2, <1>3 DEF Resting
<1>5. Exact
  BY <1>3 DEF Exact, Busy
<1>6. NothingMeanwhile
  BY <1>2, <1>4 DEF NothingMeanwhile
<1>7. ASSUME NEW u \in Urls PROVE OneDownload(u) /\ Stored(u)
  <2>1. ~Queued(Download(u)) /\ ~Started(u) /\ ~Doomed(u)
    BY <1>1, <1>3, RestingUrls DEF IInv
  <2>2. entries[u].state = "absent" /\ timers[u] = 0
    BY <1>2 DEF Absent
  <2> QED
    BY <2>1, <2>2 DEF OneDownload, Stored, Present
<1> QED
  BY <1>5, <1>6, <1>7 DEF Orderly

LEMMA UnchangedOrderly ==
  ASSUME IInv, Orderly, UNCHANGED vars
  PROVE  Orderly'
<1>1. /\ UNCHANGED << downloaderVars, entries, timers, listVars, networkVars, sync >>
  BY DEF vars, serviceVars, listVars, networkVars
<1>2. DInv /\ Exact /\ NothingMeanwhile
      /\ \A u \in Urls : OneDownload(u) /\ Stored(u)
  BY DEF IInv, Orderly
<1>3. Exact' /\ \A u : At(u)' <=> At(u)
  BY <1>1, <1>2, OperationExact
<1>4. ASSUME NEW u \in Urls PROVE OneDownload(u)' /\ Stored(u)'
  <2>1. Untouched(u)
    BY <1>1, <1>2, <1>3, DownloaderUnchanged DEF Untouched
  <2> QED
    BY <1>1, <1>2, <2>1, UntouchedKept
<1>5. NothingMeanwhile'
  BY <1>1, <1>2 DEF NothingMeanwhile, Resting, InState, Retries, listVars,
     networkVars, downloaderVars
<1> QED
  BY <1>3, <1>4, <1>5 DEF Orderly

LEMMA OrdinaryKept ==
  ASSUME [Next]_vars
  PROVE  ordinary' = ordinary
  BY DEF Next, AddEntry, RemoveEntry, MoveEntry, ListChanges, DownloadEntry,
     ReadingListModelLoaded, CleanUpFiles, DownloadUnprocessedEntries, Relaunch,
     NetworkChanges, ConnectionChanged, DownloaderStep, DownloadEnd, vars, serviceVars

LEMMA NextOrderly ==
  ASSUME IInv, ordinary, Orderly, [Next]_vars
  PROVE  Orderly'
<1>1. CASE \E url \in Urls : \/ AddEntry(url) \/ RemoveEntry(url) \/ MoveEntry(url)
                             \/ DownloadEntry(url)
  BY <1>1, AddEntryOrderly, RemoveEntryOrderly, MoveEntryOrderly, DownloadEntryOrderly
<1>2. CASE ReadingListModelLoaded \/ CleanUpFiles \/ DownloadUnprocessedEntries
  BY <1>2, ReadingListModelLoadedOrderly, CleanUpFilesOrderly,
     DownloadUnprocessedEntriesOrderly
<1>3. CASE Relaunch
  BY <1>3, RelaunchOrderly
<1>4. CASE \E connection \in Connections : NetworkChanges(connection)
  BY <1>4, NetworkChangesOrderly
<1>5. CASE ConnectionChanged
  BY <1>5, ConnectionChangedOrderly
<1>6. CASE DownloaderStep \/ DownloadEnd
  BY <1>6, DownloaderStepOrderly, DownloadEndOrderly
<1>7. CASE UNCHANGED vars
  BY <1>7, UnchangedOrderly
<1> QED
  BY <1>1, <1>2, <1>3, <1>4, <1>5, <1>6, <1>7, Zenon DEF Next

LEMMA OrdinaryInductive == Spec => []OrdinaryInv
<1>1. Init => OrdinaryInv
  BY InitIInv, InitOrderly DEF OrdinaryInv
<1>2. OrdinaryInv /\ [Next]_vars => OrdinaryInv'
  <2> SUFFICES ASSUME OrdinaryInv, [Next]_vars PROVE OrdinaryInv'
    OBVIOUS
  <2>1. IInv'
    BY NextIInv DEF OrdinaryInv
  <2>2. ordinary' = ordinary
    BY OrdinaryKept
  <2>3. CASE ordinary
    <3>1. Orderly'
      BY <2>3, NextOrderly DEF OrdinaryInv
    <3> QED
      BY <2>1, <3>1 DEF OrdinaryInv
  <2>4. CASE ~ordinary
    BY <2>1, <2>2, <2>4 DEF OrdinaryInv
  <2> QED
    BY <2>3, <2>4
<1> QED
  BY <1>1, <1>2, PTL DEF Spec

(***************************************************************************)
(* An entry that says it is available offline has its page on disk, in the *)
(* ordinary case (SetEntryDistilledInfo): no second download takes it      *)
(* away, nor a sweep of a list that stays as it is meanwhile, nor a        *)
(* deletion that was queued before the entry was added.  An entry that is  *)
(* removed and added again during its own download, and a list that        *)
(* changes during the sweep, are not ordinary: there the code does delete  *)
(* the page.                                                               *)
(***************************************************************************)
THEOREM AvailableIsOnDisk == Spec => []ProcessedHasPage
<1>1. OrdinaryInv => ProcessedHasPage
  BY DEF OrdinaryInv, Orderly, Stored, ProcessedHasPage
<1> QED
  BY <1>1, OrdinaryInductive, PTL

(***************************************************************************)
(* A download that failed leaves nothing on disk that its retry would take *)
(* for the offline version, in the ordinary case and when no page turns    *)
(* into a PDF after its redirection (CleanUpDownload).                     *)
(***************************************************************************)
THEOREM RetriesStartAfresh ==
  ASSUME LatePdf = FALSE
  PROVE  Spec => []RetryStartsAfresh
<1>1. OrdinaryInv => RetryStartsAfresh
  <2> SUFFICES ASSUME OrdinaryInv, ordinary, NEW url \in Urls,
                      entries[url].state \in Errors, sync.phase = "done",
                      ~Queued(Download(url)), ~InProgress(url)
               PROVE  disk[url] = "none"
    BY DEF RetryStartsAfresh
  <2>1. OneDownload(url) /\ Stored(url)
    BY DEF OrdinaryInv, Orderly
  <2>2. Present(url) /\ entries[url].state # "PROCESSED" /\ ~Doomed(url)
    BY <2>1 DEF Errors, Present, OneDownload
  <2>3. ~At(url)
    <3>1. At(url) => Started(url)
      BY DEF At, Started, Busy, Deleting
    <3> QED
      BY <3>1 DEF InProgress
  <2> QED
    BY <2>1, <2>2, <2>3 DEF Stored
<1> QED
  BY <1>1, OrdinaryInductive, PTL

(***************************************************************************)
(* An entry is given up after StopAfter failures and not before, in the    *)
(* ordinary case, for any two bounds (kNumberOfFailsBeforeStop).           *)
(***************************************************************************)
THEOREM GivesUpInTheEnd == Spec => []GivesUpAfterAllTries
<1>1. OrdinaryInv => GivesUpAfterAllTries
  <2> SUFFICES ASSUME OrdinaryInv, ordinary, NEW url \in Urls
               PROVE  entries[url].state = "DISTILLATION_ERROR"
                        <=> entries[url].fails = StopAfter
    BY DEF GivesUpAfterAllTries
  <2>1. Stored(url) /\ TriesLeft
    BY DEF OrdinaryInv, Orderly, IInv
  <2> QED
    BY <2>1 DEF Stored, TriesLeft
<1> QED
  BY <1>1, OrdinaryInductive, PTL

(***************************************************************************)
(* In the ordinary case an entry that is available offline is not          *)
(* downloaded again: no step of service, downloader, network or launch     *)
(* takes it back to a state in which it is not (DownloadEntry,             *)
(* OnDownloadEnd).                                                         *)
(***************************************************************************)
THEOREM NoSecondDownload == Spec => OrdinarilyStaysAvailable
<1>1. OrdinaryInv /\ [Next]_vars =>
        [ordinary => \A url \in Urls : AvailableStays(url)]_vars
  <2> SUFFICES ASSUME OrdinaryInv, Next, ordinary, NEW url \in Urls,
                      entries[url].state = "PROCESSED"
               PROVE  entries'[url].state \notin
                        {"PROCESSING", "WILL_RETRY", "DISTILLATION_ERROR"}
    BY DEF AvailableStays
  <2>1. /\ IInv /\ Orderly /\ OneDownload(url) /\ ServiceTypeOK
        /\ entries \in [Urls -> Entries \union {Absent}]
    BY DEF OrdinaryInv, Orderly, IInv, ServiceTypeOK
  <2>2. \A u \in Urls : \A e :
          entries' = [entries EXCEPT ![u] = e] /\ u # url => entries'[url] = entries[url]
    BY <2>1
  <2>3. ASSUME NEW u \in Urls, AddEntry(u) \/ RemoveEntry(u)
        PROVE  entries'[url].state \notin
                 {"PROCESSING", "WILL_RETRY", "DISTILLATION_ERROR"}
    <3>1. PICK e \in {NewEntry, Absent} : entries' = [entries EXCEPT ![u] = e]
      BY <2>3 DEF AddEntry, RemoveEntry, SetEntry
    <3>2. e.state \in {"WAITING", "absent"}
      BY <3>1 DEF NewEntry, Absent
    <3>3. u = url => entries'[url] = e
      BY <2>1, <3>1
    <3> QED
      BY <2>2, <3>1, <3>2, <3>3
  <2>4. ASSUME NEW u \in Urls, MoveEntry(u)
        PROVE  entries'[url].state = "PROCESSED"
    <3>1. Present(u) /\ entries' = [entries EXCEPT ![u].read = ~@]
      BY <2>4 DEF MoveEntry
    <3>2. entries[u] \in Entries
      BY <2>1, <3>1, EntryTypes
    <3> QED
      BY <2>1, <3>1, <3>2 DEF Entries
  <2>5. ASSUME NEW u \in Urls, DownloadEntry(u)
        PROVE  entries'[url].state = "PROCESSED"
    <3>1. \/ entries' = entries
          \/ /\ ToDownload(entries[u])
             /\ entries' = [entries EXCEPT ![u] = WithState(entries[u], "PROCESSING")]
      BY <2>5 DEF DownloadEntry, StartDownload, SetEntry, WaitForConnection, WaitForWifi
    <3>2. ~ToDownload(entries[url])
      BY DEF ToDownload, Unfinished
    <3> QED
      BY <2>2, <3>1, <3>2
  <2>6. CASE DownloadEnd
    <3>1. PICK outcome \in Outcomes :
            DownloadEnds(outcome) /\ OnDownloadEnd(work.url, outcome)
      BY <2>6 DEF DownloadEnd
    <3>2. work.url # url
      <4>1. work.url \in Urls => Started(work.url)
        BY <2>1, <3>1, EndedUrl
      <4> QED
        BY <2>1, <4>1 DEF OneDownload
    <3>3. \/ entries' = entries
          \/ work.url \in Urls /\ \E e : entries' = [entries EXCEPT ![work.url] = e]
      BY <3>1 DEF OnDownloadEnd, SetEntry
    <3> QED
      BY <2>2, <3>2, <3>3
  <2>7. CASE entries' = entries
    BY <2>7
  <2> QED
    BY <2>3, <2>4, <2>5, <2>6, <2>7 DEF Next, ReadingListModelLoaded, CleanUpFiles,
       DownloadUnprocessedEntries, Relaunch, NetworkChanges, ConnectionChanged,
       DownloaderStep, serviceVars
<1> QED
  BY <1>1, OrdinaryInductive, PTL DEF Spec, OrdinarilyStaysAvailable
=============================================================================
