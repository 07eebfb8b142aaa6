---------------------------- MODULE OfflinePages ----------------------------
(***************************************************************************)
(* What a URLDownloader promises.  A page is stored only by a download     *)
(* that has begun; a deletion is over only when the directory is gone; and *)
(* requests for a URL are served in turn: a deletion drops the downloads   *)
(* that have not begun, and no download begins before the deletions asked  *)
(* for earlier are over.  The queue, how pages are fetched and with what   *)
(* failures, and how many tasks there are at a time do not show here.      *)
(***************************************************************************)
CONSTANT Urls

VARIABLES
  pages,    \* the URLs that have a directory
  asked,    \* the URLs whose download is asked for and has not begun
  started,  \* the URLs whose download has begun
  doomed    \* the URLs whose deletion is asked for and not over

vars == << pages, asked, started, doomed >>

TypeOK ==
  /\ pages \subseteq Urls /\ asked \subseteq Urls
  /\ started \subseteq Urls /\ doomed \subseteq Urls

Init == pages = {} /\ asked = {} /\ started = {} /\ doomed = {}

AskDownload(u) ==
  /\ \/ asked' = asked \union {u} /\ UNCHANGED started
     \/ u \notin doomed /\ started' = started \union {u} /\ UNCHANGED asked
  /\ UNCHANGED << pages, doomed >>

AskDelete(u) ==
  /\ asked' = asked \ {u}
  /\ doomed' = doomed \union {u}
  /\ UNCHANGED << pages, started >>

CallOff(u) ==
  /\ asked' = asked \ {u}
  /\ UNCHANGED << pages, started, doomed >>

Store(u) ==
  /\ u \in started
  /\ pages' = pages \union {u}
  /\ UNCHANGED << asked, started, doomed >>

Discard(u) ==
  /\ u \in started \union doomed
  /\ pages' = pages \ {u}
  /\ UNCHANGED << asked, started, doomed >>

\* Downloads end, deletions are over, and downloads begin.
Proceed(ended, deleted, begun) ==
  /\ deleted \intersect (pages \union started) = {}
  /\ begun \subseteq asked /\ begun \intersect (doomed \ deleted) = {}
  /\ asked' = asked \ begun
  /\ started' = (started \ ended) \union begun
  /\ doomed' = doomed \ deleted
  /\ UNCHANGED pages

\* The application ends; the next launch sweeps directories away.
End ==
  /\ asked' = {} /\ started' = {} /\ doomed' = {}
  /\ UNCHANGED pages

Sweep ==
  /\ pages' \subseteq pages
  /\ UNCHANGED << asked, started, doomed >>

Next ==
  \/ \E u \in Urls :
       AskDownload(u) \/ AskDelete(u) \/ CallOff(u) \/ Store(u) \/ Discard(u)
  \/ \E ended \in SUBSET started, deleted \in SUBSET doomed, begun \in SUBSET asked :
       Proceed(ended, deleted, begun)
  \/ End \/ Sweep

Spec == Init /\ [][Next]_vars
=============================================================================
