----------------------------- MODULE CaseShelf ------------------------------
(***************************************************************************)
(* What compiling a case packet promises, whatever becomes of the         *)
(* requests that ask for it: one draft is filed, by one request; it is    *)
(* published once; who is told that the case is there finds it; who is    *)
(* told that the attempt failed has not filed it and never will; and once *)
(* somebody is told that the packet is rejected nobody files it.          *)
(***************************************************************************)
CONSTANTS Drivers, Reviews, None

VARIABLES
  author,  \* whose draft is on the shelf, or None
  review,  \* the review it was published with, or None
  told     \* what each request was told

shelfVars == <<author, review, told>>

ShelfInit ==
  /\ author = None
  /\ review = None
  /\ told = [d \in Drivers |-> "nothing"]

File(d) ==
  /\ author = None
  /\ told[d] # "failed"
  /\ \A e \in Drivers : told[e] # "rejected"
  /\ author' = d
  /\ UNCHANGED <<review, told>>

Publish(r) ==
  /\ author # None
  /\ review = None
  /\ review' = r
  /\ UNCHANGED <<author, told>>

Tell(d, what) ==
  /\ told[d] = "nothing"
  /\ what = "case"     => author # None
  /\ what = "failed"   => author # d
  /\ what = "rejected" => author = None
  /\ told' = [told EXCEPT ![d] = what]
  /\ UNCHANGED <<author, review>>

ShelfNext ==
  \/ \E d \in Drivers : File(d)
  \/ \E r \in Reviews : Publish(r)
  \/ \E d \in Drivers, what \in {"case", "failed", "rejected"} : Tell(d, what)

ShelfSpec == ShelfInit /\ [][ShelfNext]_shelfVars
=============================================================================
