--------------------------- MODULE ProcessusBureau ---------------------------
(***************************************************************************)
(* What the application may count on from the process of a desktop: the    *)
(* abstract specification that Bureau assumes of `proc` and that           *)
(* ConnexionBureau implements.  It reads its password, connects, announces *)
(* its port once and only once connected, serves one client, and does not  *)
(* outlive its parent, its client or the minute its client has to come.    *)
(***************************************************************************)
VARIABLES
  vie,      \* what the process is doing
  entree,   \* is its standard input open?
  client    \* its local client: not come yet, there, gone

vars == <<vie, entree, client>>

Vies == {"lit", "connecte", "attend", "sert", "fini"}

TypeOK == vie \in Vies /\ entree \in BOOLEAN /\ client \in {"absent", "la", "parti"}

Init == vie = "lit" /\ entree = TRUE /\ client = "absent"

Passer(de, vers) == vie = de /\ vie' = vers /\ UNCHANGED <<entree, client>>

Lire == Passer("lit", "connecte")
Annoncer == Passer("connecte", "attend")
Servir == client # "absent" /\ Passer("attend", "sert")
Finir == vie # "fini" /\ Passer(vie, "fini")

FermerEntree == entree /\ entree' = FALSE /\ UNCHANGED <<vie, client>>
Presenter == vie = "attend" /\ client = "absent" /\ client' = "la" /\ UNCHANGED <<vie, entree>>
Partir == client = "la" /\ client' = "parti" /\ UNCHANGED <<vie, entree>>

Next == Lire \/ Annoncer \/ Servir \/ Finir \/ FermerEntree \/ Presenter \/ Partir

\* Nobody holds its input, its client has left, or none came.
Abandonne ==
  \/ vie # "fini" /\ ~entree
  \/ vie = "sert" /\ client = "parti"
  \/ vie = "attend" /\ client = "absent"

\* What it may do, and what it must come to.
Surete == Init /\ [][Next]_vars
Spec == Surete /\ (Abandonne ~> ~Abandonne)

=============================================================================
