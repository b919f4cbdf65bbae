---------------------------- MODULE PressePapiers -----------------------------
(***************************************************************************)
(* The clipboard of the workstation, offered to a remote desktop           *)
(* (rdp-sidecar/src/presse_papiers.rs and the loop of session.rs): text    *)
(* and files the user copies, the announcement the channel takes or        *)
(* refuses, the requests of the remote, its locks, and the sharing that    *)
(* the user may cut.  What the library calls back leaves a message in a    *)
(* queue that the loop takes one by one; the page's messages and the ticks *)
(* pass between two of them.                                               *)
(***************************************************************************)
EXTENDS Naturals, Sequences, FiniteSets

CONSTANTS
  Verrous,       \* numbers of locks
  VERROUS_MAX,   \* copies kept for the remote (100)
  COPIES_MAX,    \* bound: what the user copies
  DEMANDES_MAX,  \* bound: what the remote asks
  BASCULES_MAX   \* bound: times the sharing is switched

PresseAssumption ==
  /\ 0 \notin Verrous /\ VERROUS_MAX \in Nat
  /\ COPIES_MAX \in Nat /\ DEMANDES_MAX \in Nat /\ BASCULES_MAX \in Nat

VARIABLES
  partage,   \* ClipBackend::partage
  texte,     \* local_text: which copy it holds, 0 for none
  offre,     \* the files announced, 0 for none
  attente,   \* offre_en_attente: which copy, and is its delay over?
  verrous,   \* offres_verrouillees: the copy kept under each lock, 0 for none
  clip,      \* the queue of ClipReq
  pret,      \* is the channel of the library in the Ready state?
  vue,       \* what the remote was last told: "rien", "texte" or "fichiers"
  colles,    \* texts asked of the remote and not yet come
  compte,    \* copies, requests of the remote, switches so far
  attendues, \* requests of the remote without an answer
  jetees,    \* history: the answers the channel did not take
  accuses    \* offers the page has no receipt of

boucle == <<texte, offre, attente, verrous>>
distant == <<pret, vue, colles>>
reponses == <<attendues, jetees>>
vars == <<partage, boucle, clip, distant, compte, reponses, accuses>>

SansAttente == [o |-> 0, passe |-> FALSE]
Messages == [t : {"Advertise", "RequestPaste", "RemoteText", "Verrou", "Deverrou", "ServeData",
                  "ServirContenu", "RefuserContenu"}, n : Nat]
M(t, n) == [t |-> t, n |-> n]

TypeOK ==
  /\ partage \in BOOLEAN /\ pret \in BOOLEAN
  /\ texte \in 0 .. COPIES_MAX /\ offre \in 0 .. COPIES_MAX
  /\ attente \in [o : 0 .. COPIES_MAX, passe : BOOLEAN]
  /\ verrous \in [Verrous -> 0 .. COPIES_MAX]
  /\ clip \in Seq(Messages)
  /\ vue \in {"rien", "texte", "fichiers"} /\ colles \in 0 .. DEMANDES_MAX
  /\ attendues \in 0 .. DEMANDES_MAX /\ jetees \in 0 .. attendues /\ accuses \subseteq 1 .. COPIES_MAX

Init ==
  /\ partage = TRUE /\ texte = 0 /\ offre = 0 /\ attente = SansAttente
  /\ verrous = [v \in Verrous |-> 0]
  /\ clip = <<>> /\ pret = TRUE /\ vue = "rien" /\ colles = 0
  /\ compte = [copies |-> 0, demandes |-> 0, bascules |-> 0]
  /\ attendues = 0 /\ jetees = 0 /\ accuses = {}

-----------------------------------------------------------------------------
(* The page. *)

Copie == compte.copies + 1
PeutCopier == compte.copies < COPIES_MAX /\ compte' = [compte EXCEPT !.copies = @ + 1]

\* Message 8: a text, new or (the page pushes it at each return) the same,
\* which is not announced again over an offer.
Texte ==
  /\ partage
  /\ \/ PeutCopier /\ texte' = Copie
     \/ texte # 0 /\ offre = 0 /\ UNCHANGED <<texte, compte>>
  /\ offre' = 0
  /\ Len(clip) < DEMANDES_MAX + COPIES_MAX
  /\ clip' = Append(clip, M("Advertise", 0))
  /\ UNCHANGED <<partage, attente, verrous, distant, reponses, accuses>>

\* The announcement of files: taken when the channel is ready, with a receipt
\* for the page; kept to be tried again when it is not; an error otherwise.
Annoncer(o, passe) ==
  \/ pret /\ offre' = o /\ vue' = "fichiers" /\ accuses' = accuses \ {o} /\ attente' = SansAttente
  \/ ~pret /\ ~passe /\ attente' = [o |-> o, passe |-> FALSE] /\ UNCHANGED <<offre, vue, accuses>>
  \/ (~pret => passe) /\ accuses' = accuses \ {o} /\ attente' = SansAttente /\ UNCHANGED <<offre, vue>>

\* Message 19, OFFRIR: the files are walked, or cannot be offered, which is
\* said; a receipt is due.
Offrir ==
  /\ PeutCopier
  /\ \/ /\ \/ pret /\ offre' = Copie /\ vue' = "fichiers" /\ UNCHANGED <<attente, accuses>>
           \/ ~pret /\ attente' = [o |-> Copie, passe |-> FALSE] /\ accuses' = accuses \cup {Copie}
              /\ UNCHANGED <<offre, vue>>
     \/ UNCHANGED <<offre, vue, attente, accuses>>
  /\ UNCHANGED <<partage, texte, verrous, clip, pret, colles, reponses>>

\* Message 12: the user cuts the sharing, or allows it.
Basculer ==
  /\ compte.bascules < BASCULES_MAX
  /\ compte' = [compte EXCEPT !.bascules = @ + 1]
  /\ partage' = ~partage
  /\ UNCHANGED <<boucle, clip, distant, reponses, accuses>>

\* The tick: the waiting offer is tried again, until its delay is over.
Tic_Relance ==
  /\ attente # SansAttente
  /\ Annoncer(attente.o, FALSE)
  /\ UNCHANGED <<partage, texte, verrous, clip, pret, colles, compte, reponses>>
Tic ==
  /\ attente # SansAttente
  /\ Annoncer(attente.o, attente.passe)
  /\ UNCHANGED <<partage, texte, verrous, clip, pret, colles, compte, reponses>>

\* DELAI_CANAL_PRET goes by.
Passer ==
  /\ attente # SansAttente /\ ~attente.passe
  /\ attente' = [attente EXCEPT !.passe = TRUE]
  /\ UNCHANGED <<partage, texte, offre, verrous, clip, distant, compte, reponses, accuses>>

-----------------------------------------------------------------------------
(* The remote, as the library calls back. *)

\* The channel leaves the Ready state for an exchange, and comes back to it.
Canal ==
  /\ pret' = ~pret
  /\ UNCHANGED <<partage, boucle, clip, vue, colles, compte, reponses, accuses>>

PeutDemander == compte.demandes < DEMANDES_MAX /\ compte' = [compte EXCEPT !.demandes = @ + 1]

\* on_remote_copy: nothing is asked when the sharing is cut.
DistantCopie ==
  /\ PeutDemander
  /\ clip' = IF partage THEN Append(clip, M("RequestPaste", 0)) ELSE clip
  /\ UNCHANGED <<partage, boucle, distant, reponses, accuses>>

\* on_format_data_response: the text that was asked, unless it is too large.
DistantTexte ==
  /\ colles > 0 /\ colles' = colles - 1
  /\ \/ clip' = Append(clip, M("RemoteText", 0))
     \/ UNCHANGED clip
  /\ UNCHANGED <<partage, boucle, pret, vue, compte, reponses, accuses>>

\* on_format_data_request: the text, or an error.
DemanderTexte ==
  /\ vue = "texte" /\ PeutDemander
  /\ clip' = Append(clip, M("ServeData", IF partage THEN texte ELSE 0))
  /\ attendues' = attendues + 1
  /\ UNCHANGED <<partage, boucle, distant, jetees, accuses>>

\* on_file_contents_request: of the lock it names (0: none); when the sharing
\* is cut, an error is answered all the same.
DemanderContenu_Muet(v) ==
  /\ vue = "fichiers" /\ PeutDemander
  /\ clip' = IF partage THEN Append(clip, M("ServirContenu", v)) ELSE clip
  /\ attendues' = attendues + 1
  /\ UNCHANGED <<partage, boucle, distant, jetees, accuses>>
DemanderContenu(v) ==
  /\ vue = "fichiers" /\ PeutDemander
  /\ clip' = Append(clip, IF partage THEN M("ServirContenu", v) ELSE M("RefuserContenu", 0))
  /\ attendues' = attendues + 1
  /\ UNCHANGED <<partage, boucle, distant, jetees, accuses>>

\* on_lock, on_unlock.
Verrouiller(v) ==
  /\ vue = "fichiers" /\ PeutDemander
  /\ \E t \in {"Verrou", "Deverrou"} : clip' = Append(clip, M(t, v))
  /\ UNCHANGED <<partage, boucle, distant, reponses, accuses>>

-----------------------------------------------------------------------------
(* The loop takes a message of the queue. *)

Tete(t) == clip # <<>> /\ Head(clip).t = t /\ clip' = Tail(clip)

\* initiate_copy of the text: dropped when the channel does not take it.
Advertise ==
  /\ Tete("Advertise")
  /\ vue' = IF pret THEN "texte" ELSE vue
  /\ UNCHANGED <<partage, boucle, pret, colles, compte, reponses, accuses>>

\* initiate_paste, refused too when the channel is not ready; a text goes to
\* the page.
Coller ==
  /\ \/ Tete("RequestPaste") /\ colles' = IF pret THEN colles + 1 ELSE colles
     \/ Tete("RemoteText") /\ UNCHANGED colles
  /\ UNCHANGED <<partage, boucle, pret, vue, compte, reponses, accuses>>

\* submit_format_data, submit_file_contents: the locked copy, else the offer, else an
\* error.  What the channel does not take, it may refuse when it is not ready, is
\* dropped without a word.
Repondre ==
  /\ Tete("ServeData") \/ Tete("ServirContenu") \/ Tete("RefuserContenu")
  /\ \/ attendues' = attendues - 1 /\ UNCHANGED jetees
     \/ ~pret /\ jetees' = jetees + 1 /\ UNCHANGED attendues
  /\ UNCHANGED <<partage, boucle, distant, compte, accuses>>

\* At most VERROUS_MAX copies are kept.
Verrou ==
  /\ Tete("Verrou")
  /\ verrous' = IF offre # 0 /\ Cardinality({w \in Verrous : verrous[w] # 0}) < VERROUS_MAX
                THEN [verrous EXCEPT ![Head(clip).n] = offre] ELSE verrous
  /\ UNCHANGED <<partage, texte, offre, attente, distant, compte, reponses, accuses>>
Deverrou ==
  /\ Tete("Deverrou")
  /\ verrous' = [verrous EXCEPT ![Head(clip).n] = 0]
  /\ UNCHANGED <<partage, texte, offre, attente, distant, compte, reponses, accuses>>

-----------------------------------------------------------------------------
Page == Texte \/ Offrir \/ Basculer
Distant == \/ Canal \/ DistantCopie \/ DistantTexte \/ DemanderTexte
           \/ \E v \in Verrous \cup {0} : DemanderContenu(v)
           \/ \E v \in Verrous : Verrouiller(v)
Prendre == Advertise \/ Coller \/ Repondre \/ Verrou \/ Deverrou
Next == Page \/ Tic \/ Passer \/ Distant \/ Prendre

\* The ticks come, the clock turns, the loop takes its messages.
Equite == WF_vars(Tic) /\ WF_vars(Passer) /\ WF_vars(Prendre)
Spec == Init /\ [][Next]_vars /\ Equite

-----------------------------------------------------------------------------
(* Properties. *)

DeDistant == {"ServeData", "ServirContenu", "RefuserContenu"}

\* Every request of the remote for a text or for a piece of a file has its
\* answer, the message that makes it, or an answer that a channel that was not ready
\* refused: cutting the sharing between the request and the message loses none
\* (on_file_contents_request, which answers an error when the sharing is cut).
ReponseContenu == attendues = Len(SelectSeq(clip, LAMBDA m : m.t \in DeDistant)) + jetees

\* A file offered while the channel is taken leaves, or its failure is said,
\* however the channel comes and goes (the tick of session.rs and
\* DELAI_CANAL_PRET).
OffreAboutit == (attente # SansAttente) ~> (attente = SansAttente)

\* The receipt of an offer that waits for the channel leaves later: the page
\* is owed a receipt for the offers that wait, and for no other.
AccuseTenu == \A o \in accuses : o = attente.o
===============================================================================
