------------------------------ MODULE Cadence ------------------------------
(***************************************************************************)
(* The pacing of the images of a remote desktop: the event loop of the RDP *)
(* process (rdp-sidecar/src/session.rs) and the tab that shows it          *)
(* (web/rdp.ts, web/vue-partagee.ts).                                      *)
(*                                                                         *)
(* The server draws into `image`; what the tab has not received yet is in  *)
(* `dirty`.  A frame carries the content of every dirty zone at the time   *)
(* it is sent; the tab paints it and acknowledges.  The next frame leaves  *)
(* when the acknowledgement arrives or ACK_TIMEOUT has passed, never while *)
(* the tab is hidden.  The two directions of the WebSocket are queues.     *)
(*                                                                         *)
(* The screen is a set of zones and a content the number of the drawing    *)
(* that made it.  A bounding box that covers more zones than were drawn    *)
(* only sends more of `image`; the size itself is abstracted, what matters *)
(* is that a change of size empties `dirty`.                               *)
(***************************************************************************)
EXTENDS Naturals, Sequences, FiniteSets

CONSTANTS
  Zones,        \* parts of the screen
  MaxDessins,   \* drawings of the server (bounds the model)
  MaxTailles,   \* changes of size (bounds the model)
  MaxBascules,  \* times the user hides, shows or shares the tab (bounds the model)
  Noir          \* the content of a canvas that was lost

ASSUME CadenceAssumption ==
  /\ IsFiniteSet(Zones)
  /\ MaxDessins \in Nat /\ MaxTailles \in Nat /\ MaxBascules \in Nat
  /\ Noir \notin Nat

VARIABLES
  image,          \* DecodedImage: the drawing each zone shows
  du,             \* zones the server has still to redraw after a change of size
  dessins,        \* drawings so far
  tailles,        \* changes of size so far
  dirty,          \* zones drawn and not sent
  awaiting_ack,   \* a frame was sent and the webview is thought to be busy
  en_pause,       \* the tab is hidden
  vers_page,      \* WebSocket, process to tab
  vers_processus, \* WebSocket, tab to process
  canvas,         \* what the tab shows
  affiche,        \* is the canvas displayed?
  bascules,       \* hidings, showings and sharings so far
  deplace         \* history: the canvas was moved and its image not asked for since

serveurVars == <<image, du, dessins, tailles>>
pageVars == <<canvas, affiche, bascules, deplace>>
cadenceVars == <<dirty, awaiting_ack, vers_page>>
varsCadence == <<serveurVars, cadenceVars, en_pause, vers_processus, pageVars>>

-----------------------------------------------------------------------------
Contenus == 0 .. MaxDessins

\* [2] and [13], and [1]: a frame with its content, the announcement of a size.
Image(z) == [type |-> "image", zones |-> z]
Taille == [type |-> "connecte", zones |-> << >>]

Trame == {Taille} \cup {Image(c) : c \in UNION {[S -> Contenus] : S \in SUBSET Zones}}

Messages == {"ack", "pause", "reprise", "refresh"}   \* [6], [11 1], [11 0], [9]

TypesCadence ==
  /\ image \in [Zones -> Contenus]
  /\ du \in SUBSET Zones
  /\ dessins \in Contenus
  /\ tailles \in 0 .. MaxTailles
  /\ dirty \in SUBSET Zones
  /\ awaiting_ack \in BOOLEAN
  /\ en_pause \in BOOLEAN
  /\ vers_page \in Seq(Trame)
  /\ vers_processus \in Seq(Messages)
  /\ canvas \in [Zones -> Contenus \cup {Noir}]
  /\ affiche \in BOOLEAN
  /\ bascules \in 0 .. MaxBascules
  /\ deplace \in BOOLEAN

\* The session is connected, the size announced, the tab in front.  The server
\* draws the whole desktop first.
InitCadence ==
  /\ image = [z \in Zones |-> 0]
  /\ du = Zones
  /\ dessins = 0
  /\ tailles = 0
  /\ dirty = {}
  /\ awaiting_ack = FALSE
  /\ en_pause = FALSE
  /\ vers_page = << >>
  /\ vers_processus = << >>
  /\ canvas = [z \in Zones |-> Noir]
  /\ affiche = TRUE
  /\ bascules = 0
  /\ deplace = FALSE

\* Slips of the macro: the pause is not looked at; the dirty zone is emptied
\* whether the frame leaves or not.
Emettre_EnPause(im, sale, attente, pause, file) ==
  IF ~attente /\ sale # {}
  THEN /\ vers_page' = Append(file, Image([z \in sale |-> im[z]]))
       /\ dirty' = {}
       /\ awaiting_ack' = TRUE
  ELSE /\ vers_page' = file
       /\ dirty' = sale
       /\ awaiting_ack' = attente

Emettre_Oublie(im, sale, attente, pause, file) ==
  /\ vers_page' = IF ~attente /\ ~pause /\ sale # {}
                  THEN Append(file, Image([z \in sale |-> im[z]])) ELSE file
  /\ dirty' = {}
  /\ awaiting_ack' = (attente \/ (~pause /\ sale # {}))

\* flush_dirty!: sends what is dirty if the way is free.
Emettre(im, sale, attente, pause, file) ==
  IF ~attente /\ ~pause /\ sale # {}
  THEN /\ vers_page' = Append(file, Image([z \in sale |-> im[z]]))
       /\ dirty' = {}
       /\ awaiting_ack' = TRUE
  ELSE /\ vers_page' = file
       /\ dirty' = sale
       /\ awaiting_ack' = attente

-----------------------------------------------------------------------------
(* The server.                                                             *)

\* A drawing: painted, added to the dirty zone, sent if the way is free.  The
\* drawings the server owes after a change of size are not counted against
\* the bound of its own.
DessinerZone(z) ==
  /\ dessins + Cardinality(du \ {z}) < MaxDessins
  /\ dessins' = dessins + 1
  /\ image' = [image EXCEPT ![z] = dessins + 1]
  /\ du' = du \ {z}
  /\ Emettre(image', dirty \cup {z}, awaiting_ack, en_pause, vers_page)
  /\ UNCHANGED <<tailles, en_pause, vers_processus, pageVars>>

\* nouvelle_taille: the image is the old one stretched, `dirty` is emptied, the
\* frame in flight is no longer waited for, the new size is announced.
ChangerTaille ==
  /\ tailles < MaxTailles
  /\ dessins + Cardinality(Zones) <= MaxDessins
  /\ tailles' = tailles + 1
  /\ du' = Zones
  /\ dirty' = {}
  /\ awaiting_ack' = FALSE
  /\ vers_page' = Append(vers_page, Taille)
  /\ UNCHANGED <<image, dessins, en_pause, vers_processus, pageVars>>

-----------------------------------------------------------------------------
(* The process reads what the tab sends.                                   *)

Lire(m) ==
  /\ vers_processus # << >>
  /\ Head(vers_processus) = m
  /\ vers_processus' = Tail(vers_processus)

LireAck ==
  /\ Lire("ack")
  /\ Emettre(image, dirty, FALSE, en_pause, vers_page)
  /\ UNCHANGED <<serveurVars, en_pause, pageVars>>

LirePause ==
  /\ Lire("pause")
  /\ en_pause' = TRUE
  /\ UNCHANGED <<serveurVars, cadenceVars, pageVars>>

\* A slip: only REFRESH lifts the pause.
LireReprise_SansLever ==
  /\ Lire("reprise")
  /\ Emettre(image, dirty, awaiting_ack, en_pause, vers_page)
  /\ UNCHANGED <<serveurVars, en_pause, pageVars>>

LireReprise ==
  /\ Lire("reprise")
  /\ en_pause' = FALSE
  /\ Emettre(image, dirty, awaiting_ack, FALSE, vers_page)
  /\ UNCHANGED <<serveurVars, pageVars>>

\* REFRESH: the whole image, out of turn; the pause is lifted.
LireRefresh ==
  /\ Lire("refresh")
  /\ vers_page' = Append(vers_page, Image(image))
  /\ dirty' = {}
  /\ awaiting_ack' = TRUE
  /\ en_pause' = FALSE
  /\ UNCHANGED <<serveurVars, pageVars>>

\* The tick: past ACK_TIMEOUT the webview is taken for free again.
Tic(passe) ==
  /\ passe => awaiting_ack
  /\ Emettre(image, dirty, awaiting_ack /\ ~passe, en_pause, vers_page)
  /\ UNCHANGED <<serveurVars, en_pause, vers_processus, pageVars>>

-----------------------------------------------------------------------------
(* The tab.                                                                *)

\* A slip: the frame takes the place of the canvas.
Peindre_Remplace ==
  /\ vers_page # << >>
  /\ LET m == Head(vers_page) IN m.type = "image" /\ canvas' = m.zones
  /\ vers_page' = Tail(vers_page)
  /\ vers_processus' = Append(vers_processus, "ack")
  /\ UNCHANGED <<serveurVars, dirty, awaiting_ack, en_pause, affiche, bascules, deplace>>

\* An image: painted and acknowledged.
Peindre ==
  /\ vers_page # << >>
  /\ LET m == Head(vers_page) IN
       /\ m.type = "image"
       /\ canvas' = [z \in Zones |-> IF z \in DOMAIN m.zones THEN m.zones[z] ELSE canvas[z]]
  /\ vers_page' = Tail(vers_page)
  /\ vers_processus' = Append(vers_processus, "ack")
  /\ UNCHANGED <<serveurVars, dirty, awaiting_ack, en_pause, affiche, bascules, deplace>>

\* A new size: the canvas keeps its image, stretched.
Retailler ==
  /\ vers_page # << >>
  /\ Head(vers_page) = Taille
  /\ vers_page' = Tail(vers_page)
  /\ UNCHANGED <<serveurVars, dirty, awaiting_ack, en_pause, vers_processus, pageVars>>

Basculer == bascules < MaxBascules /\ bascules' = bascules + 1

Perdu == [z \in Zones |-> Noir]

\* doitRafraichir, of a tab whose socket is open.
DoitRafraichir(reparente) == ~affiche \/ reparente

\* focusRdp: every desktop is told whether it is displayed; the one that takes
\* the focus and was hidden, or was moved to a pane, also asks for the whole image.
Montrer(reparente) ==
  /\ Basculer
  /\ affiche' = TRUE
  /\ canvas' \in IF reparente THEN {canvas, Perdu} ELSE {canvas}
  /\ vers_processus' = vers_processus
       \o (IF DoitRafraichir(reparente) THEN <<"reprise", "refresh">> ELSE <<"reprise">>)
  /\ deplace' = (deplace /\ ~DoitRafraichir(reparente))
  /\ UNCHANGED <<serveurVars, cadenceVars, en_pause>>

\* Another tab takes the place.
Cacher ==
  /\ Basculer
  /\ affiche
  /\ affiche' = FALSE
  /\ vers_processus' = Append(vers_processus, "pause")
  /\ UNCHANGED <<serveurVars, cadenceVars, en_pause, canvas, deplace>>

\* The content of a canvas that is not displayed may be lost.
Effacer ==
  /\ ~affiche
  /\ canvas' = Perdu
  /\ UNCHANGED <<serveurVars, cadenceVars, en_pause, vers_processus, affiche, bascules, deplace>>

\* appliquerVue for a desktop that does not take the focus (the other pane):
\* its canvas is moved, possibly lost, and displayed; it is told so.
Partager ==
  /\ Basculer
  /\ affiche' = TRUE
  /\ canvas' \in {canvas, Perdu}
  /\ vers_processus' = Append(vers_processus, "reprise")
  /\ deplace' = TRUE
  /\ UNCHANGED <<serveurVars, cadenceVars, en_pause>>

-----------------------------------------------------------------------------
LireMessage == LireAck \/ LirePause \/ LireReprise \/ LireRefresh

Page == Peindre \/ Retailler

NextCadence ==
  \/ \E z \in Zones : DessinerZone(z)
  \/ ChangerTaille
  \/ LireMessage
  \/ \E passe \in BOOLEAN : Tic(passe)
  \/ Page
  \/ \E reparente \in BOOLEAN : Montrer(reparente)
  \/ Cacher \/ Effacer \/ Partager

SpecCadence == InitCadence /\ [][NextCadence]_varsCadence

\* The loop reads its socket and its timer, the page its socket, and the server
\* redraws what it owes after a change of size.  The user owes nothing.
FairnessCadence ==
  /\ WF_varsCadence(LireMessage)
  /\ WF_varsCadence(\E passe \in BOOLEAN : Tic(passe))
  /\ WF_varsCadence(Page)
  /\ \A z \in Zones : WF_varsCadence(z \in du /\ DessinerZone(z))

FairSpecCadence == SpecCadence /\ FairnessCadence

-----------------------------------------------------------------------------
(* Properties.                                                             *)

Images == {i \in 1 .. Len(vers_page) : vers_page[i].type = "image"}

Trames(z) == {i \in Images : z \in DOMAIN vers_page[i].zones}

\* What the canvas will show of z once the page has read everything.
Arrivera(z) ==
  IF Trames(z) = {} THEN canvas[z]
  ELSE vers_page[CHOOSE i \in Trames(z) : \A j \in Trames(z) : j <= i].zones[z]

EnFile(m) == \E i \in 1 .. Len(vers_processus) : vers_processus[i] = m

\* Nothing drawn is lost: a zone of a displayed canvas that is behind is dirty,
\* or the frames on their way bring its last content, or the whole image was
\* asked for, or the server has still to redraw it.  The exception is a canvas
\* moved to the other pane, whose image appliquerVue does not ask for.
RienDePerdu ==
  affiche /\ ~deplace => \A z \in Zones :
    z \in dirty \/ z \in du \/ EnFile("refresh") \/ Arrivera(z) = image[z]

\* Once the process has read what it was told, it is paused exactly while the
\* tab is hidden.
PauseSuitLAffichage ==
  (~EnFile("pause") /\ ~EnFile("reprise") /\ ~EnFile("refresh")) => en_pause = ~affiche

\* The state of the tab and of the process.
EcranTenu == TypesCadence /\ RienDePerdu /\ PauseSuitLAffichage

\* A paused process sends no frame.
SilenceEnPause ==
  [][en_pause /\ en_pause' => Cardinality(Images') <= Cardinality(Images)]_varsCadence

\* A tab that stays displayed ends up showing the desktop as it is.
CanvasAJour == <>[](affiche /\ ~deplace) => <>[](canvas = image)
=============================================================================
