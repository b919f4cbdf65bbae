-------------------------------- MODULE Vnc --------------------------------
(***************************************************************************)
(* The VNC session (rdp-sidecar/src/vnc.rs): the event loop between an RFB *)
(* server, which sends what it is asked for, and the tab, which            *)
(* acknowledges what it paints.                                            *)
(*                                                                         *)
(* The server answers one request by one update, made of rectangles, moves *)
(* and changes of size, and ended by UpdateDone.  The client library turns *)
(* them into events, which the loop takes all at once.  The loop asks for  *)
(* the next update once the last one ended, never while the tab is hidden. *)
(*                                                                         *)
(* As in Cadence the screen is a set of zones, a content is a number and a *)
(* change of size is the stretched image with nothing left dirty.  A text *)
(* of the clipboard is its length class or the number of its announcement. *)
(***************************************************************************)
EXTENDS Naturals, Sequences

CONSTANTS
  ZonesVnc,     \* parts of the screen, numbered from the top
  DESSINS_MAX,  \* drawings of the server (bounds the model)
  TAILLES_MAX,  \* changes of size (bounds the model)
  VIDES_MAX,    \* updates without a rectangle (bounds the model)
  TEXTES_MAX,   \* texts copied on the server (bounds the model)
  GESTES_MAX,   \* gestures of the user (bounds the model)
  NoirVnc       \* the content of a canvas that was lost

VncAssumption ==
  /\ ZonesVnc \subseteq Nat
  /\ {DESSINS_MAX, TAILLES_MAX, VIDES_MAX, TEXTES_MAX, GESTES_MAX} \subseteq Nat
  /\ NoirVnc \notin Nat

VARIABLES
  ecran,          \* the server: content of each zone, and how far it has drawn
  connu,          \* what the client shows once every event is applied
  change,         \* zones that differ from `connu`, or that the server will repeat
  demandes,       \* requests the server has not answered
  borne,          \* drawings, changes of size, empty updates, texts so far
  evenements,     \* events of the library, not yet taken
  imageV, dirtyV, attente,       \* image, dirty, awaiting_ack of the loop
  pauseV, demande_en_vol,        \* en_pause and demande_en_vol of the loop
  partage_clip, memoire_clip, boutons,   \* as in the loop
  fileV, entrees,       \* WebSocket, the two directions
  canvasV, afficheV,    \* what the tab shows; is it displayed?
  tenus, texte, gestes, \* the user: buttons held, last text copied, gestures
  partage, colles,      \* the user: sharing on?; history: texts pasted while it was
  masque, poste         \* the server: last mask of buttons, texts it was given

serveurVarsVnc == <<ecran, connu, change, borne>>
boucleVars == <<imageV, dirtyV, attente, pauseV, demande_en_vol,
                partage_clip, memoire_clip, boutons>>
utilisateurVars == <<afficheV, tenus, texte, gestes, partage, colles>>
varsVnc == <<serveurVarsVnc, demandes, evenements, boucleVars, fileV, entrees,
          canvasV, utilisateurVars, masque, poste>>

-----------------------------------------------------------------------------
ContenusVnc == 0 .. DESSINS_MAX
Boutons == {"gauche", "haut"}   \* one of the mouse, one of the wheel
Bornes == [dessins : Nat, tailles : Nat, vides : Nat, textes : Nat]

Brut(z, c) == [type |-> "brut", zone |-> z, contenu |-> c]
Copie(z, s) == [type |-> "copie", zone |-> z, source |-> s]
Fin == [type |-> "fin"]
TailleVnc == [type |-> "taille"]
Texte(long) == [type |-> "texte", long |-> long]

ImageVnc(zones) == [type |-> "image", zones |-> zones]
Message(m) == [type |-> m]

TypesVnc ==
  /\ ecran \in [ZonesVnc -> ContenusVnc] /\ connu \in [ZonesVnc -> ContenusVnc]
  /\ change \in SUBSET ZonesVnc
  /\ demandes \in 0 .. 1
  /\ borne \in Bornes
  /\ \A i \in DOMAIN evenements :
       evenements[i].type \in {"brut", "copie", "fin", "taille", "texte"}
  /\ imageV \in [ZonesVnc -> ContenusVnc] /\ dirtyV \in SUBSET ZonesVnc
  /\ {attente, pauseV, demande_en_vol, partage_clip, afficheV, partage} \subseteq BOOLEAN
  /\ \A i \in DOMAIN fileV : fileV[i].type \in {"image", "connecte", "texte"}
  /\ \A i \in DOMAIN entrees :
       entrees[i].type \in {"ack", "pause", "reprise", "refresh", "partage", "annonce",
                            "coller", "appui", "relache", "molette"}
  /\ canvasV \in [ZonesVnc -> ContenusVnc \cup {NoirVnc}]
  /\ {boutons, tenus, masque} \subseteq SUBSET Boutons
  /\ {memoire_clip, texte} \subseteq Nat /\ gestes \in 0 .. GESTES_MAX
  /\ poste \in SUBSET Nat /\ colles \in SUBSET Nat

\* Connected, the size announced; the library has asked for the whole screen.
InitVnc ==
  /\ ecran = [z \in ZonesVnc |-> 0] /\ connu = ecran /\ change = ZonesVnc
  /\ demandes = 1
  /\ borne = [dessins |-> 0, tailles |-> 0, vides |-> 0, textes |-> 0]
  /\ evenements = << >>
  /\ imageV = ecran /\ dirtyV = {} /\ attente = FALSE /\ pauseV = FALSE
  /\ demande_en_vol = TRUE
  /\ partage_clip = TRUE /\ memoire_clip = 0 /\ boutons = {}
  /\ fileV = << >> /\ entrees = << >>
  /\ canvasV = [z \in ZonesVnc |-> NoirVnc] /\ afficheV = TRUE
  /\ tenus = {} /\ texte = 0 /\ gestes = 0 /\ partage = TRUE /\ colles = {}
  /\ masque = {} /\ poste = {}

-----------------------------------------------------------------------------
(* The server.                                                             *)

Borner(quoi, max) == borne[quoi] < max /\ borne' = [borne EXCEPT ![quoi] = @ + 1]

Signaler(e) ==
  /\ evenements' = Append(evenements, e)
  /\ UNCHANGED <<boucleVars, fileV, entrees, canvasV, utilisateurVars, masque, poste>>

\* It draws a zone, or moves one onto another.
Dessiner(z) ==
  /\ Borner("dessins", DESSINS_MAX)
  /\ ecran' \in {[ecran EXCEPT ![z] = c] : c \in {borne.dessins + 1} \cup {ecran[s] : s \in ZonesVnc}}
  /\ change' = change \cup {z}
  /\ UNCHANGED <<connu, demandes, evenements, boucleVars, fileV, entrees, canvasV,
                 utilisateurVars, masque, poste>>

\* It answers a request, from the top down: a changed zone, as pixels or as a move
\* within what the client already shows.
Envoyer(z) ==
  /\ demandes > 0 /\ z \in change /\ \A y \in change : z <= y
  /\ connu' = [connu EXCEPT ![z] = ecran[z]]
  /\ change' = change \ {z}
  /\ \/ Signaler(Brut(z, ecran[z]))
     \/ \E s \in ZonesVnc \ {z} : connu[s] = ecran[z] /\ Signaler(Copie(z, s))
  /\ UNCHANGED <<ecran, demandes, borne>>

\* A change of size goes with an update, and the whole screen is to be sent again.
RetaillerVnc ==
  /\ demandes > 0
  /\ Borner("tailles", TAILLES_MAX)
  /\ change' = ZonesVnc
  /\ Signaler(TailleVnc)
  /\ UNCHANGED <<ecran, connu, demandes>>

\* The update ends: everything changed was sent, or it is one without a rectangle.
FinirEnvoi ==
  /\ demandes > 0
  /\ \/ change = {} /\ UNCHANGED borne
     \/ Borner("vides", VIDES_MAX)
  /\ demandes' = demandes - 1
  /\ Signaler(Fin)
  /\ UNCHANGED <<ecran, connu, change>>

Copier(long) ==
  /\ Borner("textes", TEXTES_MAX)
  /\ Signaler(Texte(long))
  /\ UNCHANGED <<ecran, connu, change, demandes>>

-----------------------------------------------------------------------------
(* The loop.                                                               *)

\* The part of the loop's state an event changes.
Boucle == [imageV |-> imageV, dirtyV |-> dirtyV, attente |-> attente, file |-> fileV,
           recue |-> FALSE]

\* flush_dirty!
Flush(b, pause) ==
  IF ~b.attente /\ ~pause /\ b.dirtyV # {}
  THEN [b EXCEPT !.file = Append(@, ImageVnc([z \in b.dirtyV |-> b.imageV[z]])),
                 !.dirtyV = {}, !.attente = TRUE]
  ELSE b

Rendre(boucle) ==
  \E b \in {boucle} :
    imageV' = b.imageV /\ dirtyV' = b.dirtyV /\ attente' = b.attente /\ fileV' = b.file

Peint(b, z, c) ==
  [b EXCEPT !.imageV[z] = c, !.dirtyV = @ \cup {z}, !.recue = TRUE]

\* One event of the library, on the loop's state.
Appliquer(b, e) ==
  CASE e.type = "brut" -> Peint(b, e.zone, e.contenu)
    [] e.type = "copie" -> Peint(b, e.zone, b.imageV[e.source])
    [] e.type = "fin" -> b
    [] e.type = "taille" -> [b EXCEPT !.dirtyV = {}, !.attente = FALSE,
                                      !.file = Append(@, Message("connecte"))]
    [] e.type = "texte" -> IF partage_clip /\ ~e.long
                           THEN [b EXCEPT !.file = Append(@, Message("texte"))] ELSE b

\* The ends of updates that wait: one of them ends the request.
Fins == {i \in DOMAIN evenements : evenements[i].type = "fin"}

\* The loop's state once everything that waits was taken.
Lot ==
  LET apres[i \in 0 .. Len(evenements)] ==
        IF i = 0 THEN Boucle ELSE Appliquer(apres[i - 1], evenements[i])
  IN apres[Len(evenements)]

\* A slip: asks again without looking whether an answer is still due.
Demander_Toujours(pause, enVol) ==
  IF ~pause
  THEN demandes' = demandes + 1 /\ demande_en_vol' = TRUE
  ELSE UNCHANGED demandes /\ demande_en_vol' = enVol

\* demander_la_suite!
Demander(pause, enVol) ==
  IF ~pause /\ ~enVol
  THEN demandes' = demandes + 1 /\ demande_en_vol' = TRUE
  ELSE UNCHANGED demandes /\ demande_en_vol' = enVol

\* The old code: only an update that brought an image ended the request.
Recevoir_SiImage ==
  /\ evenements # << >>
  /\ \E b \in {Lot} :
       /\ Rendre(IF b.recue THEN Flush(b, pauseV) ELSE b)
       /\ IF Fins # {} /\ b.recue THEN Demander(pauseV, FALSE)
                                  ELSE UNCHANGED <<demandes, demande_en_vol>>
  /\ evenements' = << >>
  /\ UNCHANGED <<serveurVarsVnc, pauseV, partage_clip, memoire_clip, boutons, entrees,
                 canvasV, utilisateurVars, masque, poste>>

\* Everything that waits, in one turn of the loop.
Recevoir ==
  /\ evenements # << >>
  /\ \E b \in {Lot} : Rendre(IF b.recue THEN Flush(b, pauseV) ELSE b)
  /\ IF Fins # {} THEN Demander(pauseV, FALSE) ELSE UNCHANGED <<demandes, demande_en_vol>>
  /\ evenements' = << >>
  /\ UNCHANGED <<serveurVarsVnc, pauseV, partage_clip, memoire_clip, boutons, entrees,
                 canvasV, utilisateurVars, masque, poste>>

LireVnc(types) ==
  /\ entrees # << >> /\ Head(entrees).type \in types
  /\ entrees' = Tail(entrees)
  /\ UNCHANGED <<serveurVarsVnc, evenements, canvasV, utilisateurVars>>

LireAckVnc ==
  /\ LireVnc({"ack"})
  /\ Rendre(Flush([Boucle EXCEPT !.attente = FALSE], pauseV))
  /\ UNCHANGED <<demandes, pauseV, demande_en_vol, partage_clip, memoire_clip, boutons,
                 masque, poste>>

LirePauseVnc ==
  /\ LireVnc({"pause", "reprise"})
  /\ pauseV' = (Head(entrees).type = "pause")
  /\ IF pauseV' THEN Rendre(Boucle) /\ UNCHANGED <<demandes, demande_en_vol>>
                  ELSE Rendre(Flush(Boucle, FALSE)) /\ Demander(FALSE, demande_en_vol)
  /\ UNCHANGED <<partage_clip, memoire_clip, boutons, masque, poste>>

\* REFRESH: the whole image, whatever is awaited.
LireRefreshVnc ==
  /\ LireVnc({"refresh"})
  /\ Rendre([Boucle EXCEPT !.file = Append(@, ImageVnc(imageV)), !.dirtyV = {}, !.attente = TRUE])
  /\ pauseV' = FALSE
  /\ Demander(FALSE, demande_en_vol)
  /\ UNCHANGED <<partage_clip, memoire_clip, boutons, masque, poste>>

\* The clipboard: the announcement is only remembered, the paste sends it.
LirePresse_Annonce ==
  /\ LireVnc({"partage", "annonce", "coller"})
  /\ LET m == Head(entrees) IN
       /\ partage_clip' = IF m.type = "partage" THEN m.valeur ELSE partage_clip
       /\ memoire_clip' = IF m.type = "annonce" THEN m.valeur ELSE memoire_clip
       /\ poste' = IF m.type = "annonce" /\ partage_clip THEN poste \cup {m.valeur} ELSE poste
  /\ UNCHANGED <<demandes, imageV, dirtyV, attente, pauseV, demande_en_vol, boutons,
                 fileV, masque>>

LirePresse ==
  /\ LireVnc({"partage", "annonce", "coller"})
  /\ LET m == Head(entrees) IN
       /\ partage_clip' = IF m.type = "partage" THEN m.valeur ELSE partage_clip
       /\ memoire_clip' = IF m.type = "annonce" THEN m.valeur ELSE memoire_clip
       /\ poste' = IF m.type = "coller" /\ partage_clip /\ memoire_clip # 0
                   THEN poste \cup {memoire_clip} ELSE poste
  /\ UNCHANGED <<demandes, imageV, dirtyV, attente, pauseV, demande_en_vol, boutons,
                 fileV, masque>>

\* Pointeur::appliquer: a press and a release change the mask that goes with
\* every position; a notch of the wheel is a press and a release of its own.
LireSouris_Cran ==
  /\ LireVnc({"appui", "relache", "molette"})
  /\ LET m == Head(entrees).type IN
       /\ boutons' = CASE m = "appui" -> boutons \cup {"gauche"}
                       [] m = "relache" -> boutons \ {"gauche"}
                       [] m = "molette" -> boutons \cup {"haut"}
       /\ masque' = boutons'
  /\ UNCHANGED <<demandes, imageV, dirtyV, attente, pauseV, demande_en_vol, partage_clip,
                 memoire_clip, fileV, poste>>

LireSouris ==
  /\ LireVnc({"appui", "relache", "molette"})
  /\ LET m == Head(entrees).type IN
       /\ boutons' = CASE m = "appui" -> boutons \cup {"gauche"}
                       [] m = "relache" -> boutons \ {"gauche"}
                       [] m = "molette" -> boutons
       /\ masque' = boutons'
  /\ UNCHANGED <<demandes, imageV, dirtyV, attente, pauseV, demande_en_vol, partage_clip,
                 memoire_clip, fileV, poste>>

\* The tick: past ACK_TIMEOUT the tab is taken for free again.
TicVnc(passe) ==
  /\ passe => attente
  /\ Rendre(Flush([Boucle EXCEPT !.attente = @ /\ ~passe], pauseV))
  /\ Demander(pauseV, demande_en_vol)
  /\ UNCHANGED <<serveurVarsVnc, evenements, pauseV, partage_clip, memoire_clip, boutons,
                 entrees, canvasV, utilisateurVars, masque, poste>>

-----------------------------------------------------------------------------
(* The tab and its user.                                                   *)

\* A frame is painted and acknowledged; a text goes to the clipboard of the user.
Afficher ==
  /\ fileV # << >>
  /\ fileV' = Tail(fileV)
  /\ LET m == Head(fileV) IN
       IF m.type = "image"
       THEN /\ canvasV' = [z \in ZonesVnc |-> IF z \in DOMAIN m.zones THEN m.zones[z] ELSE canvasV[z]]
            /\ entrees' = Append(entrees, Message("ack"))
       ELSE UNCHANGED <<canvasV, entrees>>
  /\ UNCHANGED <<serveurVarsVnc, demandes, evenements, boucleVars, utilisateurVars, masque, poste>>

Geste(messages) ==
  /\ gestes < GESTES_MAX /\ gestes' = gestes + 1
  /\ entrees' = entrees \o messages
  /\ UNCHANGED <<serveurVarsVnc, demandes, evenements, boucleVars, fileV, masque, poste>>

CacherVnc ==
  /\ afficheV /\ afficheV' = FALSE
  /\ Geste(<<Message("pause")>>)
  /\ UNCHANGED <<canvasV, tenus, texte, partage, colles>>

\* A canvas that was hidden may have lost its content.
MontrerVnc ==
  /\ ~afficheV /\ afficheV' = TRUE
  /\ canvasV' \in {canvasV, [z \in ZonesVnc |-> NoirVnc]}
  /\ Geste(<<Message("reprise"), Message("refresh")>>)
  /\ UNCHANGED <<tenus, texte, partage, colles>>

PartagerVnc ==
  /\ partage' = ~partage
  /\ Geste(<<[type |-> "partage", valeur |-> partage']>>)
  /\ UNCHANGED <<canvasV, afficheV, tenus, texte, colles>>

\* The user copies a text: it is announced when the tab gets the focus.
AnnoncerTexte ==
  /\ texte' = texte + 1
  /\ Geste(<<[type |-> "annonce", valeur |-> texte']>>)
  /\ UNCHANGED <<canvasV, afficheV, tenus, partage, colles>>

Coller ==
  /\ colles' = IF partage /\ texte # 0 THEN colles \cup {texte} ELSE colles
  /\ Geste(<<Message("coller")>>)
  /\ UNCHANGED <<canvasV, afficheV, tenus, texte, partage>>

Souris ==
  /\ \/ tenus' = tenus \cup {"gauche"} /\ Geste(<<Message("appui")>>)
     \/ tenus' = tenus \ {"gauche"} /\ Geste(<<Message("relache")>>)
     \/ tenus' = tenus /\ Geste(<<Message("molette")>>)
  /\ UNCHANGED <<canvasV, afficheV, texte, partage, colles>>

-----------------------------------------------------------------------------
Serveur == (\E z \in ZonesVnc : Envoyer(z)) \/ FinirEnvoi

LireMessageVnc == LireAckVnc \/ LirePauseVnc \/ LireRefreshVnc \/ LirePresse \/ LireSouris

Vue == CacherVnc \/ MontrerVnc

Saisie == PartagerVnc \/ AnnoncerTexte \/ Coller \/ Souris

NextVnc ==
  \/ \E z \in ZonesVnc : Dessiner(z)
  \/ Serveur \/ RetaillerVnc
  \/ \E long \in BOOLEAN : Copier(long)
  \/ Recevoir \/ LireMessageVnc
  \/ \E passe \in BOOLEAN : TicVnc(passe)
  \/ Afficher \/ Vue \/ Saisie

SpecVnc == InitVnc /\ [][NextVnc]_varsVnc

\* The server answers, the loop reads its three sources, the tab its socket.
\* Nothing is asked of the user, of the drawings or of the timeout.
FairnessVnc ==
  /\ WF_varsVnc(Serveur) /\ WF_varsVnc(Recevoir) /\ WF_varsVnc(LireMessageVnc)
  /\ WF_varsVnc(TicVnc(FALSE)) /\ WF_varsVnc(Afficher)

FairSpecVnc == SpecVnc /\ FairnessVnc

-----------------------------------------------------------------------------
(* Properties.                                                             *)

\* One request at most is out, and the loop knows it: it believes an answer is
\* due exactly when the server still has a request, or the end of its answer is
\* on the way.  A request forgotten would freeze the desktop.
DemandeVraie ==
  demande_en_vol <=> (demandes = 1 \/ Fins # {})

\* The server is told what the user does, and nothing else: once every input is
\* read, the buttons it takes for held are those the user holds (a notch of the
\* wheel never stays down), and a text of the user reached it only by a paste,
\* made while the sharing was on.
EntreesFideles ==
  /\ entrees = << >> => masque = tenus
  /\ poste \subseteq colles

VncTenu == DemandeVraie /\ EntreesFideles

\* A tab that stays displayed ends up showing the screen of the server, whatever
\* the pauses, the empty updates and the changes of size on the way.
BureauSuivi == <>[]afficheV => <>[](canvasV = ecran)
=============================================================================
