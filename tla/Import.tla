------------------------------- MODULE Import -------------------------------
(***************************************************************************)
(* The import of sessions from PuTTY and MobaXterm: the reading of a         *)
(* MobaXterm.ini, of a directory of PuTTY sessions and of the PuTTY registry, *)
(* the list the page offers, and the writing of what was ticked, one host    *)
(* after the other, each with its PuTTY key converted.  A name is a sequence *)
(* of words, blanks and dashes, "*" standing for the characters an alias may *)
(* not hold; "" is what a source leaves out.  The writing of a file is       *)
(* Ecriture, the place of a block in ~/.ssh/config ConfigSsh: here a host is *)
(* added in one step.                                                        *)
(***************************************************************************)
EXTENDS Integers, Sequences, FiniteSets
LOCAL INSTANCE SequencesExt
LOCAL INSTANCE TLC

CONSTANTS
  Sources,      \* what may be read, by name: its kind, and its lines or files in order
  Depart,       \* the hosts declared at the start
  Tiges,        \* the names of key files of ~/.ssh
  Siennes,      \* those that are there at the start
  Enregistres,  \* the desktops saved at the start
  Minuscules,   \* the small letters of the words written with capitals
  Saisies,      \* the names the user may type
  Appels,       \* calls of import_apply, numbered from 1
  GESTES_MAX,   \* scans and changes of the list by the user
  PANNES_MAX    \* files that refuse to be read or written

VARIABLES
  config,    \* the hosts of ~/.ssh/config, in order
  bureaux,   \* the desktops of rdp.yaml
  cles,      \* what each key file of ~/.ssh was made of
  puttygen,  \* is puttygen on the PATH?
  page,      \* the list: is it open, its rows, is the button on?
  analyses,  \* the scans asked for, with their answer
  appel,     \* the calls of import_apply
  gestes, pannes
vars == <<config, bureaux, cles, puttygen, page, analyses, appel, gestes, pannes>>

-----------------------------------------------------------------------------
(* Names and keys.                                                         *)

\* Blanks become dashes and what an alias may not hold goes; of dashes in a row one is
\* left, and none at either end.
AliasDepuisNom(nom) ==
  LET permis == SelectSeq([i \in DOMAIN nom |-> IF nom[i] = " " THEN "-" ELSE nom[i]],
                          LAMBDA c : c # "*")
      Gardes == {i \in DOMAIN permis : \/ permis[i] # "-"
                                       \/ /\ i > 1 /\ permis[i - 1] # "-"
                                          /\ \E j \in DOMAIN permis : j > i /\ permis[j] # "-"}
  IN  [k \in 1 .. Cardinality(Gardes) |-> permis[SetToSortSeq(Gardes, <)[k]]]

\* eq_ignore_ascii_case.
Plie(nom) == [i \in DOMAIN nom |-> IF nom[i] \in DOMAIN Minuscules THEN Minuscules[nom[i]] ELSE nom[i]]

\* The name as it is, else with the first number that is free.
AliasLibre(base, pris) ==
  LET b == IF base = <<>> THEN <<"importe">> ELSE base
      N(n) == b \o <<"-", ToString(n)>>
      Libres == {n \in 2 .. Cardinality(pris) + 2 : N(n) \notin pris}
  IN  IF b \notin pris THEN b ELSE N(CHOOSE n \in Libres : \A m \in Libres : n <= m)

SansCle == [lieu |-> "", tige |-> "", ppk |-> FALSE]

\* A key that OpenSSH reads is kept as it is; a .ppk is set apart.
CleReprise(c) == [cle |-> IF c.ppk THEN SansCle ELSE c, ppk |-> IF c.ppk THEN c ELSE SansCle]

-----------------------------------------------------------------------------
(* The readings.  What is read keeps where it comes from: its source, its    *)
(* line.                                                                     *)

RienLu == [sessions |-> <<>>, bureaux |-> <<>>, ignorees |-> 0]
Ignorer(lu) == [lu EXCEPT !.ignorees = @ + 1]

Session(de, nom, s, cle, dossier) ==
  [de |-> de, alias |-> AliasDepuisNom(nom), hote |-> s.hote, util |-> s.util, port |-> s.port,
   dossier |-> dossier] @@ CleReprise(cle)

BureauMoba(de, l, dossier) ==
  [de |-> de, nom |-> l.nom, hote |-> l.hote, util |-> l.util, dossier |-> dossier,
   port |-> IF l.port = "" THEN "3389" ELSE l.port]

\* A bookmark without a host or a name, or of another protocol, is counted.
Signet(lu, de, l, dossier) ==
  IF l.hote = <<>> \/ AliasDepuisNom(l.nom) = <<>> \/ l.type \notin {"91", "109"} THEN Ignorer(lu)
  ELSE IF l.type = "91" THEN [lu EXCEPT !.bureaux = Append(@, BureauMoba(de, l, dossier))]
  ELSE [lu EXCEPT !.sessions = Append(@, Session(de, l.nom, l, l.cle, dossier))]

\* parse_mobaxterm_ini: a section of bookmarks has its folder.
LigneIni(e, de, l) ==
  CASE l.k = "section" -> [e EXCEPT !.dans = l.signets, !.dossier = ""]
    [] l.k = "SubRep" /\ e.dans -> [e EXCEPT !.dossier = l.v]
    [] l.k = "signet" /\ e.dans -> [e EXCEPT !.lu = Signet(@, de, l, e.dossier)]
    [] OTHER -> e

ParseMobaxtermIni(n, lignes) ==
  FoldLeft(LAMBDA e, i : LigneIni(e, <<n, i>>, lignes[i]),
           [dans |-> FALSE, dossier |-> "", lu |-> RienLu], [i \in DOMAIN lignes |-> i]).lu

\* The last value of a field counts.
Champ(paires, k, defaut) == FoldLeft(LAMBDA v, p : IF p.k = k THEN p.v ELSE v, defaut, paires)

\* session_putty_depuis: HostName may carry the user, who counts when UserName says
\* nothing.  The default settings are not a session, and are not counted either.
SessionPutty(lu, de, nom, paires) ==
  LET h == Champ(paires, "HostName", [util |-> "", hote |-> <<>>])
      u == Champ(paires, "UserName", "")
      s == [hote |-> h.hote, util |-> IF u = "" THEN h.util ELSE u, port |-> Champ(paires, "PortNumber", "")]
  IN  IF nom = <<"Default Settings">> THEN lu
      ELSE IF Champ(paires, "Protocol", "ssh") # "ssh" \/ h.hote = <<>> \/ AliasDepuisNom(nom) = <<>>
      THEN Ignorer(lu)
      ELSE [lu EXCEPT !.sessions = Append(@, Session(de, nom, s, Champ(paires, "PublicKeyFile", SansCle), ""))]

\* putty_sessions_dans: a session for each file that can be read.
PuttySessionsDans(n, fichiers) ==
  FoldLeft(LAMBDA lu, i : IF fichiers[i].lisible THEN SessionPutty(lu, <<n, i>>, fichiers[i].nom, fichiers[i].paires)
                          ELSE lu,
           RienLu, [i \in DOMAIN fichiers |-> i])

\* parse_reg_query: a key ends the one before it, the end of the output the last; a name
\* that could not be decoded is counted.
Clore(e) ==
  IF e.de = <<>> THEN e.lu
  ELSE IF "illisible" \in ToSet(e.nom) THEN Ignorer(e.lu) ELSE SessionPutty(e.lu, e.de, e.nom, e.paires)
LigneRegistre(e, de, l) ==
  CASE l.k = "cle" -> [de |-> de, nom |-> l.nom, paires |-> <<>>, lu |-> Clore(e)]
    [] l.k = "racine" -> [de |-> <<>>, nom |-> <<>>, paires |-> <<>>, lu |-> Clore(e)]
    [] OTHER -> IF e.de = <<>> THEN e ELSE [e EXCEPT !.paires = Append(@, l)]
ParseRegQuery(n, lignes) ==
  Clore(FoldLeft(LAMBDA e, i : LigneRegistre(e, <<n, i>>, lignes[i]),
                 [de |-> <<>>, nom |-> <<>>, paires |-> <<>>, lu |-> RienLu], [i \in DOMAIN lignes |-> i]))

Lectures == [n \in DOMAIN Sources |->
  CASE Sources[n].genre = "ini" -> ParseMobaxtermIni(n, Sources[n].lignes)
    [] Sources[n].genre = "dossier" -> PuttySessionsDans(n, Sources[n].lignes)
    [] Sources[n].genre = "registre" -> ParseRegQuery(n, Sources[n].lignes)]

-----------------------------------------------------------------------------
(* The scan.                                                               *)

\* What a host reaches: its address, else its own name, on port 22 when none is given.
Vise(h) == <<Plie(IF h.hote = <<>> THEN h.alias ELSE h.hote), IF h.port = "" THEN "22" ELSE h.port, h.util>>
ViseBureau(b) == <<Plie(b.hote), b.port, b.util>>

\* RdpHost::validate, as far as a bookmark goes.
Valide(b) == b.util # ""

\* Each session gets a name that neither the declared hosts nor those before it have; what
\* reaches a server already there is a double, and is offered unticked.  `connus` are the
\* desktops as rdp.yaml was read.
ImportScan(n, connus) ==
  LET lu == Lectures[n]
      pris(C) == {h.alias : h \in ToSet(config) \cup ToSet(C)}
      nommees == FoldLeft(LAMBDA C, c : Append(C, [c EXCEPT !.alias = AliasLibre(@, pris(C))]), <<>>, lu.sessions)
  IN  [sessions |-> [i \in DOMAIN nommees |->
         [c |-> nommees[i], coche |-> Vise(nommees[i]) \notin {Vise(h) : h \in ToSet(config)}]],
       bureaux |-> [i \in DOMAIN lu.bureaux |->
         [c |-> lu.bureaux[i], coche |-> ViseBureau(lu.bureaux[i]) \notin {ViseBureau(b) : b \in ToSet(connus)}]]]

Vide == [sessions |-> <<>>, bureaux |-> <<>>]
Coches(rangees) == LET R == SelectSeq(rangees, LAMBDA r : r.coche) IN [i \in DOMAIN R |-> R[i].c]
Selection(l) == [hotes |-> Coches(l.sessions), bureaux |-> Coches(l.bureaux)]
Choix(l) == Selection(l) # [hotes |-> <<>>, bureaux |-> <<>>]

Libre == [etat |-> "libre", hotes |-> <<>>, bureaux |-> <<>>, i |-> 0, h |-> <<>>, pris |-> {},
          converties |-> {}, cles |-> 0, refus |-> {}, sansCle |-> {}, seul |-> TRUE]

Init ==
  /\ config = Depart /\ bureaux = Enregistres /\ puttygen \in BOOLEAN
  /\ cles = [t \in Tiges |-> [SansCle EXCEPT !.lieu = IF t \in Siennes THEN "sienne" ELSE ""]]
  /\ page = [ouverte |-> FALSE, liste |-> Vide, bouton |-> TRUE]
  /\ analyses = <<>> /\ appel = [a \in Appels |-> Libre]
  /\ gestes = 0 /\ pannes = 0

Geste == gestes < GESTES_MAX /\ gestes' = gestes + 1
Panne == pannes < PANNES_MAX /\ pannes' = pannes + 1
disque == <<config, bureaux, cles, puttygen>>

\* importOpen, importChoisir: a scan empties the list.
Analyser(n) ==
  /\ Geste
  /\ page' = [page EXCEPT !.ouverte = TRUE, !.liste = Vide]
  /\ analyses' = Append(analyses, [source |-> n, bilan |-> <<>>])
  /\ UNCHANGED <<disque, appel, pannes>>

\* import_scan, on a thread of its own: an rdp.yaml that cannot be read is taken for an
\* empty one.
Scanner(k) ==
  /\ analyses[k].bilan = <<>>
  /\ \E connus \in {bureaux, <<>>} :
       /\ IF connus = bureaux THEN UNCHANGED pannes ELSE Panne
       /\ analyses' = [analyses EXCEPT ![k].bilan = <<ImportScan(analyses[k].source, connus)>>]
  /\ UNCHANGED <<disque, page, appel, gestes>>

\* rendre: the rows of the answer, and the button after what they have ticked.
Rendre(k) ==
  /\ analyses[k].bilan # <<>>
  /\ page' = [page EXCEPT !.liste = analyses[k].bilan[1], !.bouton = Choix(analyses[k].bilan[1])]
  /\ analyses' = RemoveAt(analyses, k)
  /\ UNCHANGED <<disque, appel, gestes, pannes>>

\* A source that cannot be read empties the list and leaves the button as it is.
Echouer(k) ==
  /\ Panne /\ analyses[k].bilan = <<>>
  /\ page' = [page EXCEPT !.liste = Vide]
  /\ analyses' = RemoveAt(analyses, k)
  /\ UNCHANGED <<disque, appel, gestes>>

\* A row ticked, unticked or renamed: majBouton looks at the rows and at nothing else.
Changer(liste) ==
  /\ Geste /\ page.ouverte
  /\ page' = [page EXCEPT !.liste = liste, !.bouton = Choix(liste)]
  /\ UNCHANGED <<disque, analyses, appel, pannes>>
Cocher(i) == Changer([page.liste EXCEPT !.sessions[i].coche = ~@])
CocherBureau(i) == Changer([page.liste EXCEPT !.bureaux[i].coche = ~@])
Saisir(i, n) == n # page.liste.sessions[i].c.alias /\ Changer([page.liste EXCEPT !.sessions[i].c.alias = n])

\* importClose.
Fermer ==
  /\ Geste /\ page.ouverte
  /\ page' = [page EXCEPT !.ouverte = FALSE]
  /\ UNCHANGED <<disque, analyses, appel, pannes>>

EnCours == {a \in Appels : appel[a].etat \notin {"libre", "rendu"}}

\* importSubmit: the rows ticked, as they are.  `seul` remembers whether another import
\* ran meanwhile.
Soumettre(a) ==
  /\ page.ouverte /\ page.bouton /\ Choix(page.liste)
  /\ appel[a] = Libre /\ \A b \in Appels : b < a => appel[b] # Libre
  /\ page' = [page EXCEPT !.bouton = FALSE]
  /\ appel' = [b \in Appels |->
       IF b = a THEN Selection(page.liste) @@ [Libre EXCEPT !.etat = "lire", !.seul = EnCours = {}]
       ELSE [appel[b] EXCEPT !.seul = @ /\ b \notin EnCours]]
  /\ UNCHANGED <<disque, analyses, gestes, pannes>>

-----------------------------------------------------------------------------
(* appliquer_import.                                                       *)

Passer(a, suite) == appel' = [appel EXCEPT ![a] = suite]

\* The names taken when the call begins; a file that cannot be read refuses the import.
Debuter(a) ==
  LET e == appel[a]
  IN  /\ e.etat = "lire"
      /\ \/ /\ Passer(a, [e EXCEPT !.etat = "nommer", !.i = 1, !.pris = {h.alias : h \in ToSet(config)}])
            /\ UNCHANGED pannes
         \/ Panne /\ Passer(a, [e EXCEPT !.etat = "refuse"])
      /\ UNCHANGED <<disque, page, analyses, gestes>>

\* The file a .ppk is converted to has its stem.
Convertie(ppk) == [ppk EXCEPT !.lieu = "ssh", !.ppk = FALSE]

\* A .ppk this call has converted is known by its whole path.
Deja(converties, ppk) == ppk \in converties

\* Converting takes puttygen, and no file of the name of the key.
Convertible(ppk) == puttygen /\ cles[ppk.tige] = SansCle

\* The host in hand: a free name, and its key: none to convert, one converted already,
\* one to convert, or one that stays behind with a warning.
Preparer(a) ==
  LET e == appel[a]
      h == [e.hotes[e.i] EXCEPT !.alias = AliasLibre(AliasDepuisNom(@), e.pris)]
      Ecrire(x, S) == [e EXCEPT !.h = <<x>>, !.etat = "ecrire", !.sansCle = @ \cup S]
  IN  /\ e.etat = "nommer" /\ e.i \in DOMAIN e.hotes
      /\ Passer(a, IF h.ppk = SansCle THEN Ecrire(h, {})
                   ELSE IF Deja(e.converties, h.ppk) THEN Ecrire([h EXCEPT !.cle = Convertie(h.ppk)], {})
                   ELSE IF Convertible(h.ppk) THEN [e EXCEPT !.h = <<h>>, !.etat = "convertir"]
                   ELSE Ecrire(h, {e.i}))
      /\ UNCHANGED <<disque, page, analyses, gestes, pannes>>

\* puttygen writes the key over whatever is there, or fails.
Convertir(a) ==
  LET e == appel[a]
      ppk == e.h[1].ppk
  IN  /\ e.etat = "convertir"
      /\ \/ /\ cles' = [cles EXCEPT ![ppk.tige] = ppk]
            /\ Passer(a, [e EXCEPT !.etat = "ecrire", !.h[1].cle = Convertie(ppk),
                                   !.converties = @ \cup {ppk}, !.cles = @ + 1])
            /\ UNCHANGED pannes
         \/ /\ Panne
            /\ Passer(a, [e EXCEPT !.etat = "ecrire", !.sansCle = @ \cup {e.i}])
            /\ UNCHANGED cles
      /\ UNCHANGED <<config, bureaux, puttygen, page, analyses, gestes>>

\* alias_deja_declare.
DejaDeclare(alias) == Plie(alias) \in {Plie(x.alias) : x \in ToSet(config)}

\* append_host: a name declared already, or a write that fails, is a warning and the loop
\* goes on; a name written is taken.
AjouterHote(a) ==
  LET e == appel[a]
      h == e.h[1]
      suite == [e EXCEPT !.h = <<>>, !.etat = "nommer", !.i = @ + 1]
      Refuse(panne) == /\ Passer(a, [suite EXCEPT !.refus = @ \cup {[rang |-> e.i, alias |-> h.alias, panne |-> panne]}])
                       /\ UNCHANGED config
  IN  /\ e.etat = "ecrire"
      /\ \/ /\ DejaDeclare(h.alias) /\ Refuse(FALSE) /\ UNCHANGED pannes
         \/ /\ ~DejaDeclare(h.alias) /\ UNCHANGED pannes
            /\ config' = Append(config, h @@ [par |-> a, rang |-> e.i])
            /\ Passer(a, [suite EXCEPT !.pris = @ \cup {h.alias}])
         \/ ~DejaDeclare(h.alias) /\ Panne /\ Refuse(TRUE)
      /\ UNCHANGED <<bureaux, cles, puttygen, page, analyses, gestes>>

\* Then the desktops, one after the other: one that is not valid, or a write that fails,
\* is a warning.
AjouterBureau(a) ==
  LET e == appel[a]
      j == e.i - Len(e.hotes)
  IN  /\ e.etat = "nommer" /\ j \in DOMAIN e.bureaux
      /\ Passer(a, [e EXCEPT !.i = @ + 1])
      /\ \/ bureaux' = (IF Valide(e.bureaux[j]) THEN Append(bureaux, e.bureaux[j]) ELSE bureaux) /\ UNCHANGED pannes
         \/ Panne /\ UNCHANGED bureaux
      /\ UNCHANGED <<config, cles, puttygen, page, analyses, gestes>>

Fini(e) == e.etat = "nommer" /\ e.i = Len(e.hotes) + Len(e.bureaux) + 1

\* importSubmit, the answer: the list closes, or stays when all was refused; the button
\* is on.
Repondre(a) ==
  /\ Fini(appel[a]) \/ appel[a].etat = "refuse"
  /\ page' = [page EXCEPT !.ouverte = @ /\ ~Fini(appel[a]), !.bouton = TRUE]
  /\ Passer(a, [Libre EXCEPT !.etat = "rendu"])
  /\ UNCHANGED <<disque, analyses, gestes, pannes>>

Next ==
  \/ \E n \in DOMAIN Sources : Analyser(n)
  \/ \E k \in DOMAIN analyses : Scanner(k) \/ Rendre(k) \/ Echouer(k)
  \/ \E i \in DOMAIN page.liste.sessions : Cocher(i) \/ \E n \in Saisies : Saisir(i, n)
  \/ \E i \in DOMAIN page.liste.bureaux : CocherBureau(i)
  \/ Fermer
  \/ \E a \in Appels : \/ Soumettre(a) \/ Debuter(a) \/ Preparer(a) \/ Convertir(a)
                        \/ AjouterHote(a) \/ AjouterBureau(a) \/ Repondre(a)

Spec == Init /\ [][Next]_vars

-----------------------------------------------------------------------------
(* Properties.                                                             *)

Etats == {"libre", "lire", "nommer", "convertir", "ecrire", "refuse", "rendu"}
Cle == [lieu : STRING, tige : STRING, ppk : BOOLEAN]
TypeOK ==
  /\ cles \in [Tiges -> Cle] /\ puttygen \in BOOLEAN
  /\ page.ouverte \in BOOLEAN /\ page.bouton \in BOOLEAN
  /\ \A a \in Appels : appel[a].etat \in Etats /\ appel[a].converties \subseteq Cle
  /\ gestes \in 0 .. GESTES_MAX /\ pannes \in 0 .. PANNES_MAX

\* A session of MobaXterm is offered in the folder of its own section, and one of the
\* registry with the key of its own entry, whatever stands before and after
\* (parse_mobaxterm_ini, parse_reg_query).
LectureFidele ==
  \A r \in ToSet(page.liste.sessions) :
    LET L == Sources[r.c.de[1]].lignes
        ici == r.c.de[2]
        \* The lines of the section or entry of line `ici`, from one side.
        Entre(i, j, K) == \A m \in i .. j : L[m].k \notin K
        Dossiers == {i \in 1 .. ici : L[i].k = "SubRep" /\ Entre(i, ici, {"section"})}
        Ecrites == {i \in ici + 1 .. Len(L) : L[i].k = "PublicKeyFile" /\ Entre(ici + 1, i, {"cle", "racine"})}
    IN  /\ Sources[r.c.de[1]].genre = "ini" =>
             r.c.dossier = IF Dossiers = {} THEN "" ELSE L[CHOOSE i \in Dossiers : \A j \in Dossiers : j <= i].v
        /\ Sources[r.c.de[1]].genre = "registre" =>
             IF Ecrites = {} THEN r.c.cle = SansCle /\ r.c.ppk = SansCle
             ELSE L[CHOOSE i \in Ecrites : \A j \in Ecrites : j <= i].v \in {r.c.cle, r.c.ppk}

\* At the end of an import each host of the selection was written once or is named in a
\* warning, a host whose key stayed behind is named too, and the keys announced as
\* converted are those that were (appliquer_import, whatever fails on the way).
BilanVrai ==
  \A a \in Appels : Fini(appel[a]) =>
    LET e == appel[a]
        miens == SelectSeq(config, LAMBDA h : h.par = a)
    IN  /\ {h.rang : h \in ToSet(miens)} = DOMAIN e.hotes \ {r.rang : r \in e.refus}
        /\ \A i, j \in DOMAIN miens : miens[i].rang = miens[j].rang => i = j
        /\ \A h \in ToSet(miens) : h.ppk # SansCle => (h.cle = SansCle <=> h.rang \in e.sansCle)
        /\ e.cles = Cardinality(e.converties)

\* A name is found for every host: an import alone, when no write fails, refuses only a
\* host whose name differs from a declared one by its capitals (alias_libre tells them
\* apart, alias_deja_declare does not).
NomTrouve ==
  \A a \in Appels : \A r \in appel[a].refus :
    appel[a].seul /\ ~r.panne =>
      /\ r.alias \notin {h.alias : h \in ToSet(config)}
      /\ Plie(r.alias) \in {Plie(h.alias) : h \in ToSet(config)}

\* No two hosts of one name, capitals apart, whatever imports overlap
\* (alias_deja_declare).
NomsDistincts == \A i, j \in DOMAIN config : Plie(config[i].alias) = Plie(config[j].alias) => i = j

ImportTenu == TypeOK /\ LectureFidele /\ BilanVrai /\ NomTrouve /\ NomsDistincts

\* A host is written with the key made of its own .ppk, and a key file that is there
\* stays as it is, unless two imports run at once (convertir_ppk, deja_converties).
CleFidele ==
  [][(\A a \in EnCours : appel[a].seul) =>
       /\ \A t \in Tiges : cles[t] # SansCle => cles'[t] = cles[t]
       /\ Len(config') > Len(config) =>
            LET h == Last(config') IN h.ppk # SansCle /\ h.cle # SansCle => cles[h.cle.tige] = h.ppk]_vars

\* What was imported is offered unticked by every later scan, and so is a desktop, unless
\* rdp.yaml could not be read at that scan (import_scan).
ConnuDecoche ==
  [][Len(analyses') = Len(analyses) => \A k \in DOMAIN analyses :
       analyses[k].bilan = <<>> /\ analyses'[k].bilan # <<>> =>
         /\ \A r \in ToSet(analyses'[k].bilan[1].sessions) : r.coche => r.c.de \notin {h.de : h \in ToSet(config)}
         /\ pannes' = pannes => \A r \in ToSet(analyses'[k].bilan[1].bureaux) : r.coche => r.c.de \notin {b.de : b \in ToSet(bureaux)}]_vars

-----------------------------------------------------------------------------
(* Statements of the source that the code does not keep.                    *)

\* The button is off while an import runs (importSubmit).
UnSeulImport == Cardinality(EnCours) <= 1

\* A name taken already is changed rather than refused (import_apply).
RienRefuse == \A a \in Appels : \A r \in appel[a].refus : appel[a].seul => r.panne

\* No key file made for one host is replaced for another (convertir_ppk).
ClesGardees == [][\A t \in Tiges : cles[t] # SansCle => cles'[t] = cles[t]]_vars

\* The list shows the source asked for last (analyser).
ListeDemandee ==
  [][\A k \in DOMAIN analyses : analyses' = RemoveAt(analyses, k) => k = Len(analyses)]_vars
===============================================================================
