------------------------------- MODULE Snippets -------------------------------
(***************************************************************************)
(* Snippets: the file snippets.yaml, the window that edits it and the sending *)
(* of one to several sessions (crates/avash/src/snippet.rs,                  *)
(* commands/snippets.rs, web/snippets.ts).                                   *)
(*                                                                         *)
(* A text is a row of signs: the two braces, a new line "lf", a return "cr", *)
(* and "ESC[20", "0~", "1~", whose pairs are the two marks of a protected    *)
(* paste; any other sign is a letter.  The commands run on threads of their  *)
(* own and share no lock; the session of a tab reads its channel when its    *)
(* server lets it.                                                           *)
(***************************************************************************)
EXTENDS Integers, Sequences, FiniteSets
LOCAL INSTANCE SequencesExt

CONSTANTS
  Textes,      \* commands a user may write
  Valeurs,     \* what may be typed for a variable
  Noms,        \* identifiers Snippet::new may draw
  Sessions, Gere,  \* tabs; those whose server knows DECSET 2004
  Appels,      \* commands at work at once
  CAPACITE,    \* messages the channel of a tab holds
  Depart,      \* the file before
  GESTES_MAX, PANNES_MAX   \* bounds: gestures, reads and writes of the file that fail

SnippetsAssumption ==
  /\ Gere \subseteq Sessions /\ CAPACITE \in Nat \ {0}
  /\ \A t \in Textes \cup Valeurs : t \in Seq(STRING)

VARIABLES
  fichier,     \* what snippets.yaml holds
  appels,      \* each command under way
  page,        \* the list shown, the identifier in the form, the button of the form
  onglets,     \* each tab: is it open, and its channel
  distants,    \* each server: inside a paste, and did an insertion execute something
  attendu,     \* history: the file the commands answered so far ask for
  chevauche,   \* history: two commands have been at the file at once
  gestes, pannes
vars == <<fichier, appels, page, onglets, distants, attendu, chevauche, gestes, pannes>>

-----------------------------------------------------------------------------
(* Variables and the text sent.                                            *)

\* The positions of the second of two signs in a row.
Paires(s, x, y) == {i \in 1 .. Len(s) - 1 : s[i] = x /\ s[i + 1] = y}
Premier(I) == CHOOSE i \in I : \A j \in I : i <= j

\* Where the variable opened at each sign ends, 0 if none is: extract_vars and render look
\* for the next "}}", snippetVars and renderSnippet for a name without a brace.
FinRust(s) == [i \in DOMAIN s |->
  LET F == {j \in Paires(s, "}", "}") : j >= i + 2}
  IN  IF i \notin Paires(s, "{", "{") \/ F = {} THEN 0 ELSE Premier(F)]
FinPage(s) == [i \in DOMAIN s |->
  LET F == {j \in DOMAIN s : j >= i + 2 /\ s[j] = "}"}
  IN  IF i \notin Paires(s, "{", "{") \/ F = {} THEN 0
      ELSE IF Premier(F) \in Paires(s, "}", "}") THEN Premier(F) ELSE 0]

\* The text with v for each variable, and the variables in the order they come.
Sur(s, fin, v) ==
  LET Pas(e, i) ==
        LET nom == SelectSeq(SubSeq(s, i + 2, fin[i] - 1), LAMBDA c : c # " ")
        IN  IF i < e.i THEN e
            ELSE IF fin[i] = 0 THEN [e EXCEPT !.texte = Append(@, s[i])]
            ELSE [i |-> fin[i] + 2, texte |-> e.texte \o (IF nom = <<>> THEN <<>> ELSE v),
                  noms |-> IF nom = <<>> \/ nom \in ToSet(e.noms) THEN e.noms ELSE Append(e.noms, nom)]
  IN  FoldLeft(Pas, [i |-> 1, texte |-> <<>>, noms |-> <<>>], [i \in DOMAIN s |-> i])
Variables(s, fin) == Sur(s, fin, <<>>).noms
Rendu(s, fin, v) == Sur(s, fin, v).texte

\* terminal_payload: returns, the marks taken out until none is left, the paste, the last
\* return.
Convertir(s) ==
  FoldLeft(LAMBDA t, i : IF s[i] = "cr" /\ i \in Paires(s, "cr", "lf") THEN t
                         ELSE Append(t, IF s[i] = "lf" THEN "cr" ELSE s[i]), <<>>, [i \in DOMAIN s |-> i])
Oter(s, m) ==
  LET P == Paires(s, "ESC[20", m)
  IN  FoldLeft(LAMBDA t, i : IF i \in P \/ i - 1 \in P THEN t ELSE Append(t, s[i]), <<>>, [i \in DOMAIN s |-> i])
Nettoyer(s) == FoldLeft(LAMBDA t, i : Oter(Oter(t, "0~"), "1~"), s, [i \in DOMAIN s |-> i])
Charge(texte, run, crochets) ==
  LET conv == Convertir(texte)
      out == IF crochets THEN <<"ESC[20", "0~">> \o Nettoyer(conv) \o <<"ESC[20", "1~">> ELSE conv
  IN  IF run /\ (out = <<>> \/ Last(out) # "cr") THEN Append(out, "cr") ELSE out

\* What a server makes of what it reads: a return executes the line, unless it is pasted.
Lue(colle, s, gere) ==
  FoldLeft(LAMBDA e, i :
             [colle |-> CASE gere /\ i \in Paires(s, "ESC[20", "0~") -> TRUE
                          [] gere /\ i \in Paires(s, "ESC[20", "1~") -> FALSE
                          [] OTHER -> e.colle,
              faites |-> e.faites + (IF s[i] = "cr" /\ ~e.colle THEN 1 ELSE 0)],
           [colle |-> colle, faites |-> 0], [i \in DOMAIN s |-> i])

-----------------------------------------------------------------------------
(* The file and the window.                                                *)

Libre == [op |-> "libre", etape |-> "", id |-> "", texte |-> <<>>, lu |-> <<>>, cibles |-> <<>>,
          visees |-> {}, charge |-> <<>>, run |-> FALSE, servies |-> {}]

Init ==
  /\ fichier = Depart /\ attendu = Depart /\ chevauche = FALSE
  /\ appels = [a \in Appels |-> Libre]
  /\ page = [liste |-> Depart, form |-> "", occupe |-> FALSE]
  /\ onglets = [s \in Sessions |-> [vivant |-> TRUE, canal |-> <<>>]]
  /\ distants = [s \in Sessions |-> [colle |-> FALSE, indu |-> FALSE]]
  /\ gestes = 0 /\ pannes = 0

Geste == gestes < GESTES_MAX /\ gestes' = gestes + 1
Panne == pannes < PANNES_MAX /\ pannes' = pannes + 1
SurFichier == {a \in Appels : appels[a].op \in {"ecrire", "retirer", "lister"}}
Commencer(a, r) ==
  /\ appels[a].op = "libre" /\ Geste
  /\ appels' = [appels EXCEPT ![a] = r]
  /\ chevauche' = (chevauche \/ (r.op # "envoyer" /\ SurFichier # {}))

\* The rows shown, and every identifier that is known.
Rangees == {page.liste[i].id : i \in DOMAIN page.liste}
Connus == Rangees \cup {fichier[i].id : i \in DOMAIN fichier}
            \cup {appels[a].id : a \in Appels}

\* snippetEdit, snippetFormReset.
Editer(id) ==
  /\ id \in Rangees \cup {""}
  /\ page.form # id /\ page' = [page EXCEPT !.form = id]
  /\ UNCHANGED <<fichier, appels, onglets, distants, attendu, chevauche, gestes, pannes>>

\* The form is submitted, its button off; snippet_save refuses an empty text, and draws an
\* identifier where the form has none.
Enregistrer(a, texte, neuf) ==
  /\ ~page.occupe /\ neuf \notin Connus
  /\ Commencer(a, [Libre EXCEPT !.op = "ecrire", !.etape = IF texte = <<>> THEN "rate" ELSE "parti",
                                !.texte = texte, !.id = IF page.form = "" THEN neuf ELSE page.form])
  /\ page' = [page EXCEPT !.occupe = TRUE]
  /\ UNCHANGED <<fichier, onglets, distants, attendu, pannes>>

\* snippetDelete, confirmed.
Retirer(a, i) ==
  /\ i \in DOMAIN page.liste
  /\ Commencer(a, [Libre EXCEPT !.op = "retirer", !.etape = "parti", !.id = page.liste[i].id])
  /\ UNCHANGED <<fichier, page, onglets, distants, attendu, pannes>>

\* load_snippets_from.
Lire(a) ==
  /\ appels[a].etape = "parti"
  /\ \/ appels' = [appels EXCEPT ![a].etape = "lu", ![a].lu = fichier] /\ UNCHANGED pannes
     \/ appels' = [appels EXCEPT ![a].etape = "rate"] /\ Panne
  /\ UNCHANGED <<fichier, page, onglets, distants, attendu, chevauche, gestes>>

\* upsert_snippet_in, remove_snippet_in: what is written, from what was read.
Ecrit(c, lu) ==
  IF c.op = "retirer" THEN SelectSeq(lu, LAMBDA x : x.id # c.id)
  ELSE LET I == {i \in DOMAIN lu : lu[i].id = c.id}
           x == [id |-> c.id, texte |-> c.texte]
       IN  IF I = {} THEN Append(lu, x) ELSE [lu EXCEPT ![Premier(I)] = x]

\* save_snippets_to: whole or not at all.
Ecrire(a) ==
  /\ appels[a].etape = "lu" /\ appels[a].op \in {"ecrire", "retirer"}
  /\ \/ /\ fichier' = Ecrit(appels[a], appels[a].lu) /\ attendu' = Ecrit(appels[a], attendu)
        /\ appels' = [appels EXCEPT ![a].etape = "ecrit"] /\ UNCHANGED pannes
     \/ appels' = [appels EXCEPT ![a].etape = "rate"] /\ Panne /\ UNCHANGED <<fichier, attendu>>
  /\ UNCHANGED <<page, onglets, distants, chevauche, gestes>>

\* The answer reaches the page: a list is shown; a success asks for the list again, and
\* empties the form of a save.  The button of the form comes back after the list.
Repondre(a) ==
  LET c == appels[a] IN
  /\ \/ c.etape \in {"ecrit", "rate"} \/ (c.op = "lister" /\ c.etape = "lu")
  /\ appels' = [appels EXCEPT ![a] = IF c.etape = "ecrit" THEN [Libre EXCEPT !.op = "lister", !.etape = "parti",
                                                                             !.run = c.op = "ecrire"] ELSE Libre]
  /\ page' = [liste |-> IF c.etape = "lu" THEN c.lu ELSE page.liste,
              form |-> IF c.op = "ecrire" /\ c.etape = "ecrit" THEN "" ELSE page.form,
              occupe |-> page.occupe /\ ~(c.op = "lister" /\ c.run) /\ ~(c.op = "ecrire" /\ c.etape = "rate")]
  /\ UNCHANGED <<fichier, onglets, distants, attendu, chevauche, gestes, pannes>>

-----------------------------------------------------------------------------
(* The sending.                                                            *)

\* open_sessions.
Ouverts == {s \in Sessions : onglets[s].vivant}

\* The form of the sending: a snippet of the list, its variable given a value, the tabs
\* ticked among those open when the form was, and the box; snippet_send keeps the channels
\* of those still in the store, in the order ticked.
Envoyer(a, i, v, visees, run) ==
  /\ i \in DOMAIN page.liste /\ visees # {}
  /\ LET envoye == Rendu(page.liste[i].texte, FinPage(page.liste[i].texte), v)
     IN  Commencer(a, [Libre EXCEPT !.op = "envoyer", !.etape = "envoi", !.run = run, !.visees = visees,
                                    !.texte = envoye, !.cibles = SetToSeq(visees \cap Ouverts),
                                    !.charge = Charge(envoye, run, ~run)])
  /\ UNCHANGED <<fichier, page, onglets, distants, attendu, pannes>>

\* The next channel: it takes the text when it has room; it refuses it when its tab has gone.
Pousser(a) ==
  LET c == appels[a]
      s == Head(c.cibles)
      o == onglets[s]
  IN  /\ c.etape = "envoi" /\ c.cibles # <<>>
      /\ o.vivant => Len(o.canal) < CAPACITE
      /\ appels' = [appels EXCEPT ![a].cibles = Tail(@), ![a].servies = IF o.vivant THEN @ \cup {s} ELSE @]
      /\ onglets' = IF o.vivant THEN [onglets EXCEPT ![s].canal = Append(@, [signes |-> c.charge, insere |-> ~c.run])]
                    ELSE onglets
      /\ UNCHANGED <<fichier, page, distants, attendu, chevauche, gestes, pannes>>

\* The count is back: none, some or all (resultatEnvoi).
Compter(a) ==
  /\ appels[a].etape = "envoi" /\ appels[a].cibles = <<>>
  /\ appels' = [appels EXCEPT ![a] = Libre]
  /\ UNCHANGED <<fichier, page, onglets, distants, attendu, chevauche, gestes, pannes>>

\* The session of a tab reads a message and its server takes it; a key is struck; the tab
\* is closed.
Pomper(s) ==
  /\ onglets[s].vivant /\ onglets[s].canal # <<>>
  /\ LET msg == Head(onglets[s].canal)
         e == Lue(distants[s].colle, msg.signes, s \in Gere)
     IN  distants' = [distants EXCEPT ![s] = [colle |-> e.colle, indu |-> @.indu \/ (msg.insere /\ e.faites > 0)]]
  /\ onglets' = [onglets EXCEPT ![s].canal = Tail(@)]
  /\ UNCHANGED <<fichier, appels, page, attendu, chevauche, gestes, pannes>>
Taper(s) ==
  /\ onglets[s].vivant /\ Len(onglets[s].canal) < CAPACITE /\ Geste
  /\ onglets' = [onglets EXCEPT ![s].canal = Append(@, [signes |-> <<"cr">>, insere |-> FALSE])]
  /\ UNCHANGED <<fichier, appels, page, distants, attendu, chevauche, pannes>>
FermerOnglet(s) ==
  /\ onglets[s].vivant /\ Geste
  /\ onglets' = [onglets EXCEPT ![s] = [vivant |-> FALSE, canal |-> <<>>]]
  /\ UNCHANGED <<fichier, appels, page, distants, attendu, chevauche, pannes>>

Next ==
  \/ \E id \in Noms \cup {""} : Editer(id)
  \/ \E a \in Appels : \/ \E texte \in Textes, neuf \in Noms : Enregistrer(a, texte, neuf)
                       \/ \E i \in DOMAIN page.liste : Retirer(a, i)
                       \/ Lire(a) \/ Ecrire(a) \/ Repondre(a) \/ Pousser(a) \/ Compter(a)
                       \/ \E i \in DOMAIN page.liste, v \in Valeurs, visees \in SUBSET Sessions, run \in BOOLEAN :
                            Envoyer(a, i, v, visees, run)
  \/ \E s \in Sessions : Pomper(s) \/ Taper(s) \/ FermerOnglet(s)

Spec == Init /\ [][Next]_vars

-----------------------------------------------------------------------------
(* Properties.                                                             *)

TypeOK ==
  /\ \A i \in DOMAIN fichier : fichier[i].id \in Noms /\ fichier[i].texte # <<>>
  /\ \A s \in Sessions : Len(onglets[s].canal) <= CAPACITE
  /\ page.form \in Noms \cup {""} /\ pannes \in 0 .. PANNES_MAX

\* The file never names a snippet twice, even after commands that met (upsert_snippet_in).
UnParNom == \A i, j \in DOMAIN fichier : fichier[i].id = fichier[j].id => i = j

\* As long as commands do not meet, the file is what was asked for, a refusal leaves it as
\* it was, and at rest the window shows it, unless reading it failed.
FichierSuivi ==
  /\ ~chevauche => fichier = attendu
  /\ ~chevauche /\ SurFichier = {} /\ pannes = 0 => page.liste = fichier

\* The button of the form is off exactly while a save, or its list, is under way.
BoutonVrai ==
  page.occupe <=> \E a \in Appels : appels[a].op = "ecrire" \/ (appels[a].op = "lister" /\ appels[a].run)

\* With the box unticked, a server that knows protected pastes executes nothing, whatever
\* marks the text, or a value, holds (terminal_payload).
SansExecuter == \A s \in Gere : ~distants[s].indu

\* What is inserted is the text: a mark taken out leaves nothing else out, and none is left.
TexteGarde ==
  \A a \in Appels : appels[a].etape = "envoi" /\ ~appels[a].run =>
    LET c == appels[a]
        dedans == SubSeq(c.charge, 3, Len(c.charge) - 2)
        conv == Convertir(c.texte)
    IN  /\ \A m \in {"0~", "1~"} : Paires(dedans, "ESC[20", m) = {}
        /\ Paires(conv, "ESC[20", "0~") \cup Paires(conv, "ESC[20", "1~") = {} => dedans = conv
        /\ SelectSeq(dedans, LAMBDA x : x \notin {"ESC[20", "0~", "1~"})
             = SelectSeq(conv, LAMBDA x : x \notin {"ESC[20", "0~", "1~"})

\* No tab ticked and still open is left out, whatever the others did.
ViventServies ==
  \A a \in Appels : LET c == appels[a] IN
    c.etape = "envoi" => \A s \in c.visees : onglets[s].vivant => s \in c.servies \cup ToSet(c.cibles)

SnippetsTenus == TypeOK /\ UnParNom /\ FichierSuivi /\ BoutonVrai /\ SansExecuter /\ TexteGarde /\ ViventServies

-----------------------------------------------------------------------------
(* Statements of the source that the code does not keep.                   *)

\* A save adds or replaces a snippet, a removal takes one: two commands that meet write
\* from what each had read, and one of the two is undone.
RienPerdu == SurFichier = {} => fichier = attendu

\* A sending does not stop at a silent server: a channel that is full holds the others.
PasRetenu ==
  \A a \in Appels : appels[a].etape = "envoi" /\ appels[a].cibles # <<>> =>
    LET o == onglets[Head(appels[a].cibles)] IN ~(o.vivant /\ Len(o.canal) = CAPACITE /\ Len(appels[a].cibles) > 1)

\* An insertion executes nothing: the page never asks what the server knows.
InsertionSure == \A s \in Sessions : ~distants[s].indu

\* The variables the page asks for are those of extract_vars.
Miroir == \A i \in DOMAIN fichier :
  LET t == fichier[i].texte IN Variables(t, FinPage(t)) = Variables(t, FinRust(t))
===============================================================================
