------------------------------- MODULE Confiance -------------------------------
(***************************************************************************)
(* Trust on first use of SSH host keys: check_server_key and what it calls *)
(* (crates/avash/src/ssh.rs), for every link of a chain of jump hosts, the *)
(* file ~/.ssh/known_hosts read and appended to by the tabs, the page that *)
(* offers to forget a changed key (connectWithPassword of web/main.ts) and *)
(* the removal of its lines (forget_host_key).                             *)
(***************************************************************************)
EXTENDS Naturals, Sequences, FiniteSets

CONSTANTS
  Onglets,          \* tabs that connect
  Chaine,           \* the chain of each tab: a sequence of hosts, its own last
  Hotes,            \* pairs of a name and a port
  Nom,              \* the name of a host, without its port
  Cles,             \* keys a server may present
  Algo,             \* the algorithm of a key
  Contenus,         \* what the file may hold at first
  REINSTALLATIONS,  \* bound: servers whose key changes
  ESSAIS            \* bound: connections begun

VARIABLES
  etat,       \* what ~/.ssh/known_hosts is
  known,      \* its lines
  presente,   \* the key each server presents
  cx,         \* the connection of each tab
  oubli,      \* the removal that holds ECRITURE_KNOWN_HOSTS
  reinstalle, \* keys changed
  essais      \* connections begun

varsConfiance == <<etat, known, presente, cx, oubli, reinstalle, essais>>

AucunOnglet == "personne"

\* A line: a key of a host, a marker, or a comment.
Formes == {"nom", "crochet", "hache", "hache_port", "hache_abime", "joker"}
Lignes == [genre : {"cle"}, hote : Hotes, cle : Cles] \cup [genre : {"note"}]
            \cup [genre : {"marque"}, hote : Hotes, forme : Formes]

ConfianceAssumption ==
  /\ Chaine \in [Onglets -> Seq(Hotes)] /\ \A o \in Onglets : Chaine[o] # <<>>
  /\ DOMAIN Nom = Hotes /\ DOMAIN Algo = Cles
  /\ AucunOnglet \notin Onglets /\ Contenus \subseteq Seq(Lignes)
  /\ {REINSTALLATIONS, ESSAIS} \subseteq Nat

Libre == [par |-> AucunOnglet, lignes |-> {}]
Etats == {"absent", "ordinaire", "special", "illisible", "binaire"}
Phases == {"repos", "marques", "cles", "juge", "apprend", "acceptee", "refusee", "question",
           "oublie", "ouverte", "fermee"}
Verdicts == {"", "marque", "illisible", "lecture", "ecriture", "changee"}
Repos == [phase |-> "repos", maillon |-> 1, presentee |-> CHOOSE k \in Cles : TRUE,
          lues |-> {}, verdict |-> "", reapprise |-> FALSE,
          debut |-> {}, apprises |-> {}, oubliee |-> FALSE]

LignesDe(s, h) == {i \in DOMAIN s : s[i].genre = "cle" /\ s[i].hote = h}
ClesDans(s, h) == {s[i].cle : i \in LignesDe(s, h)}
Enregistrees(h) == ClesDans(known, h)
Hote(o) == Chaine[o][cx[o].maillon]

Connexion(o) ==
  [phase : Phases, maillon : DOMAIN Chaine[o], presentee : Cles, lues : SUBSET Cles,
   verdict : Verdicts, reapprise : BOOLEAN, debut : SUBSET Cles, apprises : SUBSET Cles,
   oubliee : BOOLEAN]

TypesConfiance ==
  /\ etat \in Etats
  /\ known \in Seq(Lignes)
  /\ presente \in [Hotes -> Cles]
  /\ DOMAIN cx = Onglets
  /\ \A o \in Onglets : cx[o] \in Connexion(o)
  /\ oubli.par \in Onglets \cup {AucunOnglet}

InitConfiance ==
  /\ \/ etat \in {"ordinaire", "special", "illisible", "binaire"} /\ known \in Contenus
     \/ etat = "absent" /\ known = <<>>
  /\ presente \in [Hotes -> Cles]
  /\ cx = [o \in Onglets |-> Repos]
  /\ oubli = Libre
  /\ reinstalle = 0 /\ essais = 0

-----------------------------------------------------------------------------
(* check_server_key. *)

\* A link of the chain: its server presents its key.  `debut` and `apprises` are
\* history: the keys of the host at that moment, and those other tabs learnt since.
Presenter(o, i, apres) ==
  cx' = [cx EXCEPT ![o] = [apres EXCEPT !.phase = "marques", !.maillon = i, !.verdict = "",
           !.presentee = presente[Chaine[o][i]], !.debut = Enregistrees(Chaine[o][i]), !.apprises = {},
           !.oubliee = FALSE]]

Refuser(o, verdict) == cx' = [cx EXCEPT ![o].phase = "refusee", ![o].verdict = verdict]

\* The form [name]:port is not known.
Vise_SansPort(l, h) == l.genre = "marque" /\ l.forme \in {"nom", "hache", "hache_port"} /\ l.hote = h

\* A line @revoked or @cert-authority aims at h: by its name, whatever the port,
\* in clear or in brackets; hashed, by its name or by its name and port; a hash
\* that cannot be read aims at everyone, a pattern at no one.
Vise(l, h) ==
  /\ l.genre = "marque"
  /\ \/ l.forme \in {"nom", "crochet", "hache"} /\ Nom[l.hote] = Nom[h]
     \/ l.forme = "hache_port" /\ l.hote = h
     \/ l.forme = "hache_abime"

Fixe == UNCHANGED <<presente, reinstalle, essais>>

\* marqueur_bloquant: a file that is not ordinary, or not text, has no markers.
LireMarques(o) ==
  /\ cx[o].phase = "marques"
  /\ IF etat = "ordinaire" /\ \E i \in DOMAIN known : Vise(known[i], Hote(o))
     THEN Refuser(o, "marque")
     ELSE cx' = [cx EXCEPT ![o].phase = "cles"]
  /\ Fixe /\ UNCHANGED <<etat, known, oubli>>

\* known_hosts_illisible, then known_host_keys_path: the lines of this host,
\* none when there is no file, an error when it is not text.
LireCles(o) ==
  /\ cx[o].phase = "cles"
  /\ CASE etat \in {"special", "illisible"} -> Refuser(o, "illisible")
       [] etat = "binaire" -> Refuser(o, "lecture")
       [] OTHER ->
            cx' = [cx EXCEPT ![o].phase = "juge", ![o].lues = Enregistrees(Hote(o))]
  /\ Fixe /\ UNCHANGED <<etat, known, oubli>>

\* A key of another algorithm is taken for a first one.
Juger_Algorithme(enregistrees, presentee) ==
  CASE presentee \in enregistrees -> "connue"
    [] presentee \notin enregistrees /\ \E k \in enregistrees : Algo[k] = Algo[presentee] -> "changee"
    [] OTHER -> "premier"

\* juger_cle_hote: the algorithm is not looked at.
Juger(enregistrees, presentee) ==
  CASE enregistrees = {} -> "premier"
    [] presentee \in enregistrees -> "connue"
    [] OTHER -> "changee"

RendreVerdict(o) ==
  /\ cx[o].phase = "juge"
  /\ LET v == Juger(cx[o].lues, cx[o].presentee) IN
     \/ v = "changee" /\ Refuser(o, "changee")
     \/ v # "changee" /\ cx' = [cx EXCEPT ![o].phase = IF v = "premier" THEN "apprend" ELSE "acceptee"]
  /\ Fixe /\ UNCHANGED <<etat, known, oubli>>

\* apprendre_cle_hote: a line more, under ECRITURE_KNOWN_HOSTS, or a refusal
\* when it cannot be written.
Apprendre(o) ==
  /\ cx[o].phase = "apprend" /\ oubli = Libre
  /\ \/ /\ known' = Append(known, [genre |-> "cle", hote |-> Hote(o), cle |-> cx[o].presentee])
        /\ etat' = "ordinaire"
        /\ cx' = [p \in Onglets |->
                    IF p = o THEN [cx[o] EXCEPT !.phase = "acceptee", !.lues = {}]
                    ELSE IF Hote(p) = Hote(o) THEN [cx[p] EXCEPT !.apprises = @ \cup {cx[o].presentee}]
                    ELSE cx[p]]
     \/ Refuser(o, "ecriture") /\ UNCHANGED <<etat, known>>
  /\ Fixe /\ UNCHANGED oubli

-----------------------------------------------------------------------------
(* connect_via, and the loop of the page around it. *)

Connecter(o) ==
  /\ cx[o].phase \in {"repos", "ouverte", "fermee"} /\ essais < ESSAIS
  /\ essais' = essais + 1
  /\ Presenter(o, 1, Repos)
  /\ UNCHANGED <<etat, known, presente, oubli, reinstalle>>

\* The link is up: the next one is reached through it, or the tab is open.
Suivre(o) ==
  /\ cx[o].phase = "acceptee"
  /\ IF cx[o].maillon < Len(Chaine[o])
     THEN Presenter(o, cx[o].maillon + 1, cx[o])
     ELSE cx' = [cx EXCEPT ![o] = [Repos EXCEPT !.phase = "ouverte"]]
  /\ Fixe /\ UNCHANGED <<etat, known, oubli>>

\* The page is told; a changed key is asked about once.
Rapporter(o) ==
  /\ cx[o].phase = "refusee"
  /\ IF cx[o].verdict = "changee" /\ ~cx[o].reapprise
     THEN cx' = [cx EXCEPT ![o].phase = "question"]
     ELSE cx' = [cx EXCEPT ![o] = [Repos EXCEPT !.phase = "fermee"]]
  /\ Fixe /\ UNCHANGED <<etat, known, oubli>>

\* The user forgets the old key, or not.
Repondre(o) ==
  /\ cx[o].phase = "question"
  /\ \/ cx' = [cx EXCEPT ![o].phase = "oublie"]
     \/ cx' = [cx EXCEPT ![o] = [Repos EXCEPT !.phase = "fermee"]]
  /\ Fixe /\ UNCHANGED <<etat, known, oubli>>

\* The host the page names to known_hosts_forget: that of the tab.
AOublier(o) == Chaine[o][Len(Chaine[o])]

-----------------------------------------------------------------------------
(* forget_host_key_at. *)

\* russh numbers the lines from one and skips the comments.
Numero(s, i) == Cardinality({j \in 1 .. i : s[j].genre # "note"})

OublierLire(o) ==
  /\ cx[o].phase = "oublie" /\ oubli = Libre
  /\ LET lignes == {Numero(known, i) : i \in LignesDe(known, AOublier(o))}
     IN IF lignes = {}
        THEN Presenter(o, 1, [Repos EXCEPT !.reapprise = TRUE]) /\ UNCHANGED oubli
        ELSE oubli' = [par |-> o, lignes |-> lignes] /\ UNCHANGED cx
  /\ Fixe /\ UNCHANGED <<etat, known>>

\* Comments counted.
Garde_Physique(s, lignes) == {i \in DOMAIN s : i \notin lignes}

\* What is kept of the file, read a second time: places, then lines in their order.
Garde(s, lignes) == {i \in DOMAIN s : s[i].genre = "note" \/ Numero(s, i) \notin lignes}
Rang(K, k) == CHOOSE i \in K : Cardinality({j \in K : j <= i}) = k
Extrait(s, K) == [k \in 1 .. Cardinality(K) |-> s[Rang(K, k)]]

\* ecrire_atomiquement, and the page connects again; or it fails and the tab ends.
OublierEcrire(o) ==
  /\ oubli.par = o
  /\ oubli' = Libre
  /\ \/ /\ known' = Extrait(known, Garde(known, oubli.lignes))
        /\ cx' = [p \in Onglets |->
                    IF p = o THEN [Repos EXCEPT !.phase = "marques", !.reapprise = TRUE,
                                     !.presentee = presente[Chaine[o][1]],
                                     !.debut = ClesDans(known', Chaine[o][1])]
                    ELSE IF Hote(p) = AOublier(o) THEN [cx[p] EXCEPT !.oubliee = TRUE]
                    ELSE cx[p]]
     \/ UNCHANGED known /\ cx' = [cx EXCEPT ![o] = [Repos EXCEPT !.phase = "fermee"]]
  /\ Fixe /\ UNCHANGED etat

\* Someone reinstalls a server.
Reinstaller(h) ==
  /\ reinstalle < REINSTALLATIONS
  /\ \E k \in Cles \ {presente[h]} : presente' = [presente EXCEPT ![h] = k]
  /\ reinstalle' = reinstalle + 1
  /\ UNCHANGED <<etat, known, cx, oubli, essais>>

NextConfiance ==
  \/ \E o \in Onglets :
       \/ Connecter(o) \/ LireMarques(o) \/ LireCles(o) \/ RendreVerdict(o) \/ Apprendre(o)
       \/ Suivre(o) \/ Rapporter(o) \/ Repondre(o) \/ OublierLire(o) \/ OublierEcrire(o)
  \/ \E h \in Hotes : Reinstaller(h)

SpecConfiance == InitConfiance /\ [][NextConfiance]_varsConfiance

-----------------------------------------------------------------------------
(* Properties. *)

\* An accepted key was among those of the host when the server was reached or was
\* learnt by another tab since, or the host had none, unless its keys were forgotten
\* meanwhile; and it is recorded from then on (juger_cle_hote: any other key is a
\* change).  The keys another tab learnt cannot be left out: it may have read the file
\* before this one wrote there, and learn a second key of the host.
CleSure ==
  \A o \in Onglets : cx[o].phase = "acceptee" =>
    \/ cx[o].oubliee
    \/ /\ cx[o].debut = {} \/ cx[o].presentee \in cx[o].debut \cup cx[o].apprises
       /\ cx[o].presentee \in Enregistrees(Hote(o))

\* A host that a marker names is never joined (marqueur_bloquant), patterns
\* excepted.
MarqueTenue ==
  \A o \in Onglets : cx[o].phase = "acceptee" =>
    ~\E i \in DOMAIN known : known[i].genre = "marque" /\ known[i].hote = Hote(o) /\ known[i].forme # "joker"

\* What a tab relies on when it joins a host.
ConfianceTenue == TypesConfiance /\ CleSure /\ MarqueTenue

\* Forgetting takes away the lines of one host, every one of them, and leaves
\* the rest of the file as it was, in order, a key learnt meanwhile included
\* (ECRITURE_KNOWN_HOSTS, the numbering of forget_host_key_at).
OubliExact ==
  [][oubli.par # AucunOnglet /\ known' # known =>
       known' = Extrait(known, DOMAIN known \ LignesDe(known, AOublier(oubli.par)))]_varsConfiance

\* No key is lost otherwise: a known host stays known.
ClesGardees ==
  [][\A h \in Hotes : oubli.par # AucunOnglet \/ Enregistrees(h) \subseteq Enregistrees(h)']_varsConfiance

\* What the page forgets is the key that changed, at the link where it changed.
OubliConsenti ==
  \A o \in Onglets : cx[o].phase = "oublie" => Hote(o) = AOublier(o)

\* Of two tabs that are joining one host, both do not accept a different key.
UneCleParHote ==
  \A o, p \in Onglets : cx[o].phase = "acceptee" /\ cx[p].phase = "acceptee" /\ Hote(o) = Hote(p) =>
    cx[o].presentee = cx[p].presentee
=============================================================================
