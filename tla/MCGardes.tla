------------------------------- MODULE MCGardes -------------------------------
(***************************************************************************)
(* Instances for TLC of what the keepers of a state must never do, each in a *)
(* scene of its own: the surfaces of the graphics channel (Surfaces), the    *)
(* host keys (Confiance), ~/.ssh/config (ConfigSsh), the folders (Dossiers), *)
(* the keyring (Secrets), a file of the core that is replaced (Ecriture) and *)
(* the import of sessions (Import).                                          *)
(* A behaviour of the run is one of a single scene.                          *)
(***************************************************************************)
EXTENDS Surfaces, Confiance, TLC

VARIABLES
  scene,                                                       \* the component that moves
  fichier, edition,                                            \* ConfigSsh
  hotes, bureaux, registre, fil, voulu, reste,                 \* Dossiers
  compte, trousseau, filS, auteur, resteS,                     \* Secrets
  nom, cible, temporaire, victime, appel, coupures,            \* Ecriture
  hotesI, bureauxI, clesI, puttygen, page, analyses, appelI, gestesI, pannesI   \* Import

-----------------------------------------------------------------------------
\* Zones of the screen: one that a narrow surface cuts, two with a gap, the second of
\* which overflows; streams of tiles, some of which the client cannot read.
MCListes == {<< <<0, 2>> >>, << <<0, 1>>, <<2, 2>> >>}
MCFlux == {<< <<0, "pleine", 2, TRUE>> >>, << <<0, "ecart", 1, TRUE>>, <<1, "pleine", 1, FALSE>> >>,
           << <<0, "affinage", 1, TRUE>>, <<2, "pleine", 1, TRUE>> >>}

\* Two tabs on one host, one of them through another; what known_hosts may hold.
MCHotes == {"h", "b"}
MCCles == {"k1", "k2", "k3"}
MCOnglets == {"o1", "o2"}
MCNom == [x \in MCHotes |-> "n"]
MCChaine == [o \in MCOnglets |-> IF o = "o1" THEN <<"h">> ELSE <<"b", "h">>]
MCAlgo == [k \in MCCles |-> IF k = "k3" THEN "autre" ELSE "un"]
L(h, k) == [genre |-> "cle", hote |-> h, cle |-> k]
M(h, f) == [genre |-> "marque", hote |-> h, forme |-> f]
N == [genre |-> "note"]
MCContenus == {<<>>, <<N, L("h", "k1"), L("b", "k1")>>, <<L("b", "k2"), N, L("h", "k1"), L("h", "k2")>>,
               <<M("b", "hache_port"), L("h", "k1")>>, <<M("h", "crochet"), N, L("b", "k1")>>, <<M("h", "joker")>>}

\* Files of two blocks a and b, with at most one line in each, after an Include or a
\* pattern block and before a Match or a block of two names.
Seule(n) == [k |-> "libre", v |-> n]
Bloc(S) == [k |-> "host", noms |-> S, sauf |-> {}]
Corps(n) == {<<>>} \cup {<<l>> : l \in {[k |-> "hostname", v |-> "h1"], [k |-> "port", v |-> "2222"],
              [k |-> "dossier", v |-> "d2"], Seule(n), [k |-> "inconnue", v |-> n], [k |-> "vide"]}}
Avant == {<<[k |-> "include"]>>,
          <<[k |-> "host", noms |-> {"*"}, sauf |-> {"b"}], [k |-> "port", v |-> "2200"]>>}
Apres == {<<[k |-> "match"], [k |-> "port", v |-> "99"]>>,
          <<Bloc({"a", "c"}), [k |-> "hostname", v |-> "h2"]>>}
MCInclus == <<Bloc({"i"}), [k |-> "hostname", v |-> "h2"]>>
MCFichiers == {x \o <<Bloc({"a"})>> \o ca \o <<Bloc({"b"})>> \o cb \o y :
               x \in Avant, y \in Apres, ca \in Corps("ca"), cb \in Corps("cb")}
Voulu(n, h, p, d) == [nom |-> n, hostname |-> h, port |-> p, dossier |-> d]
MCVoulus == {Voulu("a", "h2", "22", "d1"), Voulu("c", "h1", "2200", ""), Voulu("i", "h1", "", "d1"),
             Voulu("b", "h2", "", "")}

\* Folders a and a/x, a block of two names, an included file; renames, one of them of a
\* folder into itself, removals and moves that meet.
A == <<"a">>
AX == <<"a", "x">>
B == <<"b">>
Demande(g, de, vers, n) == [genre |-> g, de |-> de, vers |-> vers, nom |-> n]
MCDepart == [hotes |-> ("h1" :> A @@ "h2" :> AX @@ "m" :> A),
             bureaux |-> ("d1" :> AX @@ "d2" :> <<"absent">>), registre |-> {A, AX}]
MCDemandes == {Demande("renommer", A, B, ""), Demande("renommer", A, AX, ""),
               Demande("supprimer", A, <<>>, ""), Demande("renommer", <<"i">>, B, ""),
               Demande("creer", <<>>, AX, ""), Demande("ranger", <<>>, B, "h1"),
               Demande("ranger", <<>>, <<>>, "h2"), Demande("bureau", <<>>, AX, "d2")}

\* Two hosts of one account, one of an included file, two desktops of one account.
MCComptes == "web" :> "s1" @@ "jumeau" :> "s1" @@ "inclus" :> "s2" @@ "d1" :> "r1" @@ "d2" :> "r1"

\* A MobaXterm.ini of two sections, with two keys of one name and a name in capitals; a
\* directory of PuTTY sessions; the registry, one of its names unreadable.  Two hosts are
\* declared, one of them by its address alone.
Ppk(l) == [lieu |-> l, tige |-> "cle", ppk |-> TRUE]
Vers(h) == [k |-> "HostName", v |-> [util |-> "u", hote |-> <<h>>]]
Moba(t, n, h, u, p, c) == [k |-> "signet", type |-> t, nom |-> n, hote |-> <<h>>, util |-> u, port |-> p, cle |-> c]
Aucune == [lieu |-> "", tige |-> "", ppk |-> FALSE]
Signets == [k |-> "section", signets |-> TRUE]
MCMoba == <<Signets, [k |-> "SubRep", v |-> "d1"], Moba("109", <<"prod", " ", "web">>, "h1", "u", "22", Ppk("a")),
            Signets, Moba("109", <<"PROD">>, "h2", "", "", Ppk("b")), Moba("91", <<"bureau">>, "h1", "u", "", Aucune),
            Moba("98", <<"telnet">>, "h1", "", "", Aucune)>>
MCPutty == <<[nom |-> <<"prod", " ", " ", "web">>, lisible |-> TRUE, paires |-> <<Vers("H1"), [k |-> "UserName", v |-> ""]>>],
             [nom |-> <<"x">>, lisible |-> FALSE, paires |-> <<>>],
             [nom |-> <<"y">>, lisible |-> TRUE, paires |-> <<Vers("h3"), [k |-> "Protocol", v |-> "telnet"]>>]>>
MCRegistre == <<[k |-> "racine"], [k |-> "cle", nom |-> <<"w">>], Vers("h4"), [k |-> "PublicKeyFile", v |-> Ppk("a")],
                [k |-> "cle", nom |-> <<"v">>], Vers("h5"), [k |-> "PortNumber", v |-> "22"],
                [k |-> "cle", nom |-> <<"illisible">>], Vers("h5"), [k |-> "cle", nom |-> <<"Default Settings">>]>>
Declare(n, h, p) == [de |-> <<"", 0>>, alias |-> n, hote |-> h, util |-> "", port |-> p, dossier |-> "",
                     cle |-> Aucune, ppk |-> Aucune, par |-> 0, rang |-> 0]

Im == INSTANCE Import WITH
        config <- hotesI, bureaux <- bureauxI, cles <- clesI, appel <- appelI, gestes <- gestesI, pannes <- pannesI,
        Sources <- "moba" :> [genre |-> "ini", lignes |-> MCMoba] @@
                   "putty" :> [genre |-> "dossier", lignes |-> MCPutty] @@
                   "registre" :> [genre |-> "registre", lignes |-> MCRegistre],
        Depart <- <<Declare(<<"prod">>, <<>>, ""), Declare(<<"prod", "-", "web">>, <<"h9">>, "22")>>,
        Tiges <- {"cle"}, Siennes <- {}, Enregistres <- <<>>, Minuscules <- "PROD" :> "prod" @@ "H1" :> "h1",
        Saisies <- {<<"prod", "-", "web">>}, Appels <- {1, 2}, GESTES_MAX <- 2, PANNES_MAX <- 1
Cg == INSTANCE ConfigSsh WITH
        Noms <- {"a", "b", "c", "i"}, Hotes <- MCVoulus, OPERATIONS_MAX <- 1,
        Inclus <- MCInclus, Fichiers <- MCFichiers
Ds == INSTANCE Dossiers WITH
        Fils <- {1, 2}, Multiples <- {"m"}, Bureaux <- {"d1", "d2"}, LANCEMENTS_MAX <- 2,
        PANNES_MAX <- 1, ACCIDENTS_MAX <- 1, Hotes <- <<"h1", "h2", "m">>, Inclus <- {<<"i">>},
        Depart <- MCDepart, Demandes <- MCDemandes
Se == INSTANCE Secrets WITH
        fil <- filS, reste <- resteS, Alias <- {"web", "jumeau", "inclus"}, Inclus <- {"inclus"},
        Bureaux <- {"d1", "d2"}, ComptesSsh <- {"s1", "s2"}, ComptesBureau <- {"r1", "r2"},
        Fils <- {1}, GESTES_MAX <- 2, COMMANDES_MAX <- 2, PANNES_MAX <- 1, ACCIDENTS_MAX <- 1,
        Depart <- MCComptes
Ec == INSTANCE Ecriture WITH
        Appels <- {"c1", "c2"}, Tirages <- {1, 2, 3}, Pieges <- {1}, ESSAIS_MAX <- 3,
        COUPURES_MAX <- 1

ASSUME SurfacesAssumption /\ ConfianceAssumption

-----------------------------------------------------------------------------
varsCg == <<fichier, edition>>
varsDs == <<hotes, bureaux, registre, fil, voulu, reste>>
varsSe == <<compte, trousseau, filS, auteur, resteS>>
varsEc == <<nom, cible, temporaire, victime, appel, coupures>>
varsIm == <<hotesI, bureauxI, clesI, puttygen, page, analyses, appelI, gestesI, pannesI>>
toutes == <<scene, varsSurfaces, varsConfiance, varsCg, varsDs, varsSe, varsEc, varsIm>>

InitScenes ==
  /\ scene \in {"surfaces", "confiance", "config", "dossiers", "secrets", "ecriture", "import"}
  /\ InitSurfaces /\ Ds!Init /\ Se!Init /\ Im!Init /\ (scene # "import" => puttygen)
  /\ IF scene = "confiance" THEN InitConfiance
     ELSE /\ etat = "absent" /\ known = <<>> /\ presente = [h \in Hotes |-> "k1"]
          /\ cx = [o \in Onglets |-> Repos] /\ oubli = Libre /\ reinstalle = 0 /\ essais = 0
  /\ IF scene = "config" THEN Cg!Init ELSE fichier = <<>> /\ edition = Cg!Repos
  /\ IF scene = "ecriture" THEN Ec!Init
     ELSE /\ nom = "fichier" /\ cible = Ec!Nul /\ temporaire = <<>> /\ victime = "intacte"
          /\ appel = <<>> /\ coupures = 0

EnSf == scene = "surfaces" /\ UNCHANGED <<scene, varsConfiance, varsCg, varsDs, varsSe, varsEc, varsIm>>
EnCf == scene = "confiance" /\ UNCHANGED <<scene, varsSurfaces, varsCg, varsDs, varsSe, varsEc, varsIm>>
EnCg == scene = "config" /\ UNCHANGED <<scene, varsSurfaces, varsConfiance, varsDs, varsSe, varsEc, varsIm>>
EnDs == scene = "dossiers" /\ UNCHANGED <<scene, varsSurfaces, varsConfiance, varsCg, varsSe, varsEc, varsIm>>
EnSe == scene = "secrets" /\ UNCHANGED <<scene, varsSurfaces, varsConfiance, varsCg, varsDs, varsEc, varsIm>>
EnEc == scene = "ecriture" /\ UNCHANGED <<scene, varsSurfaces, varsConfiance, varsCg, varsDs, varsSe, varsIm>>
EnIm == scene = "import" /\ UNCHANGED <<scene, varsSurfaces, varsConfiance, varsCg, varsDs, varsSe, varsEc>>

NextScenes == \/ EnSf /\ NextSurfaces
              \/ EnCf /\ NextConfiance
              \/ EnCg /\ Cg!Next
              \/ EnDs /\ Ds!Next
              \/ EnSe /\ Se!Next
              \/ EnEc /\ Ec!Next
              \/ EnIm /\ Im!Next

SpecScenes == InitScenes /\ [][NextScenes]_toutes

\* The registry holds the folders above its own, and a command on folders did all of
\* what it says or, refused, nothing (Dossiers!AncetresLa, Entier, RefusSansEffet); a
\* password memorised is never nowhere, and none is left of an account nobody names
\* (Secrets!SecretSuivi, SansOrphelin); whoever reads a file of the core reads a whole
\* content, whatever stops on the way (Ecriture!FichierEntier, RienNeTraine); an import
\* reads each session as its source has it, accounts for each host it was given and finds
\* a name for it (Import!LectureFidele, BilanVrai, NomTrouve, NomsDistincts).
MagasinsTenus ==
  /\ scene = "dossiers" => Ds!TypeOK /\ Ds!AncetresLa /\ Ds!Entier /\ Ds!RefusSansEffet
  /\ scene = "secrets" => Se!TypeOK /\ Se!SecretSuivi /\ Se!SansOrphelin
  /\ scene = "ecriture" => Ec!TypeOK /\ Ec!FichierEntier /\ Ec!RienNeTraine
  /\ scene = "import" => Im!ImportTenu

\* An edit of ~/.ssh/config writes the host asked for, changes no other, and keeps the
\* lines the shell does not write (ConfigSsh!EcritureFidele, SeulElle, LignesGardees).
ConfigTenue == Cg!EcritureFidele /\ Cg!SeulElle /\ Cg!LignesGardees

\* What was not to be touched is not: forgetting a host takes its keys and no other
\* line, and no key is lost otherwise (Confiance!OubliExact, ClesGardees); the core
\* takes nothing from the keyring of a host that was not edited (Secrets!HotesGardes);
\* a target reached through a link stays a link (Ecriture!LienGarde); an imported host has
\* its own key, and what was imported is not offered again (Import!CleFidele,
\* ConnuDecoche).
RestesGardes == /\ OubliExact /\ ClesGardees /\ Se!HotesGardes /\ Ec!LienGarde
                /\ Im!CleFidele /\ Im!ConnuDecoche
===============================================================================
