-------------------------------- MODULE MCSsh --------------------------------
(***************************************************************************)
(* Instances for TLC of the SSH client, each in a scene of its own: the      *)
(* establishment of a chain of links (Etablissement), the commands of a      *)
(* session and the agent lent to them (Commande), and one connection of a    *)
(* tunnel (Acheminement).  A behaviour of the run is one of a single scene.  *)
(* What the commands must never do is checked with more of them (MCPoste).   *)
(***************************************************************************)
EXTENDS Etablissement, Acheminement

CONSTANT Scenes                         \* the components looked at

VARIABLES
  scene,                                \* the component that moves
  verrou, cmd, agent, relais, table     \* Commande

MCCommandes == <<"c1", "s">>
Session == INSTANCE Commande WITH
             Commandes <- {"c1", "s"}, AvecAgent <- {"c1"},
             Relais <- {"r1", "r2"}, PLAFOND <- 1

ASSUME Scenes \subseteq {"chaine", "session", "tunnel"}
ASSUME Session!CommandeAssumption

varsSession == <<verrou, cmd, agent, relais, table>>
toutes == <<scene, varsEtablissement, varsSession, varsAcheminement>>

InitScenes ==
  /\ scene \in Scenes
  /\ InitEtablissement /\ Session!Init /\ InitAcheminement
  /\ scene # "chaine" => ~trousseau
  /\ scene # "tunnel" => genre = "local"

EnChaine == scene = "chaine" /\ UNCHANGED <<scene, varsSession, varsAcheminement>>
EnSession == scene = "session" /\ UNCHANGED <<scene, varsEtablissement, varsAcheminement>>
EnTunnel == scene = "tunnel" /\ UNCHANGED <<scene, varsEtablissement, varsSession>>

NextScenes == \/ EnChaine /\ NextEtablissement
              \/ EnSession /\ Session!Next
              \/ EnTunnel /\ NextAcheminement

\* The fairness of each component (its Equite), in its scene.
EquiteChaine ==
  WF_varsEtablissement(EnChaine /\ Connecter) /\ WF_varsEtablissement(EnChaine /\ Expirer)
EquiteSession == \A i \in 1 .. 2 :
  /\ SF_varsSession(EnSession /\ Session!Prendre(MCCommandes[i]))
  /\ WF_varsSession(EnSession /\ Session!OuvrirCanal(MCCommandes[i]))
  /\ WF_varsSession(EnSession /\ Session!Verdict(MCCommandes[i]))
  /\ WF_varsSession(EnSession /\ Session!Expirer(MCCommandes[i]))
  /\ WF_varsSession(EnSession /\ Session!Interrompre(MCCommandes[i]))
EquiteTunnel ==
  /\ WF_varsAcheminement(EnTunnel /\ Casser("x"))
  /\ \A x \in {"a", "b"} :
       /\ SF_varsAcheminement(EnTunnel /\ Lire("x", x))
       /\ SF_varsAcheminement(EnTunnel /\ LireFin("x", x))
       /\ WF_varsAcheminement(EnTunnel /\ EcrireCote("x", x))
       /\ WF_varsAcheminement(EnTunnel /\ Recevoir("x", x))
       /\ WF_varsAcheminement(EnTunnel /\ Emettre("x", x) /\ EnEcho(x))

SpecScenes == InitScenes /\ [][NextScenes]_toutes /\ EquiteChaine /\ EquiteSession /\ EquiteTunnel

\* A password goes to the host of the tab alone and a live tab holds its chain
\* (Etablissement!MdpTenu, RebondsTenus); a relay loses nothing and counts what it
\* wrote (Acheminement!RienDePerdu, ComptesVrais).
SshTenu == EtablissementTenu /\ AcheminementTenu

\* What is waited for in the scene, at most three things at once, and its end: an
\* attempt to connect (Etablissement!AppelAboutit); a command that holds the
\* session (Commande!CommandeRendue); a unit in flight on each side, and a relay
\* whose ends have said everything (Acheminement!Coule, RelaisRendu).
Cote(i) == IF i = 1 THEN "a" ELSE "b"
Attendu(i) ==
  CASE scene = "chaine" /\ i = 1 -> page.phase = "appel"
    [] scene = "session" /\ i \in {1, 2} ->
         LET c == MCCommandes[i] IN verrou = c /\ (c = "s" \/ cmd[c].annule)
    [] scene = "tunnel" /\ i \in {1, 2} -> cx["x"].entrant[Cote(i)] > 0
    [] scene = "tunnel" /\ i = 3 ->
         cx["x"].phase = "relaie" /\ \A x \in {"a", "b"} : cx["x"].fin[x] \/ cx["x"].coupe[x]
    [] OTHER -> FALSE
Rendu(i) ==
  CASE scene = "chaine" /\ i = 1 -> page.phase # "appel"
    [] scene = "session" /\ i \in {1, 2} -> cmd[MCCommandes[i]].etat = "rendu"
    [] scene = "tunnel" /\ i \in {1, 2} -> cx["x"].entrant[Cote(i)] = 0 \/ cx["x"].phase = "fini"
    [] scene = "tunnel" /\ i = 3 -> cx["x"].phase # "relaie"
    [] OTHER -> TRUE

\* All of it comes: no connection without an end, no session held for ever by one
\* command, no relay that stops in the middle.
SshVif == \A i \in 1 .. 3 : Attendu(i) ~> Rendu(i)
===============================================================================
