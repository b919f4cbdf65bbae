--------------------------- MODULE SessionsPreuves --------------------------
(***************************************************************************)
(* Theorems about Sessions, for every set of ids, openings and closings.   *)
(*                                                                         *)
(* HandleVivant and RetraitLegitime hold however often the webview is      *)
(* reloaded.  FermeeJamaisEnregistree needs that it is not: the annulment  *)
(* of an opening is a note under its id, and only the rule that a page     *)
(* never gives an id twice keeps another opening from consuming it.        *)
(*                                                                         *)
(* The second part is about Confiance: the key a tab accepts, the lines a  *)
(* forgetting takes, the keys that stay, whatever other tabs learn in the  *)
(* meantime.                                                               *)
(***************************************************************************)
EXTENDS Sessions, Confiance, FiniteSetTheorems, SequenceTheorems, WellFoundedInduction, TLAPS

\* The lock of `inner` is held exactly by the call that stands inside it.
VerrouTenu ==
  /\ \A o \in Ouvertures : ouv[o].etape = "sous_verrou" <=> verrou = o
  /\ \A f \in Fermetures : ferm[f].etape = "sous_verrou" <=> verrou = f

\* What holds with any number of reloads.
Socle == TypeOK /\ VerrouTenu /\ HandleVivant

\* The types are kept, the lock of the store has one holder, and a handle of
\* the store is always that of a living session filed under its own id.
LEMMA SocleInit == Init => Socle
BY SessionsAssumption
   DEF Init, Pages, Socle, TypeOK, VerrouTenu, HandleVivant, EtapesOuverture, EtapesFermeture,
       EtatsOnglet, SansOnglet

LEMMA AllerType ==
  ASSUME TypeOK, NEW o \in Ouvertures, NEW e \in EtapesOuverture, Aller(o, e)
  PROVE  ouv' \in [Ouvertures -> [etape : EtapesOuverture, id : Ids, page : Pages]]
BY DEF TypeOK, Aller

LEMMA PromesseType ==
  ASSUME TypeOK, NEW o \in Ouvertures, TenirPromesse(o)
  PROVE  /\ reponses' \in SUBSET Ouvertures
         /\ ouv[o].page = recharges => reponses' = reponses \cup {o}
         /\ ouv[o].page # recharges => reponses' = reponses
<1>1. CASE ouv[o].page = recharges
  BY <1>1 DEF TypeOK, TenirPromesse
<1>2. CASE ouv[o].page # recharges
  BY <1>2 DEF TypeOK, TenirPromesse
<1>3. QED BY <1>1, <1>2

LEMMA SocleType == TypeOK /\ VerrouTenu /\ [Next]_vars => TypeOK'
<1> SUFFICES ASSUME TypeOK, VerrouTenu, [Next]_vars PROVE TypeOK'
  OBVIOUS
<1> USE SessionsAssumption DEF TypeOK, EtapesOuverture, EtapesFermeture, EtatsOnglet
<1>1. ASSUME NEW o \in Ouvertures, NEW id \in Ids, Appeler(o, id),
             servis' \in SUBSET Ids
      PROVE  TypeOK'
  BY <1>1 DEF Appeler, storeVars
<1>2. ASSUME NEW o \in Ouvertures, NEW id \in Ids, NouvelOnglet(o, id) PROVE TypeOK'
  BY <1>1, <1>2 DEF NouvelOnglet
<1>3. ASSUME NEW o \in Ouvertures, NEW id \in Ids, Reconnecter(o, id) PROVE TypeOK'
  BY <1>1, <1>3 DEF Reconnecter
<1>4. ASSUME NEW f \in Fermetures, NEW id \in Ids, FermerOnglet(f, id) PROVE TypeOK'
  <2>1. SansOnglet \in [o : Ouvertures \cup {Personne}, etat : EtatsOnglet, closed : BOOLEAN]
    BY DEF SansOnglet
  <2>2. onglet' \in [Ids -> [o : Ouvertures \cup {Personne}, etat : EtatsOnglet, closed : BOOLEAN]]
    BY <1>4, <2>1 DEF FermerOnglet
  <2>3. ferm' \in [Fermetures -> [etape : EtapesFermeture, id : Ids]]
    BY <1>4 DEF FermerOnglet
  <2>4. QED BY <1>4, <2>2, <2>3 DEF FermerOnglet, storeVars
<1>5. CASE Recharger
  <2>1. SansOnglet \in [o : Ouvertures \cup {Personne}, etat : EtatsOnglet, closed : BOOLEAN]
    BY DEF SansOnglet
  <2>2. recharges' \in Pages
    BY <1>5 DEF Recharger, Pages
  <2>3. QED BY <1>5, <2>1, <2>2 DEF Recharger, storeVars
<1>6. ASSUME NEW o \in Ouvertures, RecevoirReponse(o) PROVE TypeOK'
  <2>1. ouv[o].id \in Ids
    OBVIOUS
  <2>2. onglet' \in [Ids -> [o : Ouvertures \cup {Personne}, etat : EtatsOnglet, closed : BOOLEAN]]
    <3>1. onglet[ouv[o].id] \in [o : Ouvertures \cup {Personne}, etat : EtatsOnglet, closed : BOOLEAN]
      BY <2>1
    <3>3. \/ onglet' = onglet
          \/ onglet' = [onglet EXCEPT ![ouv[o].id].etat = "closed", ![ouv[o].id].closed = TRUE]
          \/ onglet' = [onglet EXCEPT ![ouv[o].id].etat = "live"]
      BY <1>6 DEF RecevoirReponse, IdDe
    <3>4. CASE onglet' = [onglet EXCEPT ![ouv[o].id].etat = "closed", ![ouv[o].id].closed = TRUE]
      BY <2>1, <3>1, <3>4
    <3>5. CASE onglet' = [onglet EXCEPT ![ouv[o].id].etat = "live"]
      BY <2>1, <3>1, <3>5
    <3>6. QED BY <3>3, <3>4, <3>5
  <2>3. QED BY <1>6, <2>2 DEF RecevoirReponse, storeVars
<1>7. ASSUME NEW o \in Ouvertures, RecevoirFin(o) PROVE TypeOK'
  <2>1. ouv[o].id \in Ids
    OBVIOUS
  <2>2. onglet' \in [Ids -> [o : Ouvertures \cup {Personne}, etat : EtatsOnglet, closed : BOOLEAN]]
    BY <1>7, <2>1 DEF RecevoirFin, IdDe
  <2>3. QED BY <1>7, <2>2 DEF RecevoirFin, storeVars
<1>8. ASSUME NEW o \in Ouvertures, Ouverture(o) PROVE TypeOK'
  <2>1. ouv[o].id \in Ids
    OBVIOUS
  <2>2. PICK e \in EtapesOuverture : Aller(o, e)
    BY <1>8 DEF Ouverture, EchecTrousseau, Inscrire, EchecEtablir, Etablir, EntrerEnregistrer,
       Annuler, Enregistrer
  <2>3. ouv' \in [Ouvertures -> [etape : EtapesOuverture, id : Ids, page : Pages]]
    BY <2>2, AllerType
  <2>4. CASE EchecTrousseau(o)
    <3>1. reponses' \in SUBSET Ouvertures
      BY <2>4, PromesseType DEF EchecTrousseau
    <3>2. QED BY <2>1, <2>3, <2>4, <3>1 DEF EchecTrousseau, storeVars, frontVars
  <2>5. CASE Inscrire(o)
    BY <2>1, <2>3, <2>5 DEF Inscrire, IdDe, frontVars
  <2>6. CASE EchecEtablir(o)
    <3>1. reponses' \in SUBSET Ouvertures
      BY <2>6, PromesseType DEF EchecEtablir
    <3>2. QED BY <2>1, <2>3, <2>6, <3>1 DEF EchecEtablir, IdDe, frontVars
  <2>7. CASE EntrerEnregistrer(o)
    BY <2>1, <2>3, <2>7 DEF EntrerEnregistrer, IdDe, frontVars
  <2>11. CASE Etablir(o)
    BY <2>3, <2>11 DEF Etablir, storeVars, frontVars
  <2>8. CASE Annuler(o)
    <3>1. reponses' \in SUBSET Ouvertures
      BY <2>8, PromesseType DEF Annuler
    <3>2. QED BY <2>1, <2>3, <2>8, <3>1 DEF Annuler, IdDe, frontVars
  <2>9. CASE Enregistrer(o)
    <3>1. reponses' \in SUBSET Ouvertures
      BY <2>9, PromesseType DEF Enregistrer
    <3>2. QED BY <2>1, <2>3, <2>9, <3>1 DEF Enregistrer, IdDe, frontVars
  <2>12. QED BY <1>8, <2>4, <2>5, <2>6, <2>7, <2>8, <2>9, <2>11 DEF Ouverture
<1>9. ASSUME NEW o \in Ouvertures, Clore(o) PROVE TypeOK'
  <2>1. CASE inner[IdDe(o)] = o
    <3>1. inner' \in [Ids -> Ouvertures \cup {Personne}] /\ evts' \in SUBSET Ouvertures
      BY <1>9, <2>1 DEF Clore, IdDe
    <3>2. ouv' \in [Ouvertures -> [etape : EtapesOuverture, id : Ids, page : Pages]]
      BY <1>9 DEF Clore, Aller
    <3>3. QED BY <1>9, <3>1, <3>2 DEF Clore, frontVars
  <2>2. CASE inner[IdDe(o)] # o
    BY <1>9, <2>2 DEF Clore, Aller, frontVars
  <2>3. QED BY <2>1, <2>2
<1>10. ASSUME NEW f \in Fermetures, Fermeture(f) PROVE TypeOK'
  <2>1. CASE Fermer(f)
    <3>1. inner' \in [Ids -> Ouvertures \cup {Personne}]
      BY <2>1 DEF Fermer
    <3>2. ferm' \in [Fermetures -> [etape : EtapesFermeture, id : Ids]]
      <4>1. \E e \in EtapesFermeture : ferm' = [ferm EXCEPT ![f].etape = e]
        BY <2>1 DEF Fermer
      <4>2. QED BY <4>1
    <3>3. visees' \in SUBSET Ouvertures /\ verrou' \in {verrou, f}
      BY <2>1 DEF Fermer
    <3>4. QED BY <2>1, <3>1, <3>2, <3>3 DEF Fermer, frontVars
  <2>2. CASE NoterAnnulation(f)
    BY <2>2 DEF NoterAnnulation, frontVars
  <2>3. QED BY <1>10, <2>1, <2>2 DEF Fermeture
<1>11. CASE UNCHANGED vars
  BY <1>11 DEF vars
<1>12. QED
  BY <1>2, <1>3, <1>4, <1>5, <1>6, <1>7, <1>8, <1>9, <1>10, <1>11 DEF Next

LEMMA SocleVerrou == TypeOK /\ VerrouTenu /\ [Next]_vars => VerrouTenu'
<1> SUFFICES ASSUME TypeOK, VerrouTenu, [Next]_vars PROVE VerrouTenu'
  OBVIOUS
<1> USE SessionsAssumption DEF TypeOK, VerrouTenu
<1>1. ASSUME NEW o \in Ouvertures, NEW id \in Ids, Appeler(o, id) PROVE VerrouTenu'
  BY <1>1 DEF Appeler, storeVars
<1>2. ASSUME NEW f \in Fermetures, NEW id \in Ids, FermerOnglet(f, id) PROVE VerrouTenu'
  BY <1>2 DEF FermerOnglet, storeVars
<1>3. CASE Recharger
  BY <1>3 DEF Recharger, storeVars
<1>4. ASSUME NEW o \in Ouvertures, RecevoirReponse(o) \/ RecevoirFin(o) PROVE VerrouTenu'
  BY <1>4 DEF RecevoirReponse, RecevoirFin, storeVars
<1>5. ASSUME NEW o \in Ouvertures, Ouverture(o) PROVE VerrouTenu'
  <2>1. CASE EchecTrousseau(o)
    BY <2>1 DEF EchecTrousseau, Aller, storeVars, frontVars
  <2>2. CASE Inscrire(o)
    BY <2>2 DEF Inscrire, Aller, IdDe, frontVars
  <2>3. CASE EchecEtablir(o)
    BY <2>3 DEF EchecEtablir, Aller, IdDe, frontVars
  <2>4. CASE EntrerEnregistrer(o)
    BY <2>4 DEF EntrerEnregistrer, Aller, IdDe, frontVars
  <2>5. CASE Annuler(o)
    BY <2>5 DEF Annuler, Aller, IdDe, frontVars
  <2>6. CASE Enregistrer(o)
    BY <2>6 DEF Enregistrer, Aller, IdDe, frontVars
  <2>7. CASE Etablir(o)
    BY <2>7 DEF Etablir, Aller, storeVars, frontVars
  <2>8. QED BY <1>5, <2>1, <2>2, <2>3, <2>4, <2>5, <2>6, <2>7 DEF Ouverture
<1>6. ASSUME NEW o \in Ouvertures, Clore(o) PROVE VerrouTenu'
  BY <1>6 DEF Clore, Aller
<1>7. ASSUME NEW f \in Fermetures, Fermeture(f) PROVE VerrouTenu'
  <2>1. CASE Fermer(f)
    <3>1. CASE inner[ferm[f].id] = Personne /\ ferm[f].id \in en_cours
      BY <2>1, <3>1 DEF Fermer
    <3>2. CASE ~(inner[ferm[f].id] = Personne /\ ferm[f].id \in en_cours)
      BY <2>1, <3>2 DEF Fermer
    <3>3. QED BY <3>1, <3>2
  <2>2. CASE NoterAnnulation(f)
    BY <2>2 DEF NoterAnnulation
  <2>3. QED BY <1>7, <2>1, <2>2 DEF Fermeture
<1>8. CASE UNCHANGED vars
  BY <1>8 DEF vars
<1>9. QED
  BY <1>1, <1>2, <1>3, <1>4, <1>5, <1>6, <1>7, <1>8 DEF Next, NouvelOnglet, Reconnecter

LEMMA SocleHandle == TypeOK /\ VerrouTenu /\ HandleVivant /\ [Next]_vars => HandleVivant'
<1> SUFFICES ASSUME TypeOK, VerrouTenu, HandleVivant, [Next]_vars PROVE HandleVivant'
  OBVIOUS
<1> USE SessionsAssumption DEF TypeOK, HandleVivant
<1>1. ASSUME NEW o \in Ouvertures, NEW id \in Ids, Appeler(o, id) PROVE HandleVivant'
  BY <1>1 DEF Appeler, storeVars
<1>2. ASSUME NEW f \in Fermetures, NEW id \in Ids, FermerOnglet(f, id) PROVE HandleVivant'
  BY <1>2 DEF FermerOnglet, storeVars
<1>3. CASE Recharger
  BY <1>3 DEF Recharger, storeVars
<1>4. ASSUME NEW o \in Ouvertures, RecevoirReponse(o) \/ RecevoirFin(o) PROVE HandleVivant'
  BY <1>4 DEF RecevoirReponse, RecevoirFin, storeVars
<1>5. ASSUME NEW o \in Ouvertures, Ouverture(o) PROVE HandleVivant'
  <2>1. CASE Enregistrer(o)
    BY <2>1 DEF Enregistrer, Aller, IdDe
  <2>2. CASE ~Enregistrer(o)
    BY <1>5, <2>2 DEF Ouverture, EchecTrousseau, Inscrire, EchecEtablir, Etablir, EntrerEnregistrer,
       Annuler, Aller, storeVars
  <2>3. QED BY <2>1, <2>2
<1>6. ASSUME NEW o \in Ouvertures, Clore(o) PROVE HandleVivant'
  BY <1>6 DEF Clore, Aller, IdDe
<1>7. ASSUME NEW f \in Fermetures, Fermeture(f) PROVE HandleVivant'
  BY <1>7 DEF Fermeture, Fermer, NoterAnnulation
<1>8. CASE UNCHANGED vars
  BY <1>8 DEF vars
<1>9. QED
  BY <1>1, <1>2, <1>3, <1>4, <1>5, <1>6, <1>7, <1>8 DEF Next, NouvelOnglet, Reconnecter

\* The types are kept, and a handle of the store is always that of a living
\* session filed under its own id, however often the webview is reloaded.
THEOREM SocleInvariant == Spec => []Socle
<1>1. Init => Socle
  BY SocleInit
<1>2. Socle /\ [Next]_vars => Socle'
  BY SocleType, SocleVerrou, SocleHandle DEF Socle
<1>3. QED
  BY <1>1, <1>2, PTL DEF Spec

\* Every handle of the store belongs to a living session (SessionStore.inner).
THEOREM HandleToujoursVivant == Spec => [](TypeOK /\ HandleVivant)
<1>1. Socle => TypeOK /\ HandleVivant
  BY DEF Socle
<1>2. QED
  BY <1>1, SocleInvariant, PTL

-----------------------------------------------------------------------------
\* No step takes a handle out of the store for another session's sake: the
\* epoch of clore_session protects the newer session from the older relay.
LEMMA PasRetrait ==
  ASSUME TypeOK, VerrouTenu, HandleVivant, [Next]_vars,
         NEW id \in Ids, inner[id] # Personne, inner'[id] # inner[id]
  PROVE  \/ ouv'[inner[id]].etape = "finie"
         \/ inner'[id] # Personne
         \/ \E f \in Fermetures : /\ ferm[f] = [etape |-> "appelee", id |-> id]
                                  /\ ferm'[f].etape = "finie"
<1> USE SessionsAssumption DEF TypeOK
<1>1. ASSUME NEW o \in Ouvertures, Enregistrer(o) PROVE inner'[id] # Personne
  BY <1>1 DEF Enregistrer, IdDe
<1>2. ASSUME NEW o \in Ouvertures, Clore(o) PROVE ouv'[inner[id]].etape = "finie"
  BY <1>2 DEF Clore, IdDe, Aller
<1>3. ASSUME NEW f \in Fermetures, Fermer(f)
      PROVE  ferm[f] = [etape |-> "appelee", id |-> id] /\ ferm'[f].etape = "finie"
  BY <1>3 DEF Fermer
<1>4. ASSUME NEW o \in Ouvertures, Ouverture(o), ~Enregistrer(o) PROVE FALSE
  BY <1>4 DEF Ouverture, EchecTrousseau, Inscrire, EchecEtablir, Etablir, EntrerEnregistrer, Annuler, storeVars
<1>5. ASSUME NEW f \in Fermetures, NoterAnnulation(f) PROVE FALSE
  BY <1>5 DEF NoterAnnulation
<1>6. CASE \/ \E o \in Ouvertures, i \in Ids : Appeler(o, i)
           \/ \E f \in Fermetures, i \in Ids : FermerOnglet(f, i)
           \/ Recharger
           \/ \E o \in Ouvertures : RecevoirReponse(o) \/ RecevoirFin(o)
           \/ UNCHANGED vars
  BY <1>6 DEF Appeler, FermerOnglet, Recharger, RecevoirReponse, RecevoirFin, storeVars, vars
<1>7. QED
  BY <1>1, <1>2, <1>3, <1>4, <1>5, <1>6 DEF Next, NouvelOnglet, Reconnecter, Fermeture

\* A handle leaves the store only at the end of its own relay, for a newer
\* session of the same id, or because pty_close was called for the id.
THEOREM RetraitToujoursLegitime == Spec => RetraitLegitime
<1>1. Socle /\ [Next]_vars =>
        [\A id \in Ids : inner[id] # Personne /\ inner'[id] # inner[id] =>
           \/ ouv'[inner[id]].etape = "finie"
           \/ inner'[id] # Personne
           \/ \E f \in Fermetures : /\ ferm[f] = [etape |-> "appelee", id |-> id]
                                    /\ ferm'[f].etape = "finie"]_vars
  BY PasRetrait DEF Socle
<1>2. QED
  BY <1>1, SocleInvariant, PTL DEF Spec, RetraitLegitime

-----------------------------------------------------------------------------
(* Without a reload of the webview.                                        *)

\* An opening that was called works for an id the page has given out, and the
\* tab of that id, while it is there, is its own for as long as the opening is
\* in flight, registered, announced as ended, or refused and not yet read.
EchecNonLu(o) == ouv[o].etape = "echec" /\ o \in reponses

OngletDeLOuverture ==
  /\ \A o \in Ouvertures : ouv[o].etape # "libre" => ouv[o].id \in servis
  /\ \A o \in Ouvertures :
       (ouv[o].etape \in EnVol \/ inner[ouv[o].id] = o \/ o \in evts \/ EchecNonLu(o))
         => onglet[ouv[o].id].o \in {o, Personne}
  /\ \A o \in evts : ouv[o].etape = "finie"
  /\ \A o \in Ouvertures : ouv[o].page = 0

\* A tab waits for, or shows, an opening made for its id; once it is marked
\* closed nothing of that opening is left to happen.
OngletClos ==
  \A id \in Ids : onglet[id].o # Personne =>
    /\ ouv[onglet[id].o].id = id
    /\ ouv[onglet[id].o].etape # "libre"
    /\ onglet[id].closed => /\ ouv[onglet[id].o].etape \notin EnVol
                            /\ inner[id] # onglet[id].o
                            /\ onglet[id].o \notin evts
                            /\ ~EchecNonLu(onglet[id].o)

\* Two openings are never in flight under one id.
UneOuvertureParId ==
  \A o1, o2 \in Ouvertures :
    /\ ouv[o1].etape \in EnVol
    /\ ouv[o2].etape \in EnVol
    /\ ouv[o1].id = ouv[o2].id
    => o1 = o2

\* The opening a pty_close found in `en_cours` has its annulment noted, or is
\* about to, for as long as it may still be registered.
AnnulationTenue ==
  \A o \in visees :
    /\ ouv[o].etape \in Inscrites \cup {"sous_verrou", "echec", "annulee"}
    /\ ouv[o].etape \in Inscrites \cup {"sous_verrou"} =>
         \/ ouv[o].id \in annules
         \/ \E f \in Fermetures : ferm[f].etape = "sous_verrou" /\ ferm[f].id = ouv[o].id

SansRecharge == OngletDeLOuverture /\ OngletClos /\ UneOuvertureParId /\ AnnulationTenue

LEMMA SansRechargeInit == Init => SansRecharge
BY SessionsAssumption
   DEF Init, SansRecharge, OngletDeLOuverture, OngletClos, UneOuvertureParId, AnnulationTenue,
       EnVol, Inscrites, SansOnglet, EchecNonLu

LEMMA SansRechargePas ==
  ASSUME recharges' = 0, Socle, SansRecharge, [Next]_vars
  PROVE  SansRecharge'
<1> USE SessionsAssumption DEF EnVol, Inscrites, EchecNonLu
<1>a. /\ TypeOK /\ VerrouTenu /\ HandleVivant
      /\ OngletDeLOuverture /\ OngletClos /\ UneOuvertureParId /\ AnnulationTenue
  BY DEF Socle, SansRecharge
<1>b. TypeOK'
  BY <1>a, SocleType
<1>c. \A i \in Ids, p \in Ouvertures : inner[i] = p => ouv[p].etape = "vivante" /\ ouv[p].id = i
  <2>1. ASSUME NEW i \in Ids, NEW p \in Ouvertures, inner[i] = p
        PROVE  ouv[p].etape = "vivante" /\ ouv[p].id = i
    <3>1. inner[i] # Personne
      BY <2>1
    <3>2. ouv[p].etape = "vivante" /\ ouv[p].id = i
      BY <1>a, <2>1, <3>1 DEF HandleVivant
    <3>3. QED BY <3>2
  <2>2. QED BY <2>1
<1>d. \A p \in Ouvertures : ouv[p].id \in Ids
  BY <1>a DEF TypeOK
<1> USE <1>a, <1>b DEF TypeOK
<1>1. ASSUME NEW o \in Ouvertures, NEW id \in Ids, NouvelOnglet(o, id) \/ Reconnecter(o, id)
      PROVE  SansRecharge'
  <2>1. /\ ouv[o].etape = "libre"
        /\ ouv' = [ouv EXCEPT ![o] = [etape |-> "appelee", id |-> id, page |-> 0]]
        /\ onglet' = [onglet EXCEPT ![id] = [o |-> o, etat |-> "connecting", closed |-> FALSE]]
        /\ servis \subseteq servis'
        /\ UNCHANGED <<inner, annules, ferm, evts, reponses, visees>>
    BY <1>1 DEF NouvelOnglet, Reconnecter, Appeler, storeVars
  <2>2. id \in servis'
    BY <1>1 DEF NouvelOnglet, Reconnecter, OngletClos, OngletDeLOuverture
  <2>3. ASSUME NEW p \in Ouvertures, ouv[p].id = id, ouv[p].etape # "libre"
        PROVE  ouv[p].etape \notin EnVol /\ inner[id] # p /\ p \notin evts /\ ~EchecNonLu(p)
    BY <1>1, <2>3 DEF NouvelOnglet, Reconnecter, OngletClos, OngletDeLOuverture
  <2>4. OngletDeLOuverture'
    <3>1. \A p \in Ouvertures : ouv'[p].etape # "libre" => ouv'[p].id \in servis'
      BY <2>1, <2>2 DEF OngletDeLOuverture
    <3>2. \A p \in evts' : ouv'[p].etape = "finie"
      BY <2>1 DEF OngletDeLOuverture
    <3>3. ASSUME NEW p \in Ouvertures, p # o,
                 ouv'[p].etape \in EnVol \/ inner'[ouv'[p].id] = p \/ p \in evts' \/ EchecNonLu(p)'
          PROVE  onglet'[ouv'[p].id].o \in {p, Personne}
      <4>1. ouv'[p] = ouv[p] /\ ouv[p].id # id
        <5>1. ouv'[p] = ouv[p] /\ ouv[p].id \in Ids /\ inner' = inner /\ evts' = evts /\ reponses' = reponses
          BY <2>1, <3>3
        <5>2. ouv[p].etape # "libre"
          BY <1>c, <3>3, <5>1 DEF OngletDeLOuverture
        <5>3. QED BY <2>3, <3>3, <5>1, <5>2
      <4>2. QED BY <2>1, <3>3, <4>1 DEF OngletDeLOuverture
    <3>4. onglet'[ouv'[o].id].o = o
      BY <2>1
    <3>6. \A p \in Ouvertures : ouv'[p].page = 0
      BY <2>1 DEF OngletDeLOuverture
    <3>5. QED BY <3>1, <3>2, <3>3, <3>4, <3>6 DEF OngletDeLOuverture
  <2>5. OngletClos'
    BY <2>1 DEF OngletClos
  <2>6. UneOuvertureParId'
    BY <2>1, <2>3 DEF UneOuvertureParId
  <2>7. AnnulationTenue'
    BY <2>1 DEF AnnulationTenue
  <2>8. QED BY <2>4, <2>5, <2>6, <2>7 DEF SansRecharge
<1>2. ASSUME NEW f \in Fermetures, NEW id \in Ids, FermerOnglet(f, id) PROVE SansRecharge'
  <2>1. OngletDeLOuverture'
    BY <1>2 DEF FermerOnglet, SansOnglet, storeVars, OngletDeLOuverture
  <2>2. OngletClos'
    BY <1>2 DEF FermerOnglet, SansOnglet, storeVars, OngletClos
  <2>3. UneOuvertureParId'
    BY <1>2 DEF FermerOnglet, storeVars, UneOuvertureParId
  <2>4. AnnulationTenue'
    BY <1>2 DEF FermerOnglet, storeVars, AnnulationTenue
  <2>5. QED BY <2>1, <2>2, <2>3, <2>4 DEF SansRecharge
<1>3. CASE Recharger
  BY <1>3 DEF Recharger, Pages
<1>4. ASSUME NEW o \in Ouvertures, RecevoirReponse(o) PROVE SansRecharge'
  <2>1. /\ UNCHANGED <<inner, annules, ouv, ferm, evts, servis, visees>>
        /\ reponses' = reponses \ {o}
    BY <1>4 DEF RecevoirReponse, storeVars
  <2>0. onglet[ouv[o].id].o # Personne /\ ouv[o].etape = "echec" => onglet[ouv[o].id].o = o
    BY <1>4 DEF RecevoirReponse, OngletDeLOuverture
  <2>a. \/ onglet' = onglet
        \/ /\ onglet[ouv[o].id].o = o
           /\ ouv[o].etape = "echec"
           /\ onglet' = [onglet EXCEPT ![ouv[o].id].etat = "closed", ![ouv[o].id].closed = TRUE]
        \/ onglet' = [onglet EXCEPT ![ouv[o].id].etat = "live"]
    BY <1>4, <2>0 DEF RecevoirReponse, IdDe
  <2>2. \A i \in Ids : onglet'[i].o = onglet[i].o
    <3>1. CASE onglet' = [onglet EXCEPT ![ouv[o].id].etat = "live"]
      BY <3>1
    <3>2. CASE onglet' = onglet
      BY <3>2
    <3>3. CASE /\ onglet[ouv[o].id].o = o
               /\ onglet' = [onglet EXCEPT ![ouv[o].id].etat = "closed", ![ouv[o].id].closed = TRUE]
      BY <1>d, <3>3
    <3>4. QED BY <2>a, <3>1, <3>2, <3>3
  <2>3. \A i \in Ids : \/ onglet'[i].closed = onglet[i].closed
                       \/ onglet[i].o = o /\ ouv[o].etape = "echec"
    <3>1. CASE onglet' = [onglet EXCEPT ![ouv[o].id].etat = "live"]
      BY <3>1
    <3>2. CASE onglet' = onglet
      BY <3>2
    <3>3. CASE /\ onglet[ouv[o].id].o = o
               /\ ouv[o].etape = "echec"
               /\ onglet' = [onglet EXCEPT ![ouv[o].id].etat = "closed", ![ouv[o].id].closed = TRUE]
      BY <3>3
    <3>4. QED BY <2>a, <3>1, <3>2, <3>3
  <2>4. OngletDeLOuverture'
    BY <2>1, <2>2 DEF OngletDeLOuverture
  <2>5. OngletClos'
    <3> SUFFICES ASSUME NEW i \in Ids, onglet[i].o # Personne
                 PROVE  /\ ouv[onglet[i].o].id = i
                        /\ ouv[onglet[i].o].etape # "libre"
                        /\ onglet'[i].closed => /\ ouv[onglet[i].o].etape \notin EnVol
                                                /\ inner[i] # onglet[i].o
                                                /\ onglet[i].o \notin evts
                                                /\ ~(ouv[onglet[i].o].etape = "echec" /\ onglet[i].o \in reponses')
      BY <2>1, <2>2 DEF OngletClos
    <3>1. CASE onglet'[i].closed = onglet[i].closed
      BY <2>1, <3>1 DEF OngletClos
    <3>2. CASE onglet[i].o = o /\ ouv[o].etape = "echec"
      <4>1. ouv[o].id = i
        BY <3>2 DEF OngletClos
      <4>2. o \notin evts
        BY <3>2 DEF OngletDeLOuverture
      <4>3. inner[i] # o
        BY <1>c, <3>2
      <4>4. QED BY <2>1, <3>2, <4>1, <4>2, <4>3
    <3>3. QED BY <2>3, <3>1, <3>2
  <2>6. UneOuvertureParId' /\ AnnulationTenue'
    BY <2>1 DEF UneOuvertureParId, AnnulationTenue
  <2>7. QED BY <2>4, <2>5, <2>6 DEF SansRecharge
<1>5. ASSUME NEW o \in Ouvertures, RecevoirFin(o) PROVE SansRecharge'
  <2>1. UNCHANGED <<inner, annules, ouv, ferm, reponses, servis, visees>> /\ evts' = evts \ {o} /\ o \in evts
    BY <1>5 DEF RecevoirFin, storeVars
  <2>2. \A i \in Ids : onglet'[i].o = onglet[i].o
    BY <1>5 DEF RecevoirFin, IdDe
  <2>3. \A i \in Ids : \/ onglet'[i].closed = onglet[i].closed
                       \/ i = ouv[o].id /\ onglet[i].o # Personne
    BY <1>5 DEF RecevoirFin, IdDe
  <2>4. ouv[o].etape = "finie" /\ onglet[ouv[o].id].o \in {o, Personne}
    BY <2>1 DEF OngletDeLOuverture
  <2>5. OngletDeLOuverture'
    BY <2>1, <2>2 DEF OngletDeLOuverture
  <2>6. OngletClos'
    <3> SUFFICES ASSUME NEW i \in Ids, onglet[i].o # Personne
                 PROVE  /\ ouv[onglet[i].o].id = i
                        /\ ouv[onglet[i].o].etape # "libre"
                        /\ onglet'[i].closed => /\ ouv[onglet[i].o].etape \notin EnVol
                                                /\ inner[i] # onglet[i].o
                                                /\ onglet[i].o \notin evts \ {o}
                                                /\ ~EchecNonLu(onglet[i].o)
      BY <2>1, <2>2 DEF OngletClos
    <3>1. CASE onglet'[i].closed = onglet[i].closed
      BY <3>1 DEF OngletClos
    <3>2. CASE i = ouv[o].id
      <4>1. onglet[i].o = o
        BY <2>4, <3>2
      <4>2. inner[i] # o
        BY <1>c, <2>4
      <4>3. QED BY <2>4, <3>2, <4>1, <4>2
    <3>3. QED BY <2>3, <3>1, <3>2
  <2>7. UneOuvertureParId' /\ AnnulationTenue'
    BY <2>1 DEF UneOuvertureParId, AnnulationTenue
  <2>8. QED BY <2>5, <2>6, <2>7 DEF SansRecharge
<1>6. ASSUME NEW o \in Ouvertures, Ouverture(o) PROVE SansRecharge'
  <2>1. PICK e \in {"echec", "etablir", "etablie", "sous_verrou", "annulee", "vivante"} :
          /\ ouv' = [ouv EXCEPT ![o].etape = e]
          /\ e = "etablir" => ouv[o].etape = "appelee"
          /\ e = "vivante" => inner' = [inner EXCEPT ![ouv[o].id] = o]
          /\ e # "vivante" => inner' = inner
          /\ reponses' \in {reponses, reponses \cup {o}}
    BY <1>6 DEF Ouverture, EchecTrousseau, Inscrire, EchecEtablir, Etablir, EntrerEnregistrer,
       Annuler, Enregistrer, Aller, TenirPromesse, IdDe, storeVars
  <2>2. ouv[o].etape \in EnVol /\ UNCHANGED <<ferm, evts, onglet, servis, visees>>
    BY <1>6 DEF Ouverture, EchecTrousseau, Inscrire, EchecEtablir, Etablir, EntrerEnregistrer,
       Annuler, Enregistrer, frontVars
  <2>3. OngletDeLOuverture'
    BY <2>1, <2>2 DEF OngletDeLOuverture
  <2>4. OngletClos'
    BY <2>1, <2>2 DEF OngletClos
  <2>5. UneOuvertureParId'
    BY <2>1, <2>2 DEF UneOuvertureParId
  <2>6. AnnulationTenue'
    <3> SUFFICES ASSUME NEW p \in visees
                 PROVE  /\ ouv'[p].etape \in Inscrites \cup {"sous_verrou", "echec", "annulee"}
                        /\ ouv'[p].etape \in Inscrites \cup {"sous_verrou"} =>
                             \/ ouv'[p].id \in annules'
                             \/ \E f \in Fermetures : ferm[f].etape = "sous_verrou" /\ ferm[f].id = ouv'[p].id
      BY <2>2 DEF AnnulationTenue
    <3>1. CASE p # o
      <4>1. ouv'[p] = ouv[p]
        BY <2>1, <3>1
      <4>2. CASE ouv[p].etape \in Inscrites \cup {"sous_verrou"}
        <5>1. ouv[p].id # ouv[o].id
          BY <2>2, <3>1, <4>2 DEF UneOuvertureParId
        <5>2. annules \ {ouv[o].id} \subseteq annules'
          BY <1>6 DEF Ouverture, EchecTrousseau, Inscrire, EchecEtablir, Etablir, EntrerEnregistrer,
             Annuler, Enregistrer, IdDe, storeVars
        <5>3. QED BY <4>1, <4>2, <5>1, <5>2 DEF AnnulationTenue
      <4>3. QED BY <4>1, <4>2 DEF AnnulationTenue
    <3>2. CASE p = o
      <4>1. CASE EchecTrousseau(o) \/ Inscrire(o)
        BY <3>2, <4>1 DEF EchecTrousseau, Inscrire, AnnulationTenue
      <4>2. CASE EchecEtablir(o) \/ Annuler(o)
        BY <3>2, <4>2 DEF EchecEtablir, Annuler, Aller
      <4>3. CASE Etablir(o) \/ EntrerEnregistrer(o)
        <5>1. ouv[o].etape \in Inscrites /\ annules' = annules
          BY <4>3 DEF Etablir, EntrerEnregistrer, storeVars
        <5>2. ouv'[o].etape \in {"etablie", "sous_verrou"} /\ ouv'[o].id = ouv[o].id
          BY <4>3 DEF Etablir, EntrerEnregistrer, Aller
        <5>3. QED BY <3>2, <5>1, <5>2 DEF AnnulationTenue
      <4>4. CASE Enregistrer(o)
        BY <3>2, <4>4 DEF Enregistrer, AnnulationTenue, VerrouTenu, IdDe
      <4>5. QED BY <1>6, <4>1, <4>2, <4>3, <4>4 DEF Ouverture
    <3>3. QED BY <3>1, <3>2
  <2>7. QED BY <2>3, <2>4, <2>5, <2>6 DEF SansRecharge
<1>7. ASSUME NEW o \in Ouvertures, Clore(o) PROVE SansRecharge'
  <2>1. /\ ouv[o].etape = "vivante"
        /\ ouv' = [ouv EXCEPT ![o].etape = "finie"]
        /\ UNCHANGED <<annules, ferm, reponses, onglet, servis, visees>>
    BY <1>7 DEF Clore, Aller, frontVars
  <2>2. \/ /\ inner[ouv[o].id] = o
           /\ inner' = [inner EXCEPT ![ouv[o].id] = Personne]
           /\ evts' = evts \cup {o}
        \/ UNCHANGED <<inner, evts>>
    BY <1>7 DEF Clore, IdDe
  <2>3. OngletDeLOuverture'
    BY <2>1, <2>2 DEF OngletDeLOuverture
  <2>4. OngletClos'
    BY <2>1, <2>2 DEF OngletClos
  <2>5. UneOuvertureParId' /\ AnnulationTenue'
    BY <2>1 DEF UneOuvertureParId, AnnulationTenue
  <2>6. QED BY <2>3, <2>4, <2>5 DEF SansRecharge
<1>8. ASSUME NEW f \in Fermetures, Fermeture(f) PROVE SansRecharge'
  <2>1. UNCHANGED <<ouv, reponses, evts, onglet, servis>>
    BY <1>8 DEF Fermeture, Fermer, NoterAnnulation, frontVars
  <2>2. \A i \in Ids : inner'[i] \in {inner[i], Personne}
    BY <1>8 DEF Fermeture, Fermer, NoterAnnulation
  <2>3. OngletDeLOuverture'
    BY <2>1, <2>2 DEF OngletDeLOuverture
  <2>4. OngletClos'
    BY <2>1, <2>2 DEF OngletClos
  <2>5. UneOuvertureParId'
    BY <2>1 DEF UneOuvertureParId
  <2>6. AnnulationTenue'
    <3>1. CASE NoterAnnulation(f)
      <4>1. /\ ferm' = [ferm EXCEPT ![f].etape = "finie"]
            /\ annules' = annules \cup {ferm[f].id}
            /\ visees' = visees
        BY <3>1 DEF NoterAnnulation
      <4>2. QED BY <2>1, <4>1 DEF AnnulationTenue
    <3>2. CASE Fermer(f)
      <4>1. /\ annules' = annules
            /\ ferm[f].etape = "appelee"
            /\ \/ /\ ferm' = [ferm EXCEPT ![f].etape = "sous_verrou"]
                  /\ visees' = visees \cup {o \in Ouvertures : ouv[o].etape \in Inscrites /\ ouv[o].id = ferm[f].id}
               \/ /\ ferm' = [ferm EXCEPT ![f].etape = "finie"]
                  /\ visees' = visees
        BY <3>2 DEF Fermer
      <4>2. \A g \in Fermetures : ferm[g].etape = "sous_verrou" => ferm'[g] = ferm[g]
        BY <4>1
      <4>3. ASSUME NEW o \in visees' \ visees
            PROVE  /\ ouv[o].etape \in Inscrites
                   /\ ferm'[f].etape = "sous_verrou"
                   /\ ferm'[f].id = ouv[o].id
        BY <4>1
      <4>4. QED BY <2>1, <4>1, <4>2, <4>3 DEF AnnulationTenue
    <3>3. QED BY <1>8, <3>1, <3>2 DEF Fermeture
  <2>7. QED BY <2>3, <2>4, <2>5, <2>6 DEF SansRecharge
<1>9. CASE UNCHANGED vars
  BY <1>9 DEF vars, SansRecharge, OngletDeLOuverture, OngletClos, UneOuvertureParId, AnnulationTenue
<1>10. QED
  BY <1>1, <1>2, <1>3, <1>4, <1>5, <1>6, <1>7, <1>8, <1>9 DEF Next

-----------------------------------------------------------------------------
(* What a tab shows.                                                       *)

\* Once pty_close was called for an id, its tab is gone and the number is not
\* given out again; only such an id is noted in `annules`.
FermetureSansOnglet ==
  /\ \A f \in Fermetures : ferm[f].etape # "libre" =>
       onglet[ferm[f].id].o = Personne /\ ferm[f].id \in servis
  /\ \A id \in annules : \E f \in Fermetures : ferm[f].etape # "libre" /\ ferm[f].id = id

\* A tab not marked closed has its session in the store for as long as the relay
\* runs, the event of its end on its way after that, and the refusal of its
\* opening still to read; its opening is not annulled.  No tab that has gone is
\* live.
OngletSuit ==
  \A id \in Ids : LET o == onglet[id].o IN
    /\ o # Personne /\ ~onglet[id].closed =>
         /\ ouv[o].etape = "vivante" => inner[id] = o
         /\ ouv[o].etape = "finie" => o \in evts
         /\ ouv[o].etape = "echec" => o \in reponses
         /\ ouv[o].etape # "annulee"
    /\ o = Personne => onglet[id].etat # "live"

OngletsTenus == FermetureSansOnglet /\ OngletSuit

LEMMA OngletsTenusInit == Init => OngletsTenus
BY SessionsAssumption
   DEF Init, OngletsTenus, FermetureSansOnglet, OngletSuit, SansOnglet

LEMMA OngletsTenusPas ==
  ASSUME recharges' = 0, Socle, SansRecharge, OngletsTenus, [Next]_vars
  PROVE  OngletsTenus'
<1> USE SessionsAssumption DEF EnVol, Inscrites
<1>a. /\ TypeOK /\ VerrouTenu /\ HandleVivant
      /\ OngletDeLOuverture /\ OngletClos /\ UneOuvertureParId
      /\ FermetureSansOnglet /\ OngletSuit
  BY DEF Socle, SansRecharge, OngletsTenus
<1> USE <1>a DEF TypeOK
<1>1. ASSUME NEW o \in Ouvertures, NEW id \in Ids, NouvelOnglet(o, id) \/ Reconnecter(o, id)
      PROVE  OngletsTenus'
  <2>1. /\ ouv[o].etape = "libre"
        /\ ouv' = [ouv EXCEPT ![o] = [etape |-> "appelee", id |-> id, page |-> 0]]
        /\ onglet' = [onglet EXCEPT ![id] = [o |-> o, etat |-> "connecting", closed |-> FALSE]]
        /\ servis \subseteq servis'
        /\ UNCHANGED <<inner, annules, ferm, evts, visees, reponses>>
    BY <1>1 DEF NouvelOnglet, Reconnecter, Appeler, storeVars
  <2>2. \A f \in Fermetures : ferm[f].etape # "libre" => ferm[f].id # id
    BY <1>1 DEF NouvelOnglet, Reconnecter, FermetureSansOnglet
  <2>4. FermetureSansOnglet'
    BY <2>1, <2>2 DEF FermetureSansOnglet
  <2>5. \A i \in Ids : i # id => onglet'[i] = onglet[i] /\ onglet[i].o # o
    BY <2>1 DEF OngletClos
  <2>6. OngletSuit'
    BY <2>1, <2>5 DEF OngletSuit
  <2>7. QED BY <2>4, <2>6 DEF OngletsTenus
<1>2. ASSUME NEW f \in Fermetures, NEW id \in Ids, FermerOnglet(f, id) PROVE OngletsTenus'
  <2>1. /\ onglet[id].o # Personne
        /\ ferm' = [ferm EXCEPT ![f] = [etape |-> "appelee", id |-> id]]
        /\ onglet' = [onglet EXCEPT ![id] = [o |-> Personne, etat |-> "closed", closed |-> FALSE]]
        /\ UNCHANGED <<inner, annules, ouv, reponses, evts, servis>>
    BY <1>2 DEF FermerOnglet, SansOnglet, storeVars
  <2>2. id \in servis
    BY <2>1 DEF OngletClos, OngletDeLOuverture
  <2>3. FermetureSansOnglet'
    <3>1. /\ ferm'[f].id = id /\ ferm'[f].etape = "appelee"
          /\ \A g \in Fermetures : g # f => ferm'[g] = ferm[g]
      BY <2>1
    <3>2. \A i \in Ids : onglet'[i].o \in {onglet[i].o, Personne}
      BY <2>1
    <3>3. \A g \in Fermetures : ferm'[g].etape # "libre" =>
             onglet'[ferm'[g].id].o = Personne /\ ferm'[g].id \in servis'
      BY <2>1, <2>2, <3>1, <3>2 DEF FermetureSansOnglet
    <3>4. ASSUME NEW i \in annules PROVE \E g \in Fermetures : ferm'[g].etape # "libre" /\ ferm'[g].id = i
      <4>1. PICK g \in Fermetures : ferm[g].etape # "libre" /\ ferm[g].id = i
        BY DEF FermetureSansOnglet
      <4>2. ferm'[g] = ferm[g]
        BY <1>2, <3>1, <4>1 DEF FermerOnglet
      <4>3. QED BY <4>1, <4>2
    <3>5. QED BY <2>1, <3>3, <3>4 DEF FermetureSansOnglet
  <2>4. OngletSuit'
    BY <2>1 DEF OngletSuit
  <2>5. QED BY <2>3, <2>4 DEF OngletsTenus
<1>3. CASE Recharger
  BY <1>3 DEF Recharger, Pages
<1>4. ASSUME NEW o \in Ouvertures, RecevoirReponse(o) PROVE OngletsTenus'
  <2>1. /\ o \in reponses
        /\ reponses' = reponses \ {o}
        /\ UNCHANGED <<inner, annules, ouv, ferm, evts, servis>>
    BY <1>4 DEF RecevoirReponse, storeVars
  <2>2. \/ onglet' = onglet /\ (onglet[ouv[o].id].o = Personne \/ ouv[o].etape = "annulee")
        \/ /\ onglet[ouv[o].id].o # Personne
           /\ onglet' = [onglet EXCEPT ![ouv[o].id].etat = "closed", ![ouv[o].id].closed = TRUE]
        \/ /\ onglet[ouv[o].id].o # Personne
           /\ ouv[o].etape # "echec"
           /\ onglet' = [onglet EXCEPT ![ouv[o].id].etat = "live"]
    BY <1>4 DEF RecevoirReponse, IdDe
  <2>3. \A i \in Ids : onglet'[i].o = onglet[i].o /\ (onglet[i].closed => onglet'[i].closed)
    BY <2>2
  <2>4. FermetureSansOnglet'
    BY <2>1, <2>3 DEF FermetureSansOnglet
  <2>5. OngletSuit'
    <3>1. ASSUME NEW i \in Ids, onglet[i].o = Personne PROVE onglet'[i].etat # "live"
      <4>1. onglet'[i] = onglet[i] \/ onglet'[i].etat = "closed"
        BY <2>2, <3>1
      <4>2. QED BY <3>1, <4>1 DEF OngletSuit
    <3>2. ASSUME NEW i \in Ids, onglet[i].o = o, ouv[o].etape = "echec" PROVE onglet'[i].closed
      <4>1. ouv[o].id = i
        BY <3>2 DEF OngletClos
      <4>2. QED BY <2>2, <3>2, <4>1
    <3>3. ASSUME NEW i \in Ids, onglet[i].o # Personne, ~onglet'[i].closed
          PROVE  /\ ouv[onglet[i].o].etape = "vivante" => inner[i] = onglet[i].o
                 /\ ouv[onglet[i].o].etape = "finie" => onglet[i].o \in evts
                 /\ ouv[onglet[i].o].etape = "echec" => onglet[i].o \in reponses'
                 /\ ouv[onglet[i].o].etape # "annulee"
      BY <2>1, <2>3, <3>2, <3>3 DEF OngletSuit
    <3>4. QED BY <2>1, <2>3, <3>1, <3>3 DEF OngletSuit
  <2>6. QED BY <2>4, <2>5 DEF OngletsTenus
<1>5. ASSUME NEW o \in Ouvertures, RecevoirFin(o) PROVE OngletsTenus'
  <2>1. /\ o \in evts
        /\ evts' = evts \ {o}
        /\ UNCHANGED <<inner, annules, ouv, ferm, reponses, servis>>
        /\ onglet' = IF onglet[ouv[o].id].o # Personne /\ ~onglet[ouv[o].id].closed
                     THEN [onglet EXCEPT ![ouv[o].id].etat = "closed", ![ouv[o].id].closed = TRUE]
                     ELSE onglet
    BY <1>5 DEF RecevoirFin, IdDe, storeVars
  <2>2. \A i \in Ids : onglet'[i].o = onglet[i].o
    BY <2>1
  <2>3. FermetureSansOnglet'
    BY <2>1, <2>2 DEF FermetureSansOnglet
  <2>4. ASSUME NEW i \in Ids, onglet[i].o = o, ~onglet'[i].closed PROVE FALSE
    <3>1. ouv[o].id = i
      BY <2>4 DEF OngletClos
    <3>2. QED BY <2>1, <2>4, <3>1
  <2>5. ASSUME NEW i \in Ids
        PROVE  \/ onglet'[i] = onglet[i]
               \/ onglet'[i].closed /\ onglet'[i].o # Personne
    BY <2>1
  <2>6. \A p \in Ouvertures : p # o /\ p \in evts => p \in evts'
    BY <2>1
  <2>7. OngletSuit'
    <3>1. ASSUME NEW i \in Ids, onglet[i].o # Personne, ~onglet'[i].closed
          PROVE  /\ ouv[onglet[i].o].etape = "vivante" => inner[i] = onglet[i].o
                 /\ ouv[onglet[i].o].etape = "finie" => onglet[i].o \in evts'
                 /\ ouv[onglet[i].o].etape = "echec" => onglet[i].o \in reponses
                 /\ ouv[onglet[i].o].etape # "annulee"
      <4>1. onglet'[i] = onglet[i] /\ onglet[i].o # o
        BY <2>4, <2>5, <3>1
      <4>2. QED BY <2>6, <3>1, <4>1 DEF OngletSuit
    <3>2. ASSUME NEW i \in Ids, onglet[i].o = Personne PROVE onglet'[i].etat # "live"
      BY <2>2, <2>5, <3>2 DEF OngletSuit
    <3>3. QED
      <4>1. ouv' = ouv /\ inner' = inner /\ reponses' = reponses
        BY <2>1
      <4>2. QED BY <2>2, <3>1, <3>2, <4>1 DEF OngletSuit
  <2>8. QED BY <2>3, <2>7 DEF OngletsTenus
<1>6. ASSUME NEW o \in Ouvertures, Ouverture(o) PROVE OngletsTenus'
  <2>1. UNCHANGED <<ferm, evts, onglet, servis>>
    BY <1>6 DEF Ouverture, EchecTrousseau, Inscrire, EchecEtablir, Etablir, EntrerEnregistrer,
       Annuler, Enregistrer, frontVars
  <2>2. PICK e \in EtapesOuverture : /\ ouv' = [ouv EXCEPT ![o].etape = e]
                                     /\ e \notin {"libre", "finie"}
                                     /\ reponses' \in {reponses, reponses \cup {o}}
                                     /\ e = "echec" => o \in reponses'
                                     /\ e = "annulee" => ouv[o].id \in annules
                                     /\ annules' \subseteq annules
                                     /\ inner' = IF e = "vivante" THEN [inner EXCEPT ![ouv[o].id] = o] ELSE inner
    <3>1. ouv[o].page = recharges
      <4>1. UNCHANGED recharges
        BY <1>6 DEF Ouverture, EchecTrousseau, Inscrire, EchecEtablir, Etablir, EntrerEnregistrer,
           Annuler, Enregistrer, frontVars
      <4>2. QED BY <4>1 DEF OngletDeLOuverture
    <3>2. QED
      BY <1>6, <3>1 DEF Ouverture, EchecTrousseau, Inscrire, EchecEtablir, Etablir, EntrerEnregistrer,
         Annuler, Enregistrer, Aller, TenirPromesse, IdDe, storeVars, EtapesOuverture
  <2>3. ouv[o].etape \in EnVol /\ ouv[o].id \in Ids
    BY <1>6 DEF Ouverture, EchecTrousseau, Inscrire, EchecEtablir, Etablir, EntrerEnregistrer,
       Annuler, Enregistrer
  <2>4. onglet[ouv[o].id].o \in {o, Personne}
    BY <2>3 DEF OngletDeLOuverture
  <2>5. e = "annulee" => onglet[ouv[o].id].o = Personne
    BY <2>2 DEF FermetureSansOnglet
  <2>7. FermetureSansOnglet'
    BY <2>1, <2>2 DEF FermetureSansOnglet
  <2>8. \A i \in Ids : onglet[i].o = o => i = ouv[o].id
    BY DEF OngletClos
  <2>9. OngletSuit'
    <3> SUFFICES ASSUME NEW i \in Ids, onglet[i].o # Personne, ~onglet[i].closed
                 PROVE  /\ ouv'[onglet[i].o].etape = "vivante" => inner'[i] = onglet[i].o
                        /\ ouv'[onglet[i].o].etape = "finie" => onglet[i].o \in evts
                        /\ ouv'[onglet[i].o].etape = "echec" => onglet[i].o \in reponses'
                        /\ ouv'[onglet[i].o].etape # "annulee"
      BY <2>1 DEF OngletSuit
    <3>1. CASE onglet[i].o = o
      <4>1. i = ouv[o].id
        BY <2>8, <3>1
      <4>2. ouv'[o].etape = e
        BY <2>2
      <4>3. e # "annulee"
        BY <2>5, <3>1, <4>1
      <4>4. e = "vivante" => inner'[i] = o
        BY <2>2, <4>1
      <4>5. QED BY <2>2, <3>1, <4>2, <4>3, <4>4
    <3>2. CASE onglet[i].o # o
      <4>1. i # ouv[o].id
        BY <2>4, <3>2
      <4>2. inner'[i] = inner[i] /\ ouv'[onglet[i].o] = ouv[onglet[i].o] /\ reponses \subseteq reponses'
        BY <2>2, <3>2, <4>1
      <4>3. QED BY <4>2 DEF OngletSuit
    <3>3. QED BY <3>1, <3>2
  <2>10. QED BY <2>7, <2>9 DEF OngletsTenus
<1>7. ASSUME NEW o \in Ouvertures, Clore(o) PROVE OngletsTenus'
  <2>1. /\ ouv[o].etape = "vivante"
        /\ ouv' = [ouv EXCEPT ![o].etape = "finie"]
        /\ UNCHANGED <<annules, ferm, reponses, onglet, servis>>
        /\ inner[ouv[o].id] = o => /\ inner' = [inner EXCEPT ![ouv[o].id] = Personne]
                                   /\ evts' = evts \cup {o}
        /\ inner[ouv[o].id] # o => UNCHANGED <<inner, evts>>
    BY <1>7 DEF Clore, Aller, IdDe, frontVars
  <2>2. FermetureSansOnglet'
    BY <2>1 DEF FermetureSansOnglet
  <2>3. OngletSuit'
    <3> SUFFICES ASSUME NEW i \in Ids, onglet[i].o # Personne, ~onglet[i].closed
                 PROVE  /\ ouv'[onglet[i].o].etape = "vivante" => inner'[i] = onglet[i].o
                        /\ ouv'[onglet[i].o].etape = "finie" => onglet[i].o \in evts'
                        /\ ouv'[onglet[i].o].etape = "echec" => onglet[i].o \in reponses'
                        /\ ouv'[onglet[i].o].etape # "annulee"
      BY <2>1 DEF OngletSuit
    <3>1. CASE onglet[i].o = o
      <4>1. i = ouv[o].id
        BY <3>1 DEF OngletClos
      <4>2. inner[i] = o
        BY <2>1, <3>1 DEF OngletSuit
      <4>3. QED BY <2>1, <3>1, <4>1, <4>2
    <3>2. CASE onglet[i].o # o
      <4>1. inner[i] = onglet[i].o => inner'[i] = onglet[i].o
        BY <2>1, <3>2
      <4>2. evts \subseteq evts' /\ ouv'[onglet[i].o] = ouv[onglet[i].o]
        BY <2>1, <3>2
      <4>3. QED BY <2>1, <4>1, <4>2 DEF OngletSuit
    <3>3. QED BY <3>1, <3>2
  <2>4. QED BY <2>2, <2>3 DEF OngletsTenus
<1>8. ASSUME NEW f \in Fermetures, Fermeture(f) PROVE OngletsTenus'
  <2>1. /\ ferm[f].etape # "libre"
        /\ UNCHANGED <<ouv, reponses, evts, onglet, servis>>
        /\ \A g \in Fermetures : /\ ferm'[g].id = ferm[g].id
                                 /\ ferm[g].etape = "libre" <=> ferm'[g].etape = "libre"
        /\ annules' \subseteq annules \cup {ferm[f].id}
        /\ \A i \in Ids : i # ferm[f].id => inner'[i] = inner[i]
    <3>1. CASE NoterAnnulation(f)
      BY <3>1 DEF NoterAnnulation, frontVars
    <3>2. CASE Fermer(f)
      <4>1. /\ ferm[f].etape = "appelee"
            /\ inner' = [inner EXCEPT ![ferm[f].id] = Personne]
            /\ annules' = annules
            /\ \E e \in EtapesFermeture \ {"libre"} : ferm' = [ferm EXCEPT ![f].etape = e]
            /\ UNCHANGED <<ouv, reponses, evts, onglet, servis>>
        BY <3>2 DEF Fermer, frontVars, EtapesFermeture
      <4>2. QED BY <4>1
    <3>3. QED BY <1>8, <3>1, <3>2 DEF Fermeture
  <2>2. onglet[ferm[f].id].o = Personne
    BY <2>1 DEF FermetureSansOnglet
  <2>3. OngletSuit'
    BY <2>1, <2>2 DEF OngletSuit
  <2>4. FermetureSansOnglet'
    BY <2>1 DEF FermetureSansOnglet
  <2>5. QED BY <2>3, <2>4 DEF OngletsTenus
<1>9. CASE UNCHANGED vars
  BY <1>9 DEF vars, OngletsTenus, FermetureSansOnglet, OngletSuit
<1>10. QED
  BY <1>1, <1>2, <1>3, <1>4, <1>5, <1>6, <1>7, <1>8, <1>9 DEF Next

-----------------------------------------------------------------------------
(* Until the page is reloaded.                                             *)

Paisible == recharges = 0 => SansRecharge /\ OngletsTenus

LEMMA PaisibleInvariant == Spec => [](Socle /\ Paisible)
<1>1. Init => Paisible
  BY SansRechargeInit, OngletsTenusInit DEF Paisible
<1>2. Socle /\ Paisible /\ [Next]_vars => Paisible'
  <2> SUFFICES ASSUME Socle, Paisible, [Next]_vars, recharges' = 0
               PROVE  SansRecharge' /\ OngletsTenus'
    BY DEF Paisible
  <2>1. recharges' = recharges \/ recharges' = recharges + 1
    <3>1. CASE Recharger
      BY <3>1 DEF Recharger
    <3>2. CASE \E o \in Ouvertures, id \in Ids : NouvelOnglet(o, id) \/ Reconnecter(o, id)
      BY <3>2 DEF NouvelOnglet, Reconnecter, Appeler
    <3>3. CASE \E f \in Fermetures, id \in Ids : FermerOnglet(f, id)
      BY <3>3 DEF FermerOnglet
    <3>4. CASE \E o \in Ouvertures : RecevoirReponse(o) \/ RecevoirFin(o)
      BY <3>4 DEF RecevoirReponse, RecevoirFin
    <3>5. CASE \E o \in Ouvertures : Ouverture(o) \/ Clore(o)
      BY <3>5 DEF Ouverture, EchecTrousseau, Inscrire, EchecEtablir, Etablir, EntrerEnregistrer,
         Annuler, Enregistrer, Clore, frontVars
    <3>6. CASE \E f \in Fermetures : Fermeture(f)
      BY <3>6 DEF Fermeture, Fermer, NoterAnnulation, frontVars
    <3>7. CASE UNCHANGED vars
      BY <3>7 DEF vars
    <3>8. QED BY <3>1, <3>2, <3>3, <3>4, <3>5, <3>6, <3>7 DEF Next
  <2>2. recharges = 0
    BY <2>1, SessionsAssumption DEF Socle, TypeOK, Pages
  <2>3. QED BY <2>2, SansRechargePas, OngletsTenusPas DEF Paisible
<1>3. QED BY <1>1, <1>2, SocleInvariant, PTL DEF Spec

\* Until the page is reloaded, an opening that pty_close found in `en_cours` is
\* never registered (SessionStore.annules).
THEOREM FermetureRespectee == Spec => []FermeeJamaisEnregistree
<1>1. Socle /\ Paisible => FermeeJamaisEnregistree
  BY DEF Paisible, SansRecharge, AnnulationTenue, FermeeJamaisEnregistree, Inscrites
<1>2. QED BY <1>1, PaisibleInvariant, PTL

\* Until the page is reloaded, a tab shown live and taking keystrokes has its
\* session, or the page is about to read the end or the answer of the tab's own
\* opening, and a tab marked closed has no session (the answer of pty_open,
\* which any earlier opening of the tab may give late, and the `pty-closed`
\* listener).
THEOREM OngletToujoursVrai == Spec => []OngletVrai
<1>1. Socle /\ Paisible => OngletVrai
  <2> SUFFICES ASSUME Socle, SansRecharge, OngletsTenus
               PROVE  LiveAUneSession /\ ClosNAPlusDeSession
    BY DEF Paisible, OngletVrai
  <2>1. LiveAUneSession
    BY DEF Socle, TypeOK, SansRecharge, OngletClos, OngletsTenus, OngletSuit, LiveAUneSession,
       EtapesOuverture, EnVol, Inscrites
  <2>2. ClosNAPlusDeSession
    BY DEF SansRecharge, OngletClos, ClosNAPlusDeSession
  <2>3. QED BY <2>1, <2>2
<1>2. QED BY <1>1, PaisibleInvariant, PTL

-----------------------------------------------------------------------------
(* Confiance. *)

\* No marker of the file names the host, patterns excepted.
SansMarque(s, h) ==
  ~\E i \in DOMAIN s : s[i].genre = "marque" /\ s[i].hote = h /\ s[i].forme # "joker"

Lisibles == {"absent", "ordinaire"}
EnJugement == {"marques", "cles", "juge", "apprend"}

\* A connection k that is joining the host h, over the file s.
Tenue(k, h, s, e) ==
  /\ k.phase \in {"juge", "apprend", "acceptee"} => e \in Lisibles
  /\ k.phase \in {"cles", "juge", "apprend", "acceptee"} /\ e \in Lisibles => SansMarque(s, h)
  /\ k.phase \in EnJugement /\ ~k.oubliee => ClesDans(s, h) = k.debut \cup k.apprises
  /\ k.phase = "juge" /\ ~k.oubliee => k.debut \subseteq k.lues /\ k.lues \subseteq k.debut \cup k.apprises
  /\ k.phase = "apprend" /\ ~k.oubliee => k.debut = {}
  /\ k.phase = "acceptee" /\ ~k.oubliee => /\ k.debut = {} \/ k.presentee \in k.debut \cup k.apprises
                                           /\ k.presentee \in ClesDans(s, h)

\* The lines a removal is about to take away are those of its host.
OubliVise ==
  oubli.par # AucunOnglet =>
    oubli.lignes = {Numero(known, i) : i \in LignesDe(known, AOublier(oubli.par))}

IInvConfiance ==
  /\ TypesConfiance
  /\ etat = "absent" => known = <<>>
  /\ \A o \in Onglets : Tenue(cx[o], Hote(o), known, etat)
  /\ OubliVise

-----------------------------------------------------------------------------
\* A non-empty set of naturals has a least element.
LEMMA PlusPetit ==
  ASSUME NEW T, T \subseteq Nat, T # {}
  PROVE  \E m \in T : \A n \in T : m <= n
<1> DEFINE R == {ss \in Nat \X Nat : ss[1] < ss[2]}
<1>1. IsWellFoundedOn(R, Nat)
  BY NatLessThanWellFounded DEF OpToRel
<1>2. \A m \in Nat, n \in Nat : <<n, m>> \in R <=> n < m
  OBVIOUS
<1> HIDE DEF R
<1>3. PICK m \in T : \A n \in T : ~(<<n, m>> \in R)
  BY <1>1, WFMin
<1>4. \A n \in T : ~(n < m)
  BY <1>2, <1>3
<1>5. QED BY <1>3, <1>4

\* The places of K up to i.
Jusque(K, i) == {j \in K : j <= i}

\* Nothing stands before the first place.
LEMMA CompteVide ==
  ASSUME NEW K, 0 \notin K, K \subseteq Nat
  PROVE  Cardinality(Jusque(K, 0)) = 0
<1>1. \A j \in K : ~(j <= 0)
  OBVIOUS
<1>2. Jusque(K, 0) = {}
  BY <1>1, Zenon DEF Jusque
<1>3. QED BY <1>2, FS_EmptySet

LEMMA CompteFini ==
  ASSUME NEW K, K \subseteq Nat, IsFiniteSet(K), NEW i \in Nat
  PROVE  IsFiniteSet(Jusque(K, i)) /\ Cardinality(Jusque(K, i)) \in Nat
<1>1. Jusque(K, i) \subseteq K
  BY DEF Jusque
<1>2. IsFiniteSet(Jusque(K, i))
  BY <1>1, FS_Subset
<1>3. QED BY <1>2, FS_CardinalityType

\* Counting the places of K one further.
LEMMA CompteSuivant ==
  ASSUME NEW K, K \subseteq Nat, IsFiniteSet(K), NEW i \in Nat, NEW m \in Nat, m = i + 1
  PROVE  /\ m \in K => Cardinality(Jusque(K, m)) = Cardinality(Jusque(K, i)) + 1
         /\ m \notin K => Jusque(K, m) = Jusque(K, i)
<1>0. \A j \in K : j <= m <=> j <= i \/ j = m
  OBVIOUS
<1>1. ASSUME m \in K PROVE Cardinality(Jusque(K, m)) = Cardinality(Jusque(K, i)) + 1
  <2>1. Jusque(K, m) = Jusque(K, i) \cup {m}
    BY <1>0, <1>1, Zenon DEF Jusque
  <2>2. m \notin Jusque(K, i)
    BY DEF Jusque
  <2>3. IsFiniteSet(Jusque(K, i))
    BY CompteFini
  <2>4. QED BY <2>1, <2>2, <2>3, FS_AddElement
<1>2. ASSUME m \notin K PROVE Jusque(K, m) = Jusque(K, i)
  <2>1. \A j \in K : j <= m <=> j <= i
    BY <1>0, <1>2
  <2>2. QED BY <2>1, Zenon DEF Jusque
<1>3. QED BY <1>1, <1>2

\* The count grows from one place of K to another.
LEMMA CompteMonte ==
  ASSUME NEW K, K \subseteq Nat, IsFiniteSet(K), NEW i \in K, NEW j \in K, i < j
  PROVE  Cardinality(Jusque(K, i)) < Cardinality(Jusque(K, j))
<1>0. i \in Nat /\ j \in Nat
  OBVIOUS
<1>1. /\ IsFiniteSet(Jusque(K, j)) /\ Cardinality(Jusque(K, j)) \in Nat
      /\ IsFiniteSet(Jusque(K, i)) /\ Cardinality(Jusque(K, i)) \in Nat
  BY <1>0, CompteFini
<1>2. Jusque(K, i) \subseteq Jusque(K, j)
  <2>1. \A l \in K : l <= i => l <= j
    BY <1>0
  <2>2. QED BY <2>1, Zenon DEF Jusque
<1>3. j \in Jusque(K, j) /\ j \notin Jusque(K, i)
  BY <1>0 DEF Jusque
<1>4. Cardinality(Jusque(K, i)) <= Cardinality(Jusque(K, j))
  BY <1>1, <1>2, FS_Subset
<1>5. Cardinality(Jusque(K, i)) # Cardinality(Jusque(K, j))
  BY <1>1, <1>2, <1>3, FS_Subset
<1>6. QED BY <1>1, <1>4, <1>5

\* The first place where the count reaches k is a place of K, and the count is k there.
LEMMA PremierCompte ==
  ASSUME NEW K, K \subseteq Nat, IsFiniteSet(K), NEW k \in Nat, NEW p \in Nat, NEW m \in Nat, m = p + 1,
         ~(Cardinality(Jusque(K, p)) >= k), Cardinality(Jusque(K, m)) >= k
  PROVE  m \in K /\ Cardinality(Jusque(K, m)) = k
<1>1. Cardinality(Jusque(K, p)) \in Nat
  BY CompteFini
<1>2. /\ m \in K => Cardinality(Jusque(K, m)) = Cardinality(Jusque(K, p)) + 1
      /\ m \notin K => Jusque(K, m) = Jusque(K, p)
  BY CompteSuivant
<1>3. m \in K
  BY <1>2
<1>4. QED BY <1>1, <1>2, <1>3

\* Every rank up to the number of places is the rank of a place.
LEMMA RangPlace ==
  ASSUME NEW K, K \subseteq Nat, IsFiniteSet(K), 0 \notin K, NEW n \in Nat, \A j \in K : j <= n,
         NEW k \in Nat, 1 <= k, k <= Cardinality(K)
  PROVE  Rang(K, k) \in K /\ Cardinality(Jusque(K, Rang(K, k))) = k
<1> DEFINE Assez == {i \in Nat : Cardinality(Jusque(K, i)) >= k}
<1>1. Cardinality(K) \in Nat
  BY FS_CardinalityType
<1>2. n \in Assez
  <2>1. Jusque(K, n) = K
    BY Zenon DEF Jusque
  <2>2. QED BY <1>1, <2>1
<1>3. \E m \in Assez : \A i \in Assez : m <= i
  <2>1. Assez \subseteq Nat /\ Assez # {}
    BY <1>2
  <2>2. QED BY <2>1, PlusPetit
<1>4. PICK m \in Nat : /\ Cardinality(Jusque(K, m)) >= k
                       /\ \A i \in Nat : Cardinality(Jusque(K, i)) >= k => m <= i
  BY <1>3
<1> HIDE DEF Assez
<1>5. m # 0
  <2>1. ASSUME m = 0 PROVE FALSE
    <3>1. Cardinality(Jusque(K, m)) = 0
      BY <2>1, CompteVide
    <3>2. QED BY <1>4, <3>1
  <2>2. QED BY <2>1
<1>6. PICK p \in Nat : m = p + 1
  <2>1. m - 1 \in Nat /\ m = (m - 1) + 1
    BY <1>5
  <2>2. QED BY <2>1
<1>7. ~(Cardinality(Jusque(K, p)) >= k)
  BY <1>4, <1>6
<1>8. m \in K /\ Cardinality(Jusque(K, m)) = k
  BY <1>4, <1>6, <1>7, PremierCompte
<1>9. \E i \in K : Cardinality({j \in K : j <= i}) = k
  BY <1>8 DEF Jusque
<1>10. QED BY <1>9 DEF Rang, Jusque

\* What a file keeps is made of the lines at the kept places, all of them.
LEMMA ExtraitLignes ==
  ASSUME NEW S, NEW s \in Seq(S), NEW K, K \subseteq DOMAIN s
  PROVE  /\ Extrait(s, K) \in Seq(S)
         /\ \A k \in DOMAIN Extrait(s, K) : \E i \in K : Extrait(s, K)[k] = s[i]
         /\ \A i \in K : \E k \in DOMAIN Extrait(s, K) : Extrait(s, K)[k] = s[i]
<1>0. PICK n \in Nat : n = Len(s) /\ DOMAIN s = 1 .. n
  OBVIOUS
<1>1. K \subseteq 1 .. n /\ K \subseteq Nat
  BY <1>0
<1>2. IsFiniteSet(K) /\ Cardinality(K) \in Nat
  <2>1. IsFiniteSet(1 .. n)
    BY FS_Interval
  <2>2. IsFiniteSet(K)
    BY <1>1, <2>1, FS_Subset
  <2>3. QED BY <2>2, FS_CardinalityType
<1>3. PICK c \in Nat : c = Cardinality(K)
  BY <1>2
<1>4. \A k \in 1 .. c : Rang(K, k) \in K /\ Cardinality(Jusque(K, Rang(K, k))) = k
  <2>1. SUFFICES ASSUME NEW k \in 1 .. c
                 PROVE  Rang(K, k) \in K /\ Cardinality(Jusque(K, Rang(K, k))) = k
    OBVIOUS
  <2>2. k \in Nat /\ 1 <= k /\ k <= Cardinality(K)
    BY <1>3
  <2>3. 0 \notin K /\ \A j \in K : j <= n
    BY <1>1
  <2>4. QED BY <1>1, <1>2, <2>2, <2>3, RangPlace
<1>5. PICK t : t = [k \in 1 .. c |-> s[Rang(K, k)]]
  OBVIOUS
<1>6. t = Extrait(s, K)
  BY <1>3, <1>5 DEF Extrait
<1>7. t \in Seq(S)
  <2>1. \A k \in 1 .. c : s[Rang(K, k)] \in S
    BY <1>0, <1>1, <1>4
  <2>2. t \in [1 .. c -> S]
    BY <1>5, <2>1
  <2>3. QED BY <2>2, SeqDef
<1>8. \A k \in DOMAIN t : \E i \in K : t[k] = s[i]
  BY <1>4, <1>5
<1>9. ASSUME NEW i \in K PROVE \E k \in DOMAIN t : t[k] = s[i]
  <2>0. i \in Nat
    BY <1>1
  <2>1. PICK k : k = Cardinality(Jusque(K, i))
    OBVIOUS
  <2>2. k \in Nat /\ IsFiniteSet(Jusque(K, i))
    BY <1>1, <1>2, <2>0, <2>1, CompteFini
  <2>3. k # 0
    <3>1. i \in Jusque(K, i)
      BY <2>0 DEF Jusque
    <3>2. QED BY <2>1, <2>2, <3>1, FS_EmptySet
  <2>4. k <= c
    <3>1. Jusque(K, i) \subseteq K
      BY DEF Jusque
    <3>2. QED BY <1>2, <1>3, <2>1, <3>1, FS_Subset
  <2>5. k \in 1 .. c
    BY <2>2, <2>3, <2>4
  <2>6. PICK r \in K : r = Rang(K, k) /\ Cardinality(Jusque(K, r)) = k
    BY <1>4, <2>5
  <2>7. r \in Nat
    BY <1>1
  <2>8. ~(i < r)
    <3>1. SUFFICES ASSUME i < r PROVE FALSE
      OBVIOUS
    <3>2. Cardinality(Jusque(K, i)) < Cardinality(Jusque(K, r))
      BY <1>1, <1>2, <3>1, CompteMonte
    <3>3. QED BY <2>1, <2>2, <2>6, <3>2
  <2>9. ~(r < i)
    <3>1. SUFFICES ASSUME r < i PROVE FALSE
      OBVIOUS
    <3>2. Cardinality(Jusque(K, r)) < Cardinality(Jusque(K, i))
      BY <1>1, <1>2, <3>1, CompteMonte
    <3>3. QED BY <2>1, <2>2, <2>6, <3>2
  <2>10. r = i
    BY <2>0, <2>7, <2>8, <2>9
  <2>11. QED BY <1>5, <2>5, <2>6, <2>10
<1>10. QED BY <1>6, <1>7, <1>8, <1>9

\* Two lines that are not comments have two numbers.
LEMMA NumeroDistinct ==
  ASSUME NEW s \in Seq(Lignes), NEW i \in DOMAIN s, NEW j \in DOMAIN s,
         s[i].genre # "note", s[j].genre # "note", i < j
  PROVE  Numero(s, i) # Numero(s, j)
<1> DEFINE Comptees == {l \in DOMAIN s : s[l].genre # "note"}
<1>0. PICK n \in Nat : n = Len(s) /\ DOMAIN s = 1 .. n
  OBVIOUS
<1>1. Comptees \subseteq 1 .. n /\ i \in Comptees /\ j \in Comptees
  BY <1>0
<1>2. ASSUME NEW a \in 1 .. n PROVE {l \in 1 .. a : s[l].genre # "note"} = Jusque(Comptees, a)
  BY <1>0 DEF Jusque
<1>3. /\ Numero(s, i) = Cardinality(Jusque(Comptees, i))
      /\ Numero(s, j) = Cardinality(Jusque(Comptees, j))
  BY <1>0, <1>2 DEF Numero
<1> HIDE DEF Comptees
<1>9. IsFiniteSet(Comptees) /\ Comptees \subseteq Nat
  <2>1. IsFiniteSet(1 .. n)
    BY FS_Interval
  <2>2. IsFiniteSet(Comptees)
    BY <1>1, <2>1, FS_Subset
  <2>3. QED BY <1>1, <2>2
<1>4. i \in Nat /\ j \in Nat
  BY <1>0
<1>5. Cardinality(Jusque(Comptees, i)) < Cardinality(Jusque(Comptees, j))
  BY <1>1, <1>9, CompteMonte
<1>6. Cardinality(Jusque(Comptees, i)) \in Nat /\ Cardinality(Jusque(Comptees, j)) \in Nat
  BY <1>9, <1>4, CompteFini
<1>7. QED BY <1>3, <1>5, <1>6

\* What is kept of a file whose lines to forget were numbered on the same content.
LEMMA GardeExacte ==
  ASSUME NEW s \in Seq(Lignes), NEW h
  PROVE  Garde(s, {Numero(s, i) : i \in LignesDe(s, h)}) = DOMAIN s \ LignesDe(s, h)
<1> SUFFICES ASSUME NEW i \in DOMAIN s
             PROVE  (s[i].genre = "note" \/ Numero(s, i) \notin {Numero(s, j) : j \in LignesDe(s, h)})
                      <=> i \notin LignesDe(s, h)
  BY DEF Garde
<1>0. \A j \in LignesDe(s, h) : j \in DOMAIN s /\ s[j].genre = "cle" /\ s[j].genre # "note"
  BY DEF LignesDe
<1>1. CASE s[i].genre = "note"
  BY <1>0, <1>1
<1>2. CASE s[i].genre # "note"
  <2>1. ASSUME NEW j \in LignesDe(s, h), Numero(s, i) = Numero(s, j) PROVE i = j
    <3>1. i \in Nat /\ j \in Nat
      BY <1>0
    <3>2. ~(i < j) /\ ~(j < i)
      BY <1>0, <1>2, <2>1, NumeroDistinct
    <3>3. QED BY <3>1, <3>2
  <2>2. QED BY <1>2, <2>1
<1>3. QED BY <1>1, <1>2

\* One line more, a key: the keys of its host grow by it, nothing else moves.
LigneCle(h, k) == [genre |-> "cle", hote |-> h, cle |-> k]

LEMMA AjoutLigne ==
  ASSUME NEW s \in Seq(Lignes), NEW h \in Hotes, NEW k \in Cles
  PROVE  /\ Append(s, LigneCle(h, k)) \in Seq(Lignes)
         /\ ClesDans(Append(s, LigneCle(h, k)), h) = ClesDans(s, h) \cup {k}
         /\ \A g \in Hotes : g # h => ClesDans(Append(s, LigneCle(h, k)), g) = ClesDans(s, g)
         /\ \A g \in Hotes : SansMarque(s, g) => SansMarque(Append(s, LigneCle(h, k)), g)
<1>1. PICK l, t : l = LigneCle(h, k) /\ t = Append(s, l)
  OBVIOUS
<1>2. l \in Lignes /\ l.genre = "cle" /\ l.hote = h /\ l.cle = k
  BY <1>1 DEF LigneCle, Lignes
<1>3. t \in Seq(Lignes)
  BY <1>1, <1>2
<1>4. PICK n \in Nat : n = Len(s) /\ DOMAIN s = 1 .. n
  OBVIOUS
<1>5. DOMAIN t = DOMAIN s \cup {n + 1} /\ t[n + 1] = l /\ \A i \in DOMAIN s : t[i] = s[i]
  BY <1>1, <1>4, <1>2
<1>6. ClesDans(t, h) = ClesDans(s, h) \cup {k}
  <2>1. LignesDe(t, h) = LignesDe(s, h) \cup {n + 1}
    BY <1>5, <1>2 DEF LignesDe
  <2>2. \A i \in LignesDe(s, h) : t[i] = s[i]
    BY <1>5 DEF LignesDe
  <2>3. t[n + 1].cle = k
    BY <1>5, <1>2
  <2>4. {t[i].cle : i \in LignesDe(t, h)} = {t[i].cle : i \in LignesDe(s, h)} \cup {t[n + 1].cle}
    BY <2>1, Zenon
  <2>5. {t[i].cle : i \in LignesDe(s, h)} = {s[i].cle : i \in LignesDe(s, h)}
    BY <2>2, Zenon
  <2>6. QED BY <2>3, <2>4, <2>5 DEF ClesDans
<1>7. ASSUME NEW g \in Hotes, g # h PROVE ClesDans(t, g) = ClesDans(s, g)
  <2>1. LignesDe(t, g) = LignesDe(s, g)
    BY <1>5, <1>2, <1>7 DEF LignesDe
  <2>2. \A i \in LignesDe(s, g) : t[i] = s[i]
    BY <1>5 DEF LignesDe
  <2>3. QED BY <2>1, <2>2 DEF ClesDans
<1>8. ASSUME NEW g \in Hotes, SansMarque(s, g) PROVE SansMarque(t, g)
  <2>1. t[n + 1].genre # "marque"
    BY <1>5, <1>2
  <2>2. QED BY <1>5, <1>8, <2>1 DEF SansMarque
<1>9. QED BY <1>1, <1>3, <1>6, <1>7, <1>8

\* The lines of one host taken away: the keys of the others stay.
LEMMA RetraitLignes ==
  ASSUME NEW s \in Seq(Lignes), NEW h \in Hotes, NEW t, t = Extrait(s, DOMAIN s \ LignesDe(s, h))
  PROVE  /\ t \in Seq(Lignes)
         /\ \A g \in Hotes : g # h => ClesDans(t, g) = ClesDans(s, g)
         /\ \A g \in Hotes : SansMarque(s, g) => SansMarque(t, g)
<1> DEFINE K == DOMAIN s \ LignesDe(s, h)
<1>1. /\ t \in Seq(Lignes)
      /\ \A k \in DOMAIN t : \E i \in K : t[k] = s[i]
      /\ \A i \in K : \E k \in DOMAIN t : t[k] = s[i]
  <2>1. s \in Seq(Lignes) /\ K \subseteq DOMAIN s /\ t = Extrait(s, K)
    OBVIOUS
  <2> HIDE DEF K
  <2>2. /\ Extrait(s, K) \in Seq(Lignes)
        /\ \A k \in DOMAIN Extrait(s, K) : \E i \in K : Extrait(s, K)[k] = s[i]
        /\ \A i \in K : \E k \in DOMAIN Extrait(s, K) : Extrait(s, K)[k] = s[i]
    BY <2>1, ExtraitLignes
  <2>3. QED BY <2>1, <2>2
<1>2. \A i \in K : i \in DOMAIN s
  OBVIOUS
<1>3. ASSUME NEW g \in Hotes, g # h PROVE ClesDans(t, g) = ClesDans(s, g)
  <2>1. \A i \in DOMAIN s : s[i].hote = g => i \in K
    BY <1>3 DEF LignesDe
  <2>2. ASSUME NEW c \in ClesDans(t, g) PROVE c \in ClesDans(s, g)
    <3>1. PICK j \in DOMAIN t : t[j].genre = "cle" /\ t[j].hote = g /\ c = t[j].cle
      BY DEF ClesDans, LignesDe
    <3>2. PICK i \in K : t[j] = s[i]
      BY <1>1
    <3>3. QED BY <1>2, <3>1, <3>2 DEF ClesDans, LignesDe
  <2>3. ASSUME NEW c \in ClesDans(s, g) PROVE c \in ClesDans(t, g)
    <3>1. PICK i \in DOMAIN s : s[i].genre = "cle" /\ s[i].hote = g /\ c = s[i].cle
      BY DEF ClesDans, LignesDe
    <3>2. PICK j \in DOMAIN t : t[j] = s[i]
      BY <1>1, <2>1, <3>1
    <3>3. QED BY <3>1, <3>2 DEF ClesDans, LignesDe
  <2>4. QED BY <2>2, <2>3
<1>4. ASSUME NEW g \in Hotes, SansMarque(s, g) PROVE SansMarque(t, g)
  <2>1. \A i \in DOMAIN s : ~(s[i].genre = "marque" /\ s[i].hote = g /\ s[i].forme # "joker")
    BY <1>4 DEF SansMarque
  <2>2. ASSUME NEW j \in DOMAIN t
        PROVE  ~(t[j].genre = "marque" /\ t[j].hote = g /\ t[j].forme # "joker")
    <3>1. PICK i \in K : t[j] = s[i]
      BY <1>1
    <3>2. i \in DOMAIN s
      BY <1>2, <3>1
    <3> HIDE DEF K
    <3>3. QED BY <2>1, <3>1, <3>2
  <2>3. QED BY <2>2 DEF SansMarque
<1>5. QED BY <1>1, <1>3, <1>4

LEMMA ClesTypees ==
  ASSUME NEW s \in Seq(Lignes), NEW h
  PROVE  ClesDans(s, h) \in SUBSET Cles
<1>1. ASSUME NEW i \in LignesDe(s, h) PROVE s[i].cle \in Cles
  <2>1. s[i] \in Lignes /\ s[i].genre = "cle"
    BY DEF LignesDe
  <2>2. QED BY <2>1 DEF Lignes
<1>2. QED BY <1>1 DEF ClesDans

-----------------------------------------------------------------------------
\* The chain of a tab is a sequence of hosts, its own last.
LEMMA ChaineOnglet ==
  ASSUME ConfianceAssumption, NEW o \in Onglets
  PROVE  /\ Chaine[o] \in Seq(Hotes) /\ 1 \in DOMAIN Chaine[o]
         /\ DOMAIN Chaine[o] = 1 .. Len(Chaine[o]) /\ Len(Chaine[o]) \in Nat
         /\ \A i \in DOMAIN Chaine[o] : Chaine[o][i] \in Hotes
         /\ AOublier(o) \in Hotes
<1>1. Chaine[o] \in Seq(Hotes) /\ Chaine[o] # <<>>
  BY DEF ConfianceAssumption
<1>2. PICK c \in Seq(Hotes) : c = Chaine[o]
  BY <1>1
<1>3. Len(c) \in Nat /\ Len(c) # 0 /\ DOMAIN c = 1 .. Len(c) /\ \A i \in DOMAIN c : c[i] \in Hotes
  BY <1>1, <1>2, EmptySeq, LenProperties, ElementOfSeq
<1>4. QED BY <1>2, <1>3 DEF AOublier

LEMMA ReposType ==
  ASSUME ConfianceAssumption, TypesConfiance, NEW o \in Onglets
  PROVE  Repos \in Connexion(o)
<1>1. Chaine[o][1] \in Hotes /\ 1 \in DOMAIN Chaine[o]
  BY ChaineOnglet
<1>2. presente[Chaine[o][1]] \in Cles
  BY <1>1 DEF TypesConfiance
<1>3. (CHOOSE k \in Cles : TRUE) \in Cles
  BY <1>2
<1>4. QED BY <1>1, <1>3 DEF Repos, Connexion, Phases, Verdicts

\* A step of one tab over the same file.
LEMMA LocalTient ==
  ASSUME ConfianceAssumption, IInvConfiance, NEW o \in Onglets, NEW c \in Connexion(o),
         cx' = [cx EXCEPT ![o] = c], Tenue(c, Chaine[o][c.maillon], known, etat),
         UNCHANGED <<known, etat>>, presente' \in [Hotes -> Cles],
         oubli'.par \in Onglets \cup {AucunOnglet},
         oubli'.par # AucunOnglet =>
           oubli'.lignes = {Numero(known, i) : i \in LignesDe(known, AOublier(oubli'.par))}
  PROVE  IInvConfiance'
<1>1. DOMAIN cx' = Onglets /\ cx'[o] = c /\ \A p \in Onglets : p # o => cx'[p] = cx[p]
  BY DEF IInvConfiance, TypesConfiance
<1>2. \A p \in Onglets : cx'[p] \in Connexion(p)
  BY <1>1 DEF IInvConfiance, TypesConfiance
<1>3. TypesConfiance'
  BY <1>1, <1>2 DEF IInvConfiance, TypesConfiance
<1>4. ASSUME NEW p \in Onglets PROVE Tenue(cx'[p], Chaine[p][cx'[p].maillon], known', etat')
  <2>1. CASE p = o
    BY <1>1, <2>1
  <2>2. CASE p # o
    BY <1>1, <2>2 DEF IInvConfiance, Hote
  <2>3. QED BY <2>1, <2>2
<1>5. (\A p \in Onglets : Tenue(cx[p], Hote(p), known, etat))'
  BY <1>4 DEF Hote
<1>6. OubliVise'
  BY DEF OubliVise
<1>7. QED BY <1>3, <1>5, <1>6 DEF IInvConfiance

\* A link of the chain begins.
LEMMA PresenterTient ==
  ASSUME ConfianceAssumption, IInvConfiance, NEW o \in Onglets, NEW i \in DOMAIN Chaine[o],
         NEW apres \in Connexion(o), Presenter(o, i, apres), UNCHANGED <<known, etat, presente, oubli>>
  PROVE  IInvConfiance'
<1>1. PICK c : c = [apres EXCEPT !.phase = "marques", !.maillon = i, !.verdict = "",
           !.presentee = presente[Chaine[o][i]], !.debut = Enregistrees(Chaine[o][i]), !.apprises = {},
           !.oubliee = FALSE]
  OBVIOUS
<1>2. cx' = [cx EXCEPT ![o] = c]
  BY <1>1 DEF Presenter
<1>3. Chaine[o][i] \in Hotes
  BY ChaineOnglet
<1>4. presente[Chaine[o][i]] \in Cles /\ Enregistrees(Chaine[o][i]) \in SUBSET Cles
  BY <1>3, ClesTypees DEF IInvConfiance, TypesConfiance, Enregistrees
<1>5. c \in Connexion(o)
  BY <1>1, <1>4 DEF Connexion, Phases, Verdicts
<1>6. /\ c.phase = "marques" /\ c.debut = ClesDans(known, Chaine[o][i]) /\ c.apprises = {}
      /\ c.maillon = i
  BY <1>1 DEF Connexion, Enregistrees
<1>7. Tenue(c, Chaine[o][c.maillon], known, etat)
  BY <1>6 DEF Tenue
<1>8. QED BY <1>2, <1>5, <1>7, LocalTient DEF IInvConfiance, TypesConfiance, OubliVise

-----------------------------------------------------------------------------
\* The steps of a tab that leave the file alone.
LEMMA InitConfianceTient == ConfianceAssumption /\ InitConfiance => IInvConfiance
<1> SUFFICES ASSUME ConfianceAssumption, InitConfiance PROVE IInvConfiance
  OBVIOUS
<1>1. known \in Seq(Lignes)
  <2>1. <<>> \in Seq(Lignes)
    OBVIOUS
  <2>2. QED BY <2>1 DEF InitConfiance, ConfianceAssumption
<1>2. ASSUME NEW o \in Onglets PROVE Repos \in Connexion(o)
  <2>1. Chaine[o][1] \in Hotes /\ 1 \in DOMAIN Chaine[o]
    BY ChaineOnglet
  <2>2. presente[Chaine[o][1]] \in Cles
    BY <2>1 DEF InitConfiance
  <2>3. (CHOOSE k \in Cles : TRUE) \in Cles
    BY <2>2
  <2>4. QED BY <2>1, <2>3 DEF Repos, Connexion, Phases, Verdicts
<1>3. TypesConfiance
  BY <1>1, <1>2 DEF TypesConfiance, InitConfiance, Etats, Libre
<1>4. \A o \in Onglets : Tenue(cx[o], Hote(o), known, etat)
  BY DEF InitConfiance, Tenue, Repos, EnJugement
<1>5. OubliVise
  BY DEF OubliVise, InitConfiance, Libre
<1>6. QED BY <1>3, <1>4, <1>5 DEF IInvConfiance, InitConfiance

\* What a connection that is not joining a host must keep: nothing.
LEMMA HorsJugement ==
  ASSUME NEW k, k.phase \notin EnJugement \cup {"acceptee"}, NEW h, NEW s, NEW e
  PROVE  Tenue(k, h, s, e)
BY DEF Tenue, EnJugement

LEMMA LireMarquesTient ==
  ASSUME ConfianceAssumption, IInvConfiance, NEW o \in Onglets, LireMarques(o)
  PROVE  IInvConfiance'
<1>0. /\ UNCHANGED <<known, etat, presente, oubli>> /\ presente \in [Hotes -> Cles]
      /\ cx[o] \in Connexion(o) /\ cx[o].phase = "marques" /\ Tenue(cx[o], Hote(o), known, etat)
      /\ oubli.par \in Onglets \cup {AucunOnglet}
  BY DEF LireMarques, Fixe, IInvConfiance, TypesConfiance
<1>1. CASE etat = "ordinaire" /\ \E i \in DOMAIN known : Vise(known[i], Hote(o))
  <2>1. PICK c : c = [cx[o] EXCEPT !.phase = "refusee", !.verdict = "marque"]
    OBVIOUS
  <2>2. cx' = [cx EXCEPT ![o] = c]
    BY <1>1, <2>1 DEF LireMarques, Refuser, IInvConfiance, TypesConfiance
  <2>3. c \in Connexion(o) /\ c.phase = "refusee"
    BY <1>0, <2>1 DEF Connexion, Phases, Verdicts
  <2>4. Tenue(c, Chaine[o][c.maillon], known, etat)
    BY <2>3, HorsJugement DEF EnJugement
  <2>5. QED BY <1>0, <2>2, <2>3, <2>4, LocalTient DEF IInvConfiance, OubliVise
<1>2. CASE ~(etat = "ordinaire" /\ \E i \in DOMAIN known : Vise(known[i], Hote(o)))
  <2>1. PICK c : c = [cx[o] EXCEPT !.phase = "cles"]
    OBVIOUS
  <2>2. cx' = [cx EXCEPT ![o] = c]
    BY <1>2, <2>1 DEF LireMarques, IInvConfiance, TypesConfiance
  <2>3. /\ c \in Connexion(o) /\ c.phase = "cles" /\ c.maillon = cx[o].maillon
        /\ c.debut = cx[o].debut /\ c.apprises = cx[o].apprises /\ c.oubliee = cx[o].oubliee
    BY <1>0, <2>1 DEF Connexion, Phases
  <2>4. ASSUME etat \in Lisibles PROVE SansMarque(known, Hote(o))
    <3>1. CASE etat = "absent"
      BY <3>1 DEF IInvConfiance, SansMarque
    <3>2. CASE etat = "ordinaire"
      <4>1. ASSUME NEW i \in DOMAIN known, known[i].genre = "marque", known[i].hote = Hote(o),
                   known[i].forme # "joker"
            PROVE  FALSE
        <5>1. known[i] \in Lignes
          BY DEF IInvConfiance, TypesConfiance
        <5>2. known[i].forme \in Formes
          BY <4>1, <5>1 DEF Lignes
        <5>3. Vise(known[i], Hote(o))
          BY <4>1, <5>2 DEF Vise, Formes
        <5>4. QED BY <1>2, <3>2, <5>3
      <4>2. QED BY <4>1 DEF SansMarque
    <3>3. QED BY <2>4, <3>1, <3>2 DEF Lisibles
  <2>5. Tenue(c, Hote(o), known, etat)
    BY <1>0, <2>3, <2>4 DEF Tenue, EnJugement
  <2>6. QED BY <1>0, <2>2, <2>3, <2>5, LocalTient DEF IInvConfiance, OubliVise, Hote
<1>3. QED BY <1>1, <1>2

LEMMA LireClesTient ==
  ASSUME ConfianceAssumption, IInvConfiance, NEW o \in Onglets, LireCles(o)
  PROVE  IInvConfiance'
<1>0. /\ UNCHANGED <<known, etat, presente, oubli>> /\ presente \in [Hotes -> Cles]
      /\ cx[o] \in Connexion(o) /\ cx[o].phase = "cles" /\ Tenue(cx[o], Hote(o), known, etat)
      /\ oubli.par \in Onglets \cup {AucunOnglet} /\ etat \in Etats /\ known \in Seq(Lignes)
  BY DEF LireCles, Fixe, IInvConfiance, TypesConfiance
<1>1. CASE etat \notin Lisibles
  <2>0. PICK v \in Verdicts : Refuser(o, v)
    BY <1>0, <1>1 DEF LireCles, Lisibles, Etats, Verdicts
  <2>1. PICK c : c = [cx[o] EXCEPT !.phase = "refusee", !.verdict = v]
    OBVIOUS
  <2>2. cx' = [cx EXCEPT ![o] = c]
    BY <2>0, <2>1 DEF Refuser, IInvConfiance, TypesConfiance
  <2>3. c \in Connexion(o) /\ c.phase = "refusee"
    BY <1>0, <2>1 DEF Connexion, Phases
  <2>4. Tenue(c, Chaine[o][c.maillon], known, etat)
    BY <2>3, HorsJugement DEF EnJugement
  <2>5. QED BY <1>0, <2>2, <2>3, <2>4, LocalTient DEF IInvConfiance, OubliVise
<1>2. CASE etat \in Lisibles
  <2>1. PICK c : c = [cx[o] EXCEPT !.phase = "juge", !.lues = Enregistrees(Hote(o))]
    OBVIOUS
  <2>2. cx' = [cx EXCEPT ![o] = c]
    BY <1>2, <2>1 DEF LireCles, Lisibles, IInvConfiance, TypesConfiance
  <2>3. Enregistrees(Hote(o)) \in SUBSET Cles
    BY <1>0, ClesTypees DEF Enregistrees
  <2>4. /\ c \in Connexion(o) /\ c.phase = "juge" /\ c.maillon = cx[o].maillon
        /\ c.debut = cx[o].debut /\ c.apprises = cx[o].apprises /\ c.oubliee = cx[o].oubliee
        /\ c.lues = ClesDans(known, Hote(o))
    BY <1>0, <2>1, <2>3 DEF Connexion, Phases, Enregistrees
  <2>5. Tenue(c, Hote(o), known, etat)
    BY <1>0, <1>2, <2>4 DEF Tenue, EnJugement
  <2>6. QED BY <1>0, <2>2, <2>4, <2>5, LocalTient DEF IInvConfiance, OubliVise, Hote
<1>3. QED BY <1>1, <1>2

LEMMA RendreVerdictTient ==
  ASSUME ConfianceAssumption, IInvConfiance, NEW o \in Onglets, RendreVerdict(o)
  PROVE  IInvConfiance'
<1>0. /\ UNCHANGED <<known, etat, presente, oubli>> /\ presente \in [Hotes -> Cles]
      /\ cx[o] \in Connexion(o) /\ cx[o].phase = "juge" /\ Tenue(cx[o], Hote(o), known, etat)
      /\ oubli.par \in Onglets \cup {AucunOnglet}
  BY DEF RendreVerdict, Fixe, IInvConfiance, TypesConfiance
<1>1. CASE Refuser(o, "changee")
  <2>1. PICK c : c = [cx[o] EXCEPT !.phase = "refusee", !.verdict = "changee"]
    OBVIOUS
  <2>2. cx' = [cx EXCEPT ![o] = c]
    BY <1>1, <2>1 DEF Refuser, IInvConfiance, TypesConfiance
  <2>3. c \in Connexion(o) /\ c.phase = "refusee"
    BY <1>0, <2>1 DEF Connexion, Phases, Verdicts
  <2>4. Tenue(c, Chaine[o][c.maillon], known, etat)
    BY <2>3, HorsJugement DEF EnJugement
  <2>5. QED BY <1>0, <2>2, <2>3, <2>4, LocalTient DEF IInvConfiance, OubliVise
<1>2. CASE cx[o].lues = {} /\ cx' = [cx EXCEPT ![o].phase = "apprend"]
  <2>1. PICK c : c = [cx[o] EXCEPT !.phase = "apprend"]
    OBVIOUS
  <2>2. cx' = [cx EXCEPT ![o] = c]
    BY <1>2, <2>1 DEF IInvConfiance, TypesConfiance
  <2>3. /\ c \in Connexion(o) /\ c.phase = "apprend" /\ c.maillon = cx[o].maillon
        /\ c.debut = cx[o].debut /\ c.apprises = cx[o].apprises /\ c.oubliee = cx[o].oubliee
    BY <1>0, <2>1 DEF Connexion, Phases
  <2>4. Tenue(c, Hote(o), known, etat)
    BY <1>0, <1>2, <2>3 DEF Tenue, EnJugement
  <2>5. QED BY <1>0, <2>2, <2>3, <2>4, LocalTient DEF IInvConfiance, OubliVise, Hote
<1>3. CASE cx[o].presentee \in cx[o].lues /\ cx' = [cx EXCEPT ![o].phase = "acceptee"]
  <2>1. PICK c : c = [cx[o] EXCEPT !.phase = "acceptee"]
    OBVIOUS
  <2>2. cx' = [cx EXCEPT ![o] = c]
    BY <1>3, <2>1 DEF IInvConfiance, TypesConfiance
  <2>3. /\ c \in Connexion(o) /\ c.phase = "acceptee" /\ c.maillon = cx[o].maillon
        /\ c.debut = cx[o].debut /\ c.apprises = cx[o].apprises /\ c.oubliee = cx[o].oubliee
        /\ c.presentee = cx[o].presentee
    BY <1>0, <2>1 DEF Connexion, Phases
  <2>4. Tenue(c, Hote(o), known, etat)
    BY <1>0, <1>3, <2>3 DEF Tenue, EnJugement
  <2>5. QED BY <1>0, <2>2, <2>3, <2>4, LocalTient DEF IInvConfiance, OubliVise, Hote
<1>4. QED
  BY <1>0, <1>1, <1>2, <1>3 DEF RendreVerdict, Juger

\* A tab that stops joining, or starts again from nothing.
LEMMA RepartTient ==
  ASSUME ConfianceAssumption, IInvConfiance, NEW o \in Onglets, NEW c \in Connexion(o),
         c.phase \notin EnJugement \cup {"acceptee"}, cx' = [cx EXCEPT ![o] = c],
         UNCHANGED <<known, etat, presente, oubli>>
  PROVE  IInvConfiance'
<1>1. Tenue(c, Chaine[o][c.maillon], known, etat)
  BY HorsJugement
<1>2. QED BY <1>1, LocalTient DEF IInvConfiance, TypesConfiance, OubliVise

LEMMA PageTient ==
  ASSUME ConfianceAssumption, IInvConfiance, NEW o \in Onglets, Rapporter(o) \/ Repondre(o)
  PROVE  IInvConfiance'
<1>0. /\ UNCHANGED <<known, etat, presente, oubli>> /\ cx[o] \in Connexion(o) /\ Repos \in Connexion(o)
      /\ DOMAIN cx = Onglets
  BY ReposType DEF Rapporter, Repondre, Fixe, IInvConfiance, TypesConfiance
<1>1. \/ cx' = [cx EXCEPT ![o].phase = "question"]
      \/ cx' = [cx EXCEPT ![o].phase = "oublie"]
      \/ cx' = [cx EXCEPT ![o] = [Repos EXCEPT !.phase = "fermee"]]
  BY DEF Rapporter, Repondre
<1>2. CASE cx' = [cx EXCEPT ![o].phase = "question"]
  <2>1. PICK c : c = [cx[o] EXCEPT !.phase = "question"]
    OBVIOUS
  <2>2. c \in Connexion(o) /\ c.phase = "question" /\ cx' = [cx EXCEPT ![o] = c]
    BY <1>0, <1>2, <2>1 DEF Connexion, Phases
  <2>3. QED BY <1>0, <2>2, RepartTient DEF EnJugement
<1>3. CASE cx' = [cx EXCEPT ![o].phase = "oublie"]
  <2>1. PICK c : c = [cx[o] EXCEPT !.phase = "oublie"]
    OBVIOUS
  <2>2. c \in Connexion(o) /\ c.phase = "oublie" /\ cx' = [cx EXCEPT ![o] = c]
    BY <1>0, <1>3, <2>1 DEF Connexion, Phases
  <2>3. QED BY <1>0, <2>2, RepartTient DEF EnJugement
<1>4. CASE cx' = [cx EXCEPT ![o] = [Repos EXCEPT !.phase = "fermee"]]
  <2>1. PICK c : c = [Repos EXCEPT !.phase = "fermee"]
    OBVIOUS
  <2>2. c \in Connexion(o) /\ c.phase = "fermee" /\ cx' = [cx EXCEPT ![o] = c]
    BY <1>0, <1>4, <2>1 DEF Connexion, Phases
  <2>3. QED BY <1>0, <2>2, RepartTient DEF EnJugement
<1>5. QED BY <1>1, <1>2, <1>3, <1>4

LEMMA ConnecterTient ==
  ASSUME ConfianceAssumption, IInvConfiance, NEW o \in Onglets, Connecter(o)
  PROVE  IInvConfiance'
<1>1. Repos \in Connexion(o) /\ 1 \in DOMAIN Chaine[o]
  BY ReposType, ChaineOnglet DEF IInvConfiance
<1>2. Presenter(o, 1, Repos) /\ UNCHANGED <<known, etat, presente, oubli>>
  BY DEF Connecter
<1>3. QED BY <1>1, <1>2, PresenterTient

LEMMA SuivreTient ==
  ASSUME ConfianceAssumption, IInvConfiance, NEW o \in Onglets, Suivre(o)
  PROVE  IInvConfiance'
<1>0. /\ UNCHANGED <<known, etat, presente, oubli>> /\ cx[o] \in Connexion(o) /\ Repos \in Connexion(o)
      /\ DOMAIN cx = Onglets
  BY ReposType DEF Suivre, Fixe, IInvConfiance, TypesConfiance
<1>1. CASE cx[o].maillon < Len(Chaine[o])
  <2>1. Presenter(o, cx[o].maillon + 1, cx[o])
    BY <1>1 DEF Suivre
  <2>2. cx[o].maillon \in DOMAIN Chaine[o]
    BY <1>0 DEF Connexion
  <2>3. PICK i : i = cx[o].maillon + 1
    OBVIOUS
  <2>4. i \in DOMAIN Chaine[o]
    BY <1>1, <2>2, <2>3, ChaineOnglet
  <2>5. QED BY <1>0, <2>1, <2>3, <2>4, PresenterTient
<1>2. CASE ~(cx[o].maillon < Len(Chaine[o]))
  <2>1. PICK c : c = [Repos EXCEPT !.phase = "ouverte"]
    OBVIOUS
  <2>2. c \in Connexion(o) /\ c.phase = "ouverte" /\ cx' = [cx EXCEPT ![o] = c]
    BY <1>0, <1>2, <2>1 DEF Connexion, Phases, Suivre
  <2>3. QED BY <1>0, <2>2, RepartTient DEF EnJugement
<1>3. QED BY <1>1, <1>2

\* A key learnt: every tab on that host sees it among those learnt since, and no
\* removal is under way (ECRITURE_KNOWN_HOSTS).
LEMMA ApprendreTient ==
  ASSUME ConfianceAssumption, IInvConfiance, NEW o \in Onglets, Apprendre(o)
  PROVE  IInvConfiance'
<1>0. /\ UNCHANGED <<presente, oubli>> /\ presente \in [Hotes -> Cles] /\ known \in Seq(Lignes)
      /\ cx[o] \in Connexion(o) /\ cx[o].phase = "apprend" /\ Tenue(cx[o], Hote(o), known, etat)
      /\ oubli.par \in Onglets \cup {AucunOnglet} /\ oubli = Libre /\ DOMAIN cx = Onglets
      /\ \A p \in Onglets : cx[p] \in Connexion(p) /\ Tenue(cx[p], Hote(p), known, etat)
  BY DEF Apprendre, Fixe, IInvConfiance, TypesConfiance
<1>1. CASE Refuser(o, "ecriture") /\ UNCHANGED <<etat, known>>
  <2>1. PICK c : c = [cx[o] EXCEPT !.phase = "refusee", !.verdict = "ecriture"]
    OBVIOUS
  <2>2. c \in Connexion(o) /\ c.phase = "refusee"
    BY <1>0, <2>1 DEF Connexion, Phases, Verdicts
  <2>3. cx' = [cx EXCEPT ![o] = c]
    BY <1>0, <1>1, <2>1 DEF Refuser
  <2>4. QED BY <1>0, <1>1, <2>2, <2>3, RepartTient DEF EnJugement
<1>2. CASE /\ known' = Append(known, [genre |-> "cle", hote |-> Hote(o), cle |-> cx[o].presentee])
           /\ etat' = "ordinaire"
           /\ cx' = [p \in Onglets |->
                    IF p = o THEN [cx[o] EXCEPT !.phase = "acceptee", !.lues = {}]
                    ELSE IF Hote(p) = Hote(o) THEN [cx[p] EXCEPT !.apprises = @ \cup {cx[o].presentee}]
                    ELSE cx[p]]
  <2>1. PICK h : h = Hote(o)
    OBVIOUS
  <2>2. PICK k : k = cx[o].presentee
    OBVIOUS
  <2>3. \A p \in Onglets : Hote(p) \in Hotes
    BY <1>0, ChaineOnglet DEF Hote, Connexion
  <2>4. h \in Hotes /\ k \in Cles
    BY <1>0, <2>1, <2>2, <2>3 DEF Connexion
  <2>5. PICK t : t = known'
    OBVIOUS
  <2>6. /\ t \in Seq(Lignes)
        /\ ClesDans(t, h) = ClesDans(known, h) \cup {k}
        /\ \A g \in Hotes : g # h => ClesDans(t, g) = ClesDans(known, g)
        /\ \A g \in Hotes : SansMarque(known, g) => SansMarque(t, g)
    <3>1. t = Append(known, LigneCle(h, k))
      BY <1>2, <2>1, <2>2, <2>5 DEF LigneCle
    <3>2. known \in Seq(Lignes)
      BY <1>0
    <3>3. QED BY <2>4, <3>1, <3>2, AjoutLigne
  <2>7. etat \in Lisibles /\ "ordinaire" \in Lisibles
    BY <1>0 DEF Tenue, Lisibles
  <2>8. ASSUME NEW p \in Onglets, p # o
        PROVE  cx'[p] \in Connexion(p) /\ Tenue(cx'[p], Hote(p), t, "ordinaire") /\ cx'[p].maillon = cx[p].maillon
    <3>0. cx[p] \in Connexion(p) /\ Tenue(cx[p], Hote(p), known, etat) /\ Hote(p) \in Hotes
      BY <1>0, <2>3
    <3>1. CASE Hote(p) = h
      <4>1. PICK c : c = [cx[p] EXCEPT !.apprises = @ \cup {k}]
        OBVIOUS
      <4>2. cx'[p] = c
        BY <1>2, <2>1, <2>2, <2>8, <3>1, <4>1
      <4>3. /\ c \in Connexion(p) /\ c.apprises = cx[p].apprises \cup {k} /\ c.phase = cx[p].phase
            /\ c.debut = cx[p].debut /\ c.oubliee = cx[p].oubliee /\ c.presentee = cx[p].presentee
            /\ c.lues = cx[p].lues /\ c.maillon = cx[p].maillon
        BY <2>4, <3>0, <4>1 DEF Connexion
      <4>4. Tenue(c, Hote(p), t, "ordinaire")
        BY <2>6, <2>7, <3>0, <3>1, <4>3 DEF Tenue, EnJugement
      <4>5. QED BY <4>2, <4>3, <4>4
    <3>2. CASE Hote(p) # h
      <4>1. cx'[p] = cx[p]
        BY <1>2, <2>1, <2>8, <3>2
      <4>2. Tenue(cx[p], Hote(p), t, "ordinaire")
        BY <2>6, <2>7, <3>0, <3>2 DEF Tenue, EnJugement
      <4>3. QED BY <3>0, <4>1, <4>2
    <3>3. QED BY <3>1, <3>2
  <2>9. cx'[o] \in Connexion(o) /\ Tenue(cx'[o], Hote(o), t, "ordinaire") /\ cx'[o].maillon = cx[o].maillon
    <3>1. PICK c : c = [cx[o] EXCEPT !.phase = "acceptee", !.lues = {}]
      OBVIOUS
    <3>2. cx'[o] = c
      BY <1>2, <3>1
    <3>3. /\ c \in Connexion(o) /\ c.phase = "acceptee" /\ c.debut = cx[o].debut
          /\ c.oubliee = cx[o].oubliee /\ c.presentee = k /\ c.maillon = cx[o].maillon
      BY <1>0, <2>2, <3>1 DEF Connexion, Phases
    <3>4. Tenue(c, Hote(o), t, "ordinaire")
      BY <1>0, <2>1, <2>4, <2>6, <2>7, <3>3 DEF Tenue, EnJugement
    <3>5. QED BY <3>2, <3>3, <3>4
  <2>10. \A p \in Onglets : /\ cx'[p] \in Connexion(p) /\ Tenue(cx'[p], Hote(p), t, "ordinaire")
                            /\ cx'[p].maillon = cx[p].maillon
    BY <2>8, <2>9
  <2>11. TypesConfiance'
    BY <1>0, <1>2, <2>5, <2>6, <2>10 DEF TypesConfiance, Etats
  <2>12. (\A p \in Onglets : Tenue(cx[p], Hote(p), known, etat))'
    BY <1>2, <2>5, <2>10 DEF Hote
  <2>13. OubliVise'
    BY <1>0 DEF OubliVise, Libre
  <2>14. QED BY <1>2, <2>11, <2>12, <2>13 DEF IInvConfiance
<1>3. QED BY <1>1, <1>2 DEF Apprendre

\* A removal under way takes the lines of the host its tab names.
LEMMA OubliDeSonHote ==
  ASSUME ConfianceAssumption, IInvConfiance, NEW o \in Onglets, oubli.par = o
  PROVE  /\ known \in Seq(Lignes)
         /\ oubli.lignes = {Numero(known, i) : i \in LignesDe(known, AOublier(o))}
<1>1. o # AucunOnglet
  BY DEF ConfianceAssumption
<1>2. QED BY <1>1 DEF IInvConfiance, OubliVise, TypesConfiance

LEMMA OublierLireTient ==
  ASSUME ConfianceAssumption, IInvConfiance, NEW o \in Onglets, OublierLire(o)
  PROVE  IInvConfiance'
<1>0. /\ UNCHANGED <<known, etat, presente>> /\ presente \in [Hotes -> Cles]
      /\ cx[o] \in Connexion(o) /\ Repos \in Connexion(o) /\ 1 \in DOMAIN Chaine[o]
      /\ DOMAIN cx = Onglets /\ Tenue(cx[o], Hote(o), known, etat)
  BY ReposType, ChaineOnglet DEF OublierLire, Fixe, IInvConfiance, TypesConfiance
<1> DEFINE lignes == {Numero(known, i) : i \in LignesDe(known, AOublier(o))}
<1>1. CASE Presenter(o, 1, [Repos EXCEPT !.reapprise = TRUE]) /\ UNCHANGED oubli
  <2>1. PICK c : c = [Repos EXCEPT !.reapprise = TRUE]
    OBVIOUS
  <2>2. c \in Connexion(o)
    BY <1>0, <2>1 DEF Connexion
  <2>3. QED BY <1>0, <1>1, <2>1, <2>2, PresenterTient
<1>2. CASE oubli' = [par |-> o, lignes |-> lignes] /\ UNCHANGED cx
  <2>1. oubli'.par = o /\ oubli'.lignes = lignes
    BY <1>2
  <2>2. TypesConfiance'
    BY <1>0, <1>2, <2>1 DEF IInvConfiance, TypesConfiance
  <2>3. OubliVise'
    BY <1>0, <2>1 DEF OubliVise
  <2>4. QED BY <1>0, <1>2, <2>2, <2>3 DEF IInvConfiance, Hote
<1>3. QED BY <1>1, <1>2 DEF OublierLire

\* A removal: the other hosts keep their keys, the tabs on this one know it.
LEMMA OublierEcrireTient ==
  ASSUME ConfianceAssumption, IInvConfiance, NEW o \in Onglets, OublierEcrire(o)
  PROVE  IInvConfiance'
<1>0. /\ UNCHANGED <<presente, etat>> /\ presente \in [Hotes -> Cles] /\ known \in Seq(Lignes)
      /\ Repos \in Connexion(o) /\ 1 \in DOMAIN Chaine[o] /\ Chaine[o][1] \in Hotes
      /\ oubli' = Libre /\ DOMAIN cx = Onglets /\ AOublier(o) \in Hotes
      /\ \A p \in Onglets : cx[p] \in Connexion(p) /\ Tenue(cx[p], Hote(p), known, etat)
  BY ReposType, ChaineOnglet DEF OublierEcrire, Fixe, IInvConfiance, TypesConfiance
<1>1. oubli'.par = AucunOnglet
  BY <1>0 DEF Libre
<1>2. CASE UNCHANGED known /\ cx' = [cx EXCEPT ![o] = [Repos EXCEPT !.phase = "fermee"]]
  <2>1. PICK c : c = [Repos EXCEPT !.phase = "fermee"]
    OBVIOUS
  <2>2. c \in Connexion(o) /\ c.phase = "fermee" /\ cx' = [cx EXCEPT ![o] = c]
    BY <1>0, <1>2, <2>1 DEF Connexion, Phases
  <2>3. Tenue(c, Chaine[o][c.maillon], known, etat)
    BY <2>2, HorsJugement DEF EnJugement
  <2>4. QED BY <1>0, <1>1, <1>2, <2>2, <2>3, LocalTient
<1>3. CASE /\ known' = Extrait(known, Garde(known, oubli.lignes))
           /\ cx' = [p \in Onglets |->
                    IF p = o THEN [Repos EXCEPT !.phase = "marques", !.reapprise = TRUE,
                                     !.presentee = presente[Chaine[o][1]],
                                     !.debut = ClesDans(known', Chaine[o][1])]
                    ELSE IF Hote(p) = AOublier(o) THEN [cx[p] EXCEPT !.oubliee = TRUE]
                    ELSE cx[p]]
  <2>1. PICK t : t = known'
    OBVIOUS
  <2>2. t = Extrait(known, DOMAIN known \ LignesDe(known, AOublier(o)))
    <3>1. oubli.par = o
      BY DEF OublierEcrire
    <3>2. known \in Seq(Lignes) /\ oubli.lignes = {Numero(known, i) : i \in LignesDe(known, AOublier(o))}
      BY <3>1, OubliDeSonHote
    <3>3. Garde(known, oubli.lignes) = DOMAIN known \ LignesDe(known, AOublier(o))
      BY <3>2, GardeExacte
    <3>4. QED BY <1>3, <2>1, <3>3
  <2>3. /\ t \in Seq(Lignes)
        /\ \A g \in Hotes : g # AOublier(o) => ClesDans(t, g) = ClesDans(known, g)
        /\ \A g \in Hotes : SansMarque(known, g) => SansMarque(t, g)
    BY <1>0, <2>2, RetraitLignes
  <2>4. \A p \in Onglets : Hote(p) \in Hotes
    BY <1>0, ChaineOnglet DEF Hote, Connexion
  <2>5. ASSUME NEW p \in Onglets, p # o
        PROVE  cx'[p] \in Connexion(p) /\ Tenue(cx'[p], Hote(p), t, etat) /\ cx'[p].maillon = cx[p].maillon
    <3>0. cx[p] \in Connexion(p) /\ Tenue(cx[p], Hote(p), known, etat) /\ Hote(p) \in Hotes
      BY <1>0, <2>4
    <3>1. CASE Hote(p) = AOublier(o)
      <4>1. PICK c : c = [cx[p] EXCEPT !.oubliee = TRUE]
        OBVIOUS
      <4>2. cx'[p] = c
        BY <1>3, <2>5, <3>1, <4>1
      <4>3. /\ c \in Connexion(p) /\ c.apprises = cx[p].apprises /\ c.phase = cx[p].phase
            /\ c.debut = cx[p].debut /\ c.oubliee = TRUE /\ c.presentee = cx[p].presentee
            /\ c.lues = cx[p].lues /\ c.maillon = cx[p].maillon
        BY <3>0, <4>1 DEF Connexion
      <4>4. Tenue(c, Hote(p), t, etat)
        BY <2>3, <3>0, <4>3 DEF Tenue, EnJugement
      <4>5. QED BY <4>2, <4>3, <4>4
    <3>2. CASE Hote(p) # AOublier(o)
      <4>1. cx'[p] = cx[p]
        BY <1>3, <2>5, <3>2
      <4>2. Tenue(cx[p], Hote(p), t, etat)
        BY <2>3, <3>0, <3>2 DEF Tenue, EnJugement
      <4>3. QED BY <3>0, <4>1, <4>2
    <3>3. QED BY <3>1, <3>2
  <2>6. cx'[o] \in Connexion(o) /\ Tenue(cx'[o], Chaine[o][cx'[o].maillon], t, etat)
    <3>1. PICK c : c = [Repos EXCEPT !.phase = "marques", !.reapprise = TRUE,
                          !.presentee = presente[Chaine[o][1]], !.debut = ClesDans(t, Chaine[o][1])]
      OBVIOUS
    <3>2. cx'[o] = c
      BY <1>3, <2>1, <3>1
    <3>3. ClesDans(t, Chaine[o][1]) \in SUBSET Cles /\ presente[Chaine[o][1]] \in Cles
      BY <1>0, <2>3, ClesTypees
    <3>4. c \in Connexion(o)
      BY <1>0, <3>1, <3>3 DEF Connexion, Phases
    <3>5. c.phase = "marques" /\ c.debut = ClesDans(t, Chaine[o][1]) /\ c.apprises = {} /\ c.maillon = 1
      BY <1>0, <3>1 DEF Connexion, Repos
    <3>6. Tenue(c, Chaine[o][c.maillon], t, etat)
      BY <3>5 DEF Tenue
    <3>7. QED BY <3>2, <3>4, <3>6
  <2>7. \A p \in Onglets : cx'[p] \in Connexion(p) /\ Tenue(cx'[p], Chaine[p][cx'[p].maillon], t, etat)
    <3>1. ASSUME NEW p \in Onglets, p # o
          PROVE  cx'[p] \in Connexion(p) /\ Tenue(cx'[p], Chaine[p][cx'[p].maillon], t, etat)
      <4>1. Hote(p) = Chaine[p][cx'[p].maillon]
        BY <2>5, <3>1 DEF Hote
      <4>2. QED BY <2>5, <3>1, <4>1
    <3>2. QED BY <2>6, <3>1
  <2>8. TypesConfiance'
    BY <1>0, <1>1, <1>3, <2>1, <2>3, <2>7 DEF TypesConfiance, IInvConfiance
  <2>9. (\A p \in Onglets : Tenue(cx[p], Hote(p), known, etat))'
    BY <1>0, <2>1, <2>7 DEF Hote
  <2>10. OubliVise'
    BY <1>1 DEF OubliVise
  <2>11. etat' = "absent" => known' = <<>>
    <3>1. SUFFICES ASSUME etat = "absent" PROVE t = <<>>
      BY <1>0, <2>1
    <3>2. known = <<>>
      BY <3>1 DEF IInvConfiance
    <3>3. DOMAIN t = {}
      <4>1. DOMAIN known \ LignesDe(known, AOublier(o)) = {}
        BY <3>2
      <4>2. t = [k \in 1 .. 0 |-> known[Rang({}, k)]]
        BY <2>2, <4>1, FS_EmptySet DEF Extrait
      <4>3. QED BY <4>2
    <3>4. QED BY <2>3, <3>3, EmptySeq
  <2>12. QED BY <2>8, <2>9, <2>10, <2>11 DEF IInvConfiance
<1>4. QED BY <1>2, <1>3 DEF OublierEcrire

\* A server reinstalled: the file and the connections do not know it yet.
LEMMA ReinstallerTient ==
  ASSUME ConfianceAssumption, IInvConfiance, NEW h \in Hotes, Reinstaller(h)
  PROVE  IInvConfiance'
<1>1. presente' \in [Hotes -> Cles]
  BY DEF Reinstaller, IInvConfiance, TypesConfiance
<1>2. UNCHANGED <<etat, known, cx, oubli>>
  BY DEF Reinstaller
<1>3. TypesConfiance'
  BY <1>1, <1>2 DEF IInvConfiance, TypesConfiance
<1>4. QED BY <1>2, <1>3 DEF IInvConfiance, OubliVise, Hote

LEMMA ConfiancePas ==
  ASSUME ConfianceAssumption, IInvConfiance, [NextConfiance]_varsConfiance
  PROVE  IInvConfiance'
<1>1. CASE UNCHANGED varsConfiance
  BY <1>1 DEF varsConfiance, IInvConfiance, TypesConfiance, OubliVise, Hote
<1>2. ASSUME NEW o \in Onglets, Connecter(o) PROVE IInvConfiance'
  BY <1>2, ConnecterTient
<1>3. ASSUME NEW o \in Onglets, LireMarques(o) PROVE IInvConfiance'
  BY <1>3, LireMarquesTient
<1>4. ASSUME NEW o \in Onglets, LireCles(o) PROVE IInvConfiance'
  BY <1>4, LireClesTient
<1>5. ASSUME NEW o \in Onglets, RendreVerdict(o) PROVE IInvConfiance'
  BY <1>5, RendreVerdictTient
<1>6. ASSUME NEW o \in Onglets, Apprendre(o) PROVE IInvConfiance'
  BY <1>6, ApprendreTient
<1>7. ASSUME NEW o \in Onglets, Suivre(o) PROVE IInvConfiance'
  BY <1>7, SuivreTient
<1>8. ASSUME NEW o \in Onglets, Rapporter(o) \/ Repondre(o) PROVE IInvConfiance'
  BY <1>8, PageTient
<1>9. ASSUME NEW o \in Onglets, OublierLire(o) PROVE IInvConfiance'
  BY <1>9, OublierLireTient
<1>10. ASSUME NEW o \in Onglets, OublierEcrire(o) PROVE IInvConfiance'
  BY <1>10, OublierEcrireTient
<1>11. ASSUME NEW h \in Hotes, Reinstaller(h) PROVE IInvConfiance'
  BY <1>11, ReinstallerTient
<1>12. QED
  BY <1>1, <1>2, <1>3, <1>4, <1>5, <1>6, <1>7, <1>8, <1>9, <1>10, <1>11 DEF NextConfiance

LEMMA ConfianceInvariante ==
  ASSUME ConfianceAssumption
  PROVE  SpecConfiance => []IInvConfiance
<1>1. InitConfiance => IInvConfiance
  BY InitConfianceTient
<1>2. IInvConfiance /\ [NextConfiance]_varsConfiance => IInvConfiance'
  BY ConfiancePas
<1>3. QED BY <1>1, <1>2, PTL DEF SpecConfiance

-----------------------------------------------------------------------------
\* A key a tab accepts was known of its host, or the host had none; and a host
\* that a marker names is never joined (check_server_key).
THEOREM ConfianceToujoursTenue ==
  ASSUME ConfianceAssumption
  PROVE  SpecConfiance => []ConfianceTenue
<1>1. IInvConfiance => ConfianceTenue
  <2>1. SUFFICES ASSUME IInvConfiance PROVE ConfianceTenue
    OBVIOUS
  <2>2. ASSUME NEW o \in Onglets, cx[o].phase = "acceptee"
        PROVE  /\ etat \in Lisibles /\ SansMarque(known, Hote(o))
               /\ cx[o].oubliee \/ /\ cx[o].debut = {} \/ cx[o].presentee \in cx[o].debut \cup cx[o].apprises
                                   /\ cx[o].presentee \in Enregistrees(Hote(o))
    <3>1. Tenue(cx[o], Hote(o), known, etat)
      BY <2>1 DEF IInvConfiance
    <3>2. QED BY <2>2, <3>1 DEF Tenue, Enregistrees
  <2>3. CleSure
    BY <2>2 DEF CleSure
  <2>4. MarqueTenue
    BY <2>2 DEF MarqueTenue, SansMarque
  <2>5. QED BY <2>1, <2>3, <2>4 DEF ConfianceTenue, IInvConfiance
<1>2. QED BY <1>1, ConfianceInvariante, PTL

\* Forgetting a host takes its lines away and nothing else (forget_host_key_at).
THEOREM OubliToujoursExact ==
  ASSUME ConfianceAssumption
  PROVE  SpecConfiance => OubliExact
<1>1. IInvConfiance /\ [NextConfiance]_varsConfiance =>
        [oubli.par # AucunOnglet /\ known' # known =>
           known' = Extrait(known, DOMAIN known \ LignesDe(known, AOublier(oubli.par)))]_varsConfiance
  <2>1. SUFFICES ASSUME IInvConfiance, NextConfiance, oubli.par # AucunOnglet, known' # known
                 PROVE  known' = Extrait(known, DOMAIN known \ LignesDe(known, AOublier(oubli.par)))
    OBVIOUS
  <2>2. PICK o \in Onglets : Apprendre(o) \/ OublierEcrire(o)
    BY <2>1 DEF NextConfiance, Connecter, LireMarques, LireCles, RendreVerdict, Suivre, Rapporter, Repondre,
          OublierLire, Reinstaller
  <2>3. ~Apprendre(o)
    BY <2>1 DEF Apprendre, Libre
  <2>4. oubli.par = o /\ known' = Extrait(known, Garde(known, oubli.lignes))
    BY <2>1, <2>2, <2>3 DEF OublierEcrire
  <2>5. QED BY <2>1, <2>4, GardeExacte, OubliDeSonHote
<1>2. QED BY <1>1, ConfianceInvariante, PTL DEF SpecConfiance, OubliExact

\* No key is lost but by a removal.
THEOREM ClesToujoursGardees ==
  ASSUME ConfianceAssumption
  PROVE  SpecConfiance => ClesGardees
<1>1. IInvConfiance /\ [NextConfiance]_varsConfiance =>
        [\A h \in Hotes : oubli.par # AucunOnglet \/ Enregistrees(h) \subseteq Enregistrees(h)']_varsConfiance
  <2>1. SUFFICES ASSUME IInvConfiance, NextConfiance, NEW h \in Hotes, oubli.par = AucunOnglet
                 PROVE  ClesDans(known, h) \subseteq ClesDans(known', h)
    BY DEF Enregistrees
  <2>2. CASE known' = known
    BY <2>2
  <2>3. CASE known' # known
    <3>1. PICK o \in Onglets : Apprendre(o) \/ OublierEcrire(o)
      BY <2>1, <2>3 DEF NextConfiance, Connecter, LireMarques, LireCles, RendreVerdict, Suivre, Rapporter,
            Repondre, OublierLire, Reinstaller
    <3>2. ~OublierEcrire(o)
      BY <2>1 DEF OublierEcrire, ConfianceAssumption
    <3>3. known' = Append(known, [genre |-> "cle", hote |-> Hote(o), cle |-> cx[o].presentee])
      BY <2>3, <3>1, <3>2 DEF Apprendre
    <3>4. known \in Seq(Lignes) /\ Hote(o) \in Hotes /\ cx[o].presentee \in Cles
      BY <2>1, ChaineOnglet DEF IInvConfiance, TypesConfiance, Connexion, Hote
    <3>5. PICK t, g, k : t = known' /\ g = Hote(o) /\ k = cx[o].presentee
      OBVIOUS
    <3>6. t = Append(known, LigneCle(g, k)) /\ g \in Hotes /\ k \in Cles /\ known \in Seq(Lignes)
      BY <3>3, <3>4, <3>5 DEF LigneCle
    <3>7. /\ ClesDans(t, g) = ClesDans(known, g) \cup {k}
          /\ \A x \in Hotes : x # g => ClesDans(t, x) = ClesDans(known, x)
      BY <3>6, AjoutLigne
    <3>8. QED BY <3>5, <3>7
  <2>4. QED BY <2>2, <2>3
<1>2. QED BY <1>1, ConfianceInvariante, PTL DEF SpecConfiance, ClesGardees
=============================================================================
