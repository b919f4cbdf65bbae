-------------------------------- MODULE Envoi ---------------------------------
(***************************************************************************)
(* The upload of a file, and its resumption (upload_reprise, plan_envoi,   *)
(* upload_with and the map of crates/avash/src/sftp.rs).  The file is a    *)
(* sequence of blocks, each named by the version of the file it comes      *)
(* from; the writes are pipelined, so what was written may not have        *)
(* reached the server when the connection or the application goes.  One    *)
(* map lies beside the local file, whatever the targets it is sent to; it  *)
(* names the path of the target, not its host.                             *)
(***************************************************************************)
EXTENDS Naturals, Sequences, SequencesExt

CONSTANTS
  Envois,        \* sends that may run at once
  Cibles,        \* targets: a host and a path
  Tailles,       \* sizes the local file may have, in blocks
  PETIT,         \* up to this size, sent in one go (2 * CHUNK)
  POINT,         \* blocks between two checkpoints (POINT_DE_CONTROLE)
  EN_VOL,        \* writes the library keeps in flight
  AutruiCree,    \* may others create a file at a target?
  VERSIONS_MAX, ENVOIS_MAX, GESTES_MAX  \* bounds

VARIABLES
  local,    \* the local file: its version (and date), its size
  carte,    \* the map beside it
  distant,  \* the remote files: the version of each block, 0 for a hole
  env,      \* the sends
  compte    \* sends begun, gestures of the others

vars == <<local, carte, distant, env, compte>>

Chemin(c) == c[2]
Chemins == {Chemin(c) : c \in Cibles}
Absent == <<VERSIONS_MAX + 2>>
Sans == [chemin |-> "aucun", version |-> 0, taille |-> 0, fin |-> 0]
Repos == [etat |-> "repos", cible |-> CHOOSE c \in Cibles : TRUE, refuser |-> FALSE, version |-> 0, taille |-> 0,
          fait |-> 0, point |-> 0, vol |-> <<>>, annule |-> FALSE]

Clos(etat) == [Repos EXCEPT !.etat = etat]
Contenu(v, n) == [i \in 1 .. n |-> v]
EnCours(e) == env[e].etat \in {"plan", "ouvre", "envoie", "court"}
Long(s) == s.taille > PETIT

TypeOK ==
  /\ local.version \in 1 .. VERSIONS_MAX /\ local.taille \in Tailles
  /\ carte.fin \in Nat /\ carte.chemin \in Chemins \cup {"aucun"}
  /\ \A c \in Cibles : distant[c] = Absent \/ distant[c] \in Seq(0 .. VERSIONS_MAX + 1)
  /\ \A e \in Envois : env[e].etat \in {"repos", "plan", "ouvre", "envoie", "court",
                                        "fini", "refuse", "annule", "rompu"}

Init ==
  /\ \E n \in Tailles : local = [version |-> 1, taille |-> n]
  /\ carte = Sans
  /\ distant = [c \in Cibles |-> Absent]
  /\ env = [e \in Envois |-> Repos]
  /\ compte = [envois |-> 0, gestes |-> 0]

Devient(e, s) == env' = [env EXCEPT ![e] = s]

-----------------------------------------------------------------------------
(* The remote file, as the writes reach it. *)

\* A write at block p + 1, past the end if the file was cut meanwhile.
EcritA(f, p, v) ==
  [i \in 1 .. (IF p + 1 > Len(f) THEN p + 1 ELSE Len(f)) |->
     IF i = p + 1 THEN v ELSE IF i <= Len(f) THEN f[i] ELSE 0]

\* The first n writes in flight of send s have reached the server.
Apres(s, n) ==
  LET debut == s.fait - Len(s.vol)
      f[k \in 0 .. n] == IF k = 0 THEN distant[s.cible] ELSE EcritA(f[k - 1], debut + k - 1, s.vol[k])
  IN f[n]
Arrive(s, n) == distant' = [distant EXCEPT ![s.cible] = Apres(s, n)]
Vide(s) == Arrive(s, Len(s.vol))

\* ecrire: a map that cannot be written is said in the journal, no more.
Noter(s) ==
  \/ carte' = [chemin |-> Chemin(s.cible), version |-> s.version, taille |-> s.taille, fin |-> s.fait]
  \/ UNCHANGED carte

-----------------------------------------------------------------------------
(* upload_reprise, step by step. *)

\* The attributes of the local file.  Two sends to one target at once write
\* over each other whatever the map says: they are left out.
Lancer(e, c, refuser) ==
  /\ ~EnCours(e) /\ compte.envois < ENVOIS_MAX
  /\ \A f \in Envois : EnCours(f) => env[f].cible # c
  /\ Devient(e, [Repos EXCEPT !.etat = "plan", !.cible = c, !.refuser = refuser,
                              !.version = local.version, !.taille = local.taille])
  /\ compte' = [compte EXCEPT !.envois = @ + 1]
  /\ UNCHANGED <<local, carte, distant>>

\* plan_envoi: the map is worth something for this size, this date and this
\* target, when the remote file still has as many blocks; a file that is
\* there is refused unless the map allows a resumption.
Reprend(c, s, vise) ==
  LET long == IF distant[c] = Absent THEN 0 ELSE Len(distant[c])
  IN IF /\ carte # Sans /\ carte.version = s.version /\ carte.taille = s.taille
        /\ vise => carte.chemin = Chemin(c)
        /\ carte.fin <= long /\ carte.fin < s.taille
     THEN carte.fin ELSE 0
Plan(e, vise) ==
  LET s == env[e]
      deja == Reprend(s.cible, s, vise)
  IN /\ s.etat = "plan"
     /\ Devient(e, IF s.refuser /\ deja = 0 /\ distant[s.cible] # Absent
                   THEN Clos("refuse")
                   ELSE [s EXCEPT !.etat = "ouvre", !.refuser = FALSE, !.fait = deja, !.point = deja])
     /\ UNCHANGED <<local, carte, distant, compte>>
PlanEnvoi_SansCible(e) == Plan(e, FALSE)
PlanEnvoi(e) == Plan(e, TRUE)

\* The remote file is opened where it stops, or created, which empties it; a
\* short one is not, when the cancellation is there already.
Ouvrir(e) ==
  LET s == env[e] IN
  /\ s.etat = "ouvre" /\ (Long(s) \/ ~s.annule)
  /\ IF Long(s) /\ s.fait > 0
     THEN /\ distant[s.cible] # Absent
          /\ Devient(e, [s EXCEPT !.etat = "envoie"]) /\ UNCHANGED distant
     ELSE /\ distant' = [distant EXCEPT ![s.cible] = <<>>]
          /\ Devient(e, IF Long(s) THEN [s EXCEPT !.etat = "envoie"]
                        ELSE [s EXCEPT !.etat = "court", !.fait = 0, !.taille = local.taille])
  /\ UNCHANGED <<local, carte, compte>>

\* A block is read and written; at a checkpoint, what is in flight is emptied
\* first, and the map says it.
Bloc(s) == [s EXCEPT !.fait = @ + 1, !.vol = Append(@, local.version)]
Ecrire_SansVidage(e) ==
  LET s == Bloc(env[e]) IN
  /\ env[e].etat = "envoie" /\ ~s.annule /\ s.fait <= local.taille /\ Len(s.vol) <= EN_VOL
  /\ IF s.fait - s.point >= POINT
     THEN Noter(s) /\ Devient(e, [s EXCEPT !.point = s.fait]) /\ UNCHANGED distant
     ELSE Devient(e, s) /\ UNCHANGED <<carte, distant>>
  /\ UNCHANGED <<local, compte>>
Ecrire(e) ==
  LET s == Bloc(env[e]) IN
  /\ env[e].etat = "envoie" /\ ~s.annule /\ s.fait <= local.taille /\ Len(s.vol) <= EN_VOL
  /\ IF s.fait - s.point >= POINT
     THEN Vide(s) /\ Noter(s) /\ Devient(e, [s EXCEPT !.point = s.fait, !.vol = <<>>])
     ELSE Devient(e, s) /\ UNCHANGED <<carte, distant>>
  /\ UNCHANGED <<local, compte>>

\* upload_with: no map, and no cancellation once it is begun.
EcrireCourt(e) ==
  LET s == Bloc(env[e]) IN
  /\ env[e].etat = "court" /\ s.fait <= local.taille /\ Len(s.vol) <= EN_VOL
  /\ Devient(e, s)
  /\ UNCHANGED <<local, carte, distant, compte>>

\* The server has taken a write.
Prendre(e) ==
  LET s == env[e] IN
  /\ s.vol # <<>>
  /\ Arrive(s, 1) /\ Devient(e, [s EXCEPT !.vol = Tail(@)])
  /\ UNCHANGED <<local, carte, compte>>

\* The end of the local file: closed there, and complete or said not to be.
\* The map goes, whichever target it names.
Terminer(e) ==
  LET s == env[e]
      complet == IF s.etat = "envoie" THEN s.fait = s.taille ELSE s.fait >= s.taille
  IN /\ s.etat \in {"envoie", "court"} /\ s.fait >= local.taille
     /\ s.etat = "envoie" => ~s.annule
     /\ Vide(s)
     /\ Devient(e, Clos(IF complet THEN "fini" ELSE "rompu"))
     /\ carte' = IF complet /\ s.etat = "envoie" THEN Sans ELSE carte
     /\ UNCHANGED <<local, compte>>

\* sftp_annuler (read from the opening on), and the loop that sees it: what left is emptied and noted, if
\* the server still answers.
Annuler(e) ==
  /\ env[e].etat \in {"ouvre", "envoie"} /\ ~env[e].annule
  /\ Devient(e, [env[e] EXCEPT !.annule = TRUE])
  /\ UNCHANGED <<local, carte, distant, compte>>
Arreter(e) ==
  LET s == env[e] IN
  /\ s.annule
  /\ \/ s.etat = "envoie" /\ Vide(s) /\ Noter(s)
     \/ s.etat = "ouvre" /\ ~Long(s) /\ UNCHANGED <<distant, carte>>
  /\ Devient(e, Clos("annule"))
  /\ UNCHANGED <<local, compte>>

\* The connection breaks, or any step fails: a part of the writes arrived.
Rompre(e) ==
  LET s == env[e] IN
  /\ EnCours(e)
  /\ Devient(e, Clos("rompu"))
  /\ IF s.vol = <<>> THEN UNCHANGED distant ELSE \E n \in 0 .. Len(s.vol) : Arrive(s, n)
  /\ UNCHANGED <<local, carte, compte>>

\* The application is killed: nothing is in flight any more, on any target.
Mourir ==
  /\ \E e \in Envois : EnCours(e)
  /\ env' = [e \in Envois |-> IF EnCours(e) THEN Clos("rompu") ELSE env[e]]
  /\ UNCHANGED <<local, carte, distant, compte>>

-----------------------------------------------------------------------------
(* The user changes the file; others cut or remove the remote ones, or, if    *)
(* AutruiCree, put one of theirs.  They leave alone what is being sent.       *)

ModifierLocal ==
  /\ local.version < VERSIONS_MAX
  /\ \E n \in Tailles : local' = [version |-> local.version + 1, taille |-> n]
  /\ UNCHANGED <<carte, distant, env, compte>>

Autrui(c) ==
  /\ compte.gestes < GESTES_MAX /\ compte' = [compte EXCEPT !.gestes = @ + 1]
  /\ \A e \in Envois : EnCours(e) => env[e].cible # c
  /\ \/ /\ distant[c] # Absent
        /\ \/ distant' = [distant EXCEPT ![c] = Absent]
           \/ \E n \in 0 .. Len(distant[c]) - 1 : distant' = [distant EXCEPT ![c] = SubSeq(@, 1, n)]
     \/ /\ AutruiCree
        /\ \E n \in Tailles : distant' = [distant EXCEPT ![c] = Contenu(VERSIONS_MAX + 1, n)]
  /\ UNCHANGED <<local, carte, env>>

Next ==
  \/ \E e \in Envois :
       \/ \E c \in Cibles, refuser \in BOOLEAN : Lancer(e, c, refuser)
       \/ PlanEnvoi(e) \/ Ouvrir(e) \/ Ecrire(e) \/ EcrireCourt(e) \/ Prendre(e)
       \/ Terminer(e) \/ Annuler(e) \/ Arreter(e) \/ Rompre(e)
  \/ Mourir \/ ModifierLocal
  \/ \E c \in Cibles : Autrui(c)

Spec == Init /\ [][Next]_vars

-----------------------------------------------------------------------------
(* Properties. *)

\* A send that ends well leaves the local file at its target, block for block,
\* resumed or not, whatever the cuts, the crashes, the other targets and the
\* changes of the file before it (the local file did not change during it).
EnvoiFidele ==
  [][\A e \in Envois : env'[e].etat = "fini" /\ env[e].etat # "fini" /\ env[e].version = local.version
       => distant'[env[e].cible] = Contenu(local.version, local.taille)]_vars

\* What the map says of the file as it is now, the server has: no more is
\* skipped at a resumption than what arrived (others may have cut it since).
CarteVraie ==
  (carte # Sans /\ carte.version = local.version /\ carte.fin < carte.taille /\ compte.gestes = 0)
  => \E c \in Cibles :
       /\ Chemin(c) = carte.chemin /\ distant[c] # Absent /\ Len(distant[c]) >= carte.fin
       /\ SubSeq(distant[c], 1, carte.fin) = Contenu(carte.version, carte.fin)

\* A file half sent is resumed: the next send of the same file is not refused
\* for the half that the previous one left.
RepriseAcceptee ==
  [][\A e \in Envois : env'[e].etat = "refuse" /\ env[e].etat = "plan" /\ env[e].version = local.version
       => ~IsStrictPrefix(distant[env[e].cible], Contenu(local.version, local.taille))]_vars
===============================================================================
