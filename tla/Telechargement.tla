--------------------------- MODULE Telechargement ---------------------------
(***************************************************************************)
(* A download that resumes where it stopped                                *)
(* (SftpHandle::download_reprise, crates/avash/src/sftp.rs): the remote    *)
(* file is cut in bands read in parallel into `<local>.part`, the card     *)
(* `<local>.part.reprise` lists the bands that are complete, and the whole *)
(* file is renamed to its target.  Runs are cancelled, fail, are killed,   *)
(* and the power may go at any moment.                                     *)
(*                                                                         *)
(* A byte of the remote file is the number of the version that has it, so  *)
(* that the bytes of a mixture can be told apart; a byte never written is  *)
(* Trou.  CHUNK counts in the same unit.  The `.part` is what the system   *)
(* shows (`cache`) and what the disk holds (`disque`): they meet at        *)
(* sync_data.  The card is written with ecrire_atomiquement and is whole   *)
(* and durable.                                                            *)
(***************************************************************************)
EXTENDS Naturals, Sequences, FiniteSetsExt

CONSTANTS
  CHUNK,            \* size of a block
  BANDES_MAX,       \* most bands of a file
  Tailles,          \* sizes the remote file may have
  MaxVersions,      \* versions of the remote file (bounds the model)
  MaxLancements,    \* runs of the download (bounds the model)
  MaxSuppressions,  \* times the user deletes the `.part` (bounds the model)
  Rien              \* no file

Cartes == [taille : Nat, mtime : Nat, faites : SUBSET (Nat \X Nat)]

ASSUME TelechargementAssumption ==
  /\ CHUNK \in Nat \ {0}
  /\ BANDES_MAX \in Nat \ {0}
  /\ Tailles \subseteq Nat \ {0}
  /\ MaxVersions \in Nat \ {0} /\ MaxLancements \in Nat /\ MaxSuppressions \in Nat
  /\ Rien \notin Seq(Nat) /\ Rien \notin Cartes

VARIABLES
  distant,      \* the remote file: its version, which stands for its date, and its size
  cache,        \* the `.part` as the system shows it
  disque,       \* the `.part` as the disk holds it
  carte,        \* the card
  etape,        \* where the run stands
  reprise,      \* the run's copy of the card: size, date, complete bands
  deja,         \* bytes the run did not ask for again (deja_fait)
  bande,        \* the bands asked for: bytes received and state
  intact,       \* history: the remote file has not changed since the run read its metadata
  lancements, suppressions  \* counts (bound the model)

partVars == <<cache, disque>>
runVars == <<etape, reprise, deja, bande>>
compteurs == <<lancements, suppressions>>
vars == <<distant, partVars, carte, runVars, intact, compteurs>>

-----------------------------------------------------------------------------
Trou == 0

Versions == 1 .. MaxVersions

Plafond(x, n) == (x + n - 1) \div n   \* div_ceil

AuMoins(x, y) == IF x < y THEN y ELSE x

AuPlus(x, y) == IF x < y THEN x ELSE y

\* bandes: the intervals [debut, fin) of a file of `total` bytes.
Bandes(total) ==
  LET n == AuMoins(1, AuPlus(total \div CHUNK, BANDES_MAX))
      taille == Plafond(total, n)
  IN  {b \in {<<i * taille, AuPlus((i + 1) * taille, total)>> : i \in 0 .. n - 1} : b[1] < b[2]}

Longueur(b) == b[2] - b[1]

\* Is the file read in bands?  Under two blocks it is read in one go.
EnBandes(total) == total > 2 * CHUNK

\* A file after the write of n bytes x at offset d: a write past the end leaves a hole.
Ecrire(f, d, n, x) ==
  [k \in 1 .. AuMoins(Len(f), d + n) |->
     IF k \in d + 1 .. d + n THEN x ELSE IF k <= Len(f) THEN f[k] ELSE Trou]

\* vaut_pour.
VautPour(c, f) == c # Rien /\ c.taille = f.taille /\ c.mtime = f.version

PlusGrandeFin(faites) == Max({0} \cup {b[2] : b \in faites})

PartAssezLong(faites) == cache # Rien /\ Len(cache) >= PlusGrandeFin(faites)

Aucune == [taille |-> 0, mtime |-> 0, faites |-> {}]

EtatsBande == {"lit", "finie", "notee", "courte", "arretee"}

Fichiers == {Rien} \cup Seq(Versions \cup {Trou})

TypeOK ==
  /\ distant \in [version : Versions, taille : Tailles]
  /\ cache \in Fichiers /\ disque \in Fichiers
  /\ (cache = Rien) = (disque = Rien)
  /\ carte \in Cartes \cup {Rien} /\ reprise \in Cartes
  /\ etape \in {"repos", "bandes", "suite", "complet"}
  /\ deja \in Nat
  /\ bande \in [DOMAIN bande -> [recu : Nat, etat : EtatsBande]]
  /\ DOMAIN bande \subseteq Bandes(reprise.taille)
  /\ intact \in BOOLEAN
  /\ lancements \in 0 .. MaxLancements /\ suppressions \in 0 .. MaxSuppressions

Init ==
  /\ distant \in [version : {1}, taille : Tailles]
  /\ cache = Rien /\ disque = Rien
  /\ carte = Rien
  /\ etape = "repos" /\ reprise = Aucune /\ deja = 0 /\ bande = << >>
  /\ intact = TRUE
  /\ lancements = 0 /\ suppressions = 0

-----------------------------------------------------------------------------
(* The world around.                                                       *)

\* The remote file is rewritten in place, under another date.
Modifier(t) ==
  /\ distant.version < MaxVersions
  /\ distant' = [version |-> distant.version + 1, taille |-> t]
  /\ intact' = FALSE
  /\ UNCHANGED <<partVars, carte, runVars, compteurs>>

\* The user deletes a `.part` that no run is writing.
Supprimer ==
  /\ suppressions < MaxSuppressions
  /\ etape = "repos" /\ cache # Rien
  /\ cache' = Rien /\ disque' = Rien
  /\ suppressions' = suppressions + 1
  /\ UNCHANGED <<distant, carte, runVars, intact, lancements>>

\* The run is over, with or without an answer: its memory goes.
Finir ==
  /\ etape' = "repos" /\ reprise' = Aucune /\ deja' = 0 /\ bande' = << >>
  /\ UNCHANGED <<distant, intact, compteurs>>

\* The application is killed.
Tuer ==
  /\ etape # "repos"
  /\ Finir
  /\ UNCHANGED <<partVars, carte>>

\* The power goes: of what was not synchronised, any part is on the disk.
Couper ==
  /\ cache # disque
  /\ \E n \in {Len(cache), Len(disque)} : \E S \in SUBSET (1 .. n) :
       LET f == [k \in 1 .. n |->
                   IF k \in S /\ k <= Len(cache) THEN cache[k]
                   ELSE IF k <= Len(disque) THEN disque[k] ELSE Trou]
       IN  cache' = f /\ disque' = f
  /\ Finir
  /\ UNCHANGED carte

-----------------------------------------------------------------------------
(* download_reprise.                                                       *)

\* A slip: the run starts from the card and forgets what it lists.
BandesFaites_Oubliees == {}

\* A slip: the card is believed whatever the size and the date.
BandesFaites_SansDate == IF carte # Rien /\ PartAssezLong(carte.faites) THEN carte.faites ELSE {}

\* The bands that are not asked for again: the card is for this file, the
\* `.part` is there and long enough for them.
BandesFaites ==
  IF VautPour(carte, distant) /\ PartAssezLong(carte.faites) THEN carte.faites ELSE {}

\* File::create, which truncates.
Creer == cache' = << >> /\ disque' = IF disque = Rien THEN << >> ELSE disque

Lancer ==
  /\ etape = "repos" /\ lancements < MaxLancements
  /\ lancements' = lancements + 1
  /\ intact' = TRUE
  /\ LET faites == IF EnBandes(distant.taille) THEN BandesFaites ELSE {}
     IN  /\ reprise' = [taille |-> distant.taille, mtime |-> distant.version, faites |-> faites]
         /\ deja' = MapThenSumSet(Longueur, faites)
         /\ IF faites = {} THEN Creer ELSE UNCHANGED partVars
         /\ IF EnBandes(distant.taille)
            THEN /\ etape' = "bandes"
                 /\ bande' = [b \in Bandes(distant.taille) \ faites |-> [recu |-> 0, etat |-> "lit"]]
            ELSE etape' = "suite" /\ bande' = << >>
  /\ UNCHANGED <<distant, carte, suppressions>>

\* The band is being read; it has received `recu` bytes.
Lit(b) == etape = "bandes" /\ b \in DOMAIN bande /\ bande[b].etat = "lit"

Reste(b) == Longueur(b) - bande[b].recu

Devenir(b, e) == bande' = [bande EXCEPT ![b].etat = e]

\* A slip: a block goes past the end of its band.
LireBloc_Deborde(b, n) ==
  /\ Lit(b)
  /\ b[1] + bande[b].recu + n <= distant.taille
  /\ cache' = Ecrire(cache, b[1] + bande[b].recu, n, distant.version)
  /\ bande' = [bande EXCEPT ![b].recu = @ + n]
  /\ UNCHANGED <<distant, disque, carte, etape, reprise, deja, intact, compteurs>>

\* A block of n bytes arrives and is written at its offset.
LireBloc(b, n) ==
  /\ Lit(b)
  /\ n <= AuPlus(CHUNK, Reste(b))
  /\ b[1] + bande[b].recu + n <= distant.taille
  /\ cache' = Ecrire(cache, b[1] + bande[b].recu, n, distant.version)
  /\ bande' = [bande EXCEPT ![b].recu = @ + n]
  /\ UNCHANGED <<distant, disque, carte, etape, reprise, deja, intact, compteurs>>

\* The remote file ends before the band does: no error, no end announced.
FinPrematuree(b) ==
  /\ Lit(b) /\ Reste(b) > 0
  /\ b[1] + bande[b].recu >= distant.taille
  /\ Devenir(b, "courte")
  /\ UNCHANGED <<distant, partVars, carte, etape, reprise, deja, intact, compteurs>>

\* A slip: the band is announced without sync_data.
Synchroniser_Oubli(b) ==
  /\ Lit(b) /\ Reste(b) = 0
  /\ Devenir(b, "finie")
  /\ UNCHANGED <<distant, partVars, carte, etape, reprise, deja, intact, compteurs>>

\* The last byte is written: sync_data, then the end is announced.
Synchroniser(b) ==
  /\ Lit(b) /\ Reste(b) = 0
  /\ disque' = cache
  /\ Devenir(b, "finie")
  /\ UNCHANGED <<distant, cache, carte, etape, reprise, deja, intact, compteurs>>

\* The user cancels, or a read, a write or a sync fails.
Arreter(b) ==
  /\ Lit(b)
  /\ Devenir(b, "arretee")
  /\ UNCHANGED <<distant, partVars, carte, etape, reprise, deja, intact, compteurs>>

\* The task that holds the progress notes the band; the write of the card may
\* fail, which stops nothing.
Noter(b, ecrite) ==
  /\ etape = "bandes" /\ b \in DOMAIN bande /\ bande[b].etat = "finie"
  /\ Devenir(b, "notee")
  /\ reprise' = [reprise EXCEPT !.faites = @ \cup {b}]
  /\ carte' = IF ecrite THEN reprise' ELSE carte
  /\ UNCHANGED <<distant, partVars, etape, deja, intact, compteurs>>

\* Every band has ended and its announcements are read.
Rejointes == \A b \in DOMAIN bande : bande[b].etat \in {"notee", "courte", "arretee"}

Fait == deja + MapThenSumSet(LAMBDA b : bande[b].recu, DOMAIN bande)

\* A slip: the total is not compared.
Terminer_SansEgalite ==
  /\ etape = "bandes" /\ Rejointes
  /\ \A b \in DOMAIN bande : bande[b].etat # "arretee"
  /\ carte' = Rien
  /\ etape' = "complet"
  /\ UNCHANGED <<distant, partVars, reprise, deja, bande, intact, compteurs>>

\* No band failed and the count is right: the card is erased.
Terminer ==
  /\ etape = "bandes" /\ Rejointes
  /\ \A b \in DOMAIN bande : bande[b].etat # "arretee"
  /\ Fait = reprise.taille
  /\ carte' = Rien
  /\ etape' = "complet"
  /\ UNCHANGED <<distant, partVars, reprise, deja, bande, intact, compteurs>>

\* Otherwise the error is returned; the `.part` and the card stay.
Abandonner ==
  /\ etape = "bandes" /\ Rejointes
  /\ Fait # reprise.taille \/ \E b \in DOMAIN bande : bande[b].etat = "arretee"
  /\ Finir
  /\ UNCHANGED <<partVars, carte>>

\* promouvoir_partiel: the `.part` becomes the target.
Promouvoir ==
  /\ etape = "complet"
  /\ cache' = Rien /\ disque' = Rien
  /\ Finir
  /\ UNCHANGED carte

-----------------------------------------------------------------------------
(* telecharger_connu: a small file, read in one go.                        *)

LireSuite(n) ==
  /\ etape = "suite"
  /\ n <= CHUNK
  /\ Len(cache) + n <= distant.taille
  /\ cache' = Ecrire(cache, Len(cache), n, distant.version)
  /\ UNCHANGED <<distant, disque, carte, runVars, intact, compteurs>>

\* The end of the remote file; enough was received.
FinSuite ==
  /\ etape = "suite"
  /\ Len(cache) >= distant.taille /\ Len(cache) >= reprise.taille
  /\ etape' = "complet"
  /\ UNCHANGED <<distant, partVars, carte, reprise, deja, bande, intact, compteurs>>

\* A cancellation, an error, or an end that comes too early: no `.part` stays.
ArreterSuite ==
  /\ etape = "suite"
  /\ cache' = Rien /\ disque' = Rien
  /\ Finir
  /\ UNCHANGED carte

-----------------------------------------------------------------------------
Run(b) ==
  \/ \E n \in 1 .. CHUNK : LireBloc(b, n)
  \/ FinPrematuree(b) \/ Synchroniser(b) \/ Arreter(b)
  \/ \E ecrite \in BOOLEAN : Noter(b, ecrite)

Next ==
  \/ \E t \in Tailles : Modifier(t)
  \/ Supprimer \/ Tuer \/ Couper
  \/ Lancer
  \/ \E b \in DOMAIN bande : Run(b)
  \/ Terminer \/ Abandonner \/ Promouvoir
  \/ \E n \in 1 .. CHUNK : LireSuite(n)
  \/ FinSuite \/ ArreterSuite

Spec == Init /\ [][Next]_vars

-----------------------------------------------------------------------------
(* Properties.                                                             *)

Conforme == cache = [k \in 1 .. distant.taille |-> distant.version]

\* A file about to be promoted is the remote file, byte for byte, whatever
\* happened to the runs before this one, if the remote file did not change
\* during this one.  The exception is a `.part` deleted under its card.
PromuFidele == etape = "complet" /\ intact /\ suppressions = 0 => Conforme

\* The same without the exception: the card goes with its `.part`.
PromuFideleSansPart == etape = "complet" /\ intact => Conforme

\* A file about to be promoted has no hole, even when the remote file grew,
\* shrank or was rewritten during the transfer.
PromuSansTrou ==
  etape = "complet" /\ suppressions = 0 =>
    /\ Len(cache) >= reprise.taille
    /\ \A k \in 1 .. Len(cache) : cache[k] # Trou

\* What a card promises of the remote file as it is, is on the disk: a cut
\* never leaves a card ahead of its `.part`.
CarteTenue ==
  VautPour(carte, distant) /\ cache # Rien /\ suppressions = 0 =>
    \A b \in carte.faites : \A k \in b[1] + 1 .. b[2] :
      k <= Len(disque) /\ disque[k] = distant.version

\* A file about to take its name is the remote one, byte for byte, without a
\* hole, and no card is ahead of its bytes, whatever the cuts, the crashes, the
\* cancellations and the changes of the remote file.
RepriseFidele == TypeOK /\ PromuFidele /\ PromuSansTrou /\ CarteTenue

\* A complete band is not lost: while the remote file stays the same, the card
\* only grows, until the file is promoted.
BandesGardees ==
  [][carte # Rien /\ carte' # Rien /\ carte'.mtime = carte.mtime /\ suppressions = 0
       => carte.faites \subseteq carte'.faites]_vars
=============================================================================
