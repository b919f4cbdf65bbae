------------------------------ MODULE Surfaces ------------------------------
(***************************************************************************)
(* The graphics channel of a remote desktop (rdp-sidecar/src/egfx.rs,      *)
(* surface.rs, progressif.rs): the surfaces the server creates, fills,     *)
(* copies and caches, the progressive tiles it refines, and what of them   *)
(* is published to the session loop, which paints the image.               *)
(*                                                                         *)
(* A step is one PDU.  Peindre closes the segment: the loop takes what the *)
(* segment published.  A surface, and the image, is a row of cells (a tile *)
(* of the codec is a cell) and a cell costs one octet; a pixel is a number,*)
(* for a tile the sum of the differences received.  The decoding of a      *)
(* codec is abstracted to whether it succeeds.                             *)
(***************************************************************************)
EXTENDS Integers, Sequences, FiniteSets, SequencesExt, FiniteSetsExt

CONSTANTS
  Ids, Cases,            \* surface identifiers, slots of the cache
  Largeurs,              \* widths the server announces
  Listes,                \* zones <<x, width>> the server names in one command
  Flux,                  \* tiles <<x, kind, difference, readable>> of one stream
  Origines,              \* where a surface is mapped
  TAILLE_MAX, SURFACES_MAX, OCTETS_SURFACES_MAX, OCTETS_PUBLIES_MAX, RECTS_MAX,
  EMPLACEMENTS_MAX, OCTETS_MAX,   \* bounds of the cache
  PDUS_MAX,              \* commands of the server (bounds the model)
  Absente                \* no origin, a tile nobody knows

Natures == {"pleine", "ecart", "affinage"}

SurfacesAssumption ==
  /\ {SURFACES_MAX, OCTETS_SURFACES_MAX, OCTETS_PUBLIES_MAX, RECTS_MAX,
      EMPLACEMENTS_MAX, OCTETS_MAX, PDUS_MAX} \subseteq Nat
  /\ TAILLE_MAX \in Nat \ {0}
  /\ IsFiniteSet(Ids) /\ IsFiniteSet(Cases)
  /\ Largeurs \subseteq Nat /\ Origines \subseteq Nat
  /\ Listes \subseteq Seq(Nat \X Nat)
  /\ Flux \subseteq Seq(Nat \X Natures \X Nat \X BOOLEAN)
  /\ Absente \notin Nat

VARIABLES
  surfaces,         \* id -> pixels and states of the tiles; without a pixel: no surface
  octets_surfaces,  \* the account of their memory
  origines,         \* id -> cell of the screen
  cacheSurfaces, octetsCache,    \* slot -> pixels (none: free); the account of its memory
  octets_publies,   \* published in this segment
  trames, taille,   \* what waits for the loop: pieces of image, a new size (0: none)
  image,            \* what the loop paints
  trames_decodees,  \* frames acknowledged
  serveur,          \* id -> tiles: the coefficients the server counts on
  ecrit,            \* history: cells of a surface written since it was created, mapped
                    \*   or reset, and not covered since by another surface
  tronque,          \* history: a piece was over the budget, or a stream broke after a tile
  pdus              \* commands so far

tableVars == <<surfaces, octets_surfaces, origines>>
cacheVars == <<cacheSurfaces, octetsCache>>
sortieVars == <<octets_publies, trames, taille, tronque>>
varsSurfaces == <<tableVars, cacheVars, sortieVars, image, trames_decodees, serveur, ecrit, pdus>>

-----------------------------------------------------------------------------
Neant == [pixels |-> << >>, tuiles |-> << >>]
Largeur(i) == Len(surfaces[i].pixels)
Vivantes == {i \in Ids : Largeur(i) > 0}
Poids(i) == Largeur(i)     \* octets_surface
Origine(i) == IF origines[i] = Absente THEN 0 ELSE origines[i]

Tuiles(t, x) == IF x \in DOMAIN t THEN t[x] ELSE 0
Avec(t, x, v) == [y \in DOMAIN t \cup {x} |-> IF y = x THEN v ELSE t[y]]

TypesSurfaces ==
  /\ \A i \in Ids : /\ surfaces[i].pixels \in Seq(Nat) /\ Largeur(i) <= TAILLE_MAX
                    /\ DOMAIN surfaces[i].tuiles \subseteq 0 .. Largeur(i) - 1
  /\ {octets_surfaces, octetsCache, octets_publies, trames_decodees} \subseteq Nat
  /\ origines \in [Ids -> Origines \cup {Absente}]
  /\ cacheSurfaces \in [Cases -> Seq(Nat)]
  /\ trames \in Seq([x : Nat, pixels : Seq(Nat)])
  /\ taille \in 0 .. TAILLE_MAX /\ image \in Seq(Nat) /\ tronque \in BOOLEAN
  /\ ecrit \in [Ids -> SUBSET Nat] /\ pdus \in 0 .. PDUS_MAX

InitSurfaces ==
  /\ surfaces = [i \in Ids |-> Neant] /\ octets_surfaces = 0
  /\ origines = [i \in Ids |-> Absente]
  /\ cacheSurfaces = [c \in Cases |-> << >>] /\ octetsCache = 0
  /\ octets_publies = 0 /\ trames = << >> /\ taille = 0 /\ tronque = FALSE
  /\ image = [p \in 1 .. TAILLE_MAX |-> 0]
  /\ trames_decodees = 0
  /\ serveur = [i \in Ids |-> << >>]
  /\ ecrit = [i \in Ids |-> {}]
  /\ pdus = 0

Pdu == pdus < PDUS_MAX /\ pdus' = pdus + 1

-----------------------------------------------------------------------------
(* Zones.                                                                  *)

\* Zone::rognee: the cells of the zone that lie in a row of that width.
Rognee(z, l) == {p \in 0 .. l - 1 : z[1] <= p /\ p < z[1] + z[2]}

Couvertes(zones, l) == UNION {Rognee(zones[k], l) : k \in DOMAIN zones}

\* Surface::extraire
Extraire(pixels, z) == [k \in 1 .. Cardinality(Rognee(z, Len(pixels))) |-> pixels[z[1] + k]]

\* Surface::ecrire: pixels that start at x, clipped to the row.
EcrireZone(pixels, x, morceau) ==
  [p \in DOMAIN pixels |-> IF p - x \in DOMAIN morceau THEN morceau[p - x] ELSE pixels[p]]

\* Surface::remplir, of every zone
Remplir(pixels, zones, couleur) ==
  [p \in DOMAIN pixels |-> IF p - 1 \in Couvertes(zones, Len(pixels)) THEN couleur ELSE pixels[p]]

\* A slip: the box takes the width of the widest zone.
Boite_Large(zones) ==
  <<Min({zones[k][1] : k \in DOMAIN zones}), Max({zones[k][2] : k \in DOMAIN zones})>>

\* boite_englobante
Boite(zones) ==
  LET x0 == Min({zones[k][1] : k \in DOMAIN zones})
  IN <<x0, Max({zones[k][1] + zones[k][2] : k \in DOMAIN zones}) - x0>>

\* publier: one piece is read back from the surface, at its place on the screen, as
\* long as the budget of the segment is not spent.
Publie(i, pixels, s, z) ==
  LET m == Extraire(pixels, z) IN
  IF s.publies >= OCTETS_PUBLIES_MAX THEN [s EXCEPT !.tronque = TRUE]
  ELSE IF m = << >> THEN s
  ELSE [s EXCEPT !.publies = @ + Len(m),
                 !.trames = Append(@, [x |-> Origine(i) + z[1], pixels |-> m])]

\* Too many zones are published as one, their box.
Publiees(zones) == IF Len(zones) > RECTS_MAX THEN <<Boite(zones)>> ELSE zones

Publication(i, pixels, s, zones) == FoldLeft(LAMBDA e, z : Publie(i, pixels, e, z), s, zones)

Publier(i, pixels, zones) ==
  LET fin == Publication(i, pixels,
                         [publies |-> octets_publies, trames |-> trames, tronque |-> tronque],
                         Publiees(zones))
  IN /\ octets_publies' = fin.publies
     /\ trames' = fin.trames
     /\ tronque' = fin.tronque
     /\ UNCHANGED taille

\* Cells of a surface were written: what others showed where it was published is covered.
NoterEcrit(i, ecrites, publiees) ==
  ecrit' = [j \in Ids |->
              IF j = i THEN ecrit[i] \cup ecrites
              ELSE {p \in ecrit[j] : Origine(j) + p - Origine(i) \notin publiees}]

\* The zones that touch the surface.
Touchees(zones, l) ==
  FoldLeft(LAMBDA s, z : IF Rognee(z, l) = {} THEN s ELSE Append(s, z), << >>, zones)

\* A surface takes new pixels in these zones, and they are published.
Dessiner(i, pixels, zones) ==
  LET ici == Touchees(zones, Len(pixels)) IN
  /\ surfaces' = [surfaces EXCEPT ![i].pixels = pixels]
  /\ Publier(i, pixels, ici)
  /\ NoterEcrit(i, Couvertes(zones, Len(pixels)), Couvertes(Publiees(ici), Len(pixels)))

-----------------------------------------------------------------------------
(* The life of a surface.                                                  *)

Creable(i, l) ==
  /\ l \in 1 .. TAILLE_MAX
  /\ i \in Vivantes \/ Cardinality(Vivantes) < SURFACES_MAX
  /\ octets_surfaces - Poids(i) + l <= OCTETS_SURFACES_MAX

\* A slip: the surface replaced is still counted.
CreateSurface_Brut(i, l) ==
  /\ Pdu
  /\ IF Creable(i, l)
     THEN /\ surfaces' = [surfaces EXCEPT
                ![i] = [pixels |-> [p \in 1 .. l |-> 0], tuiles |-> << >>]]
          /\ octets_surfaces' = octets_surfaces + l
          /\ serveur' = [serveur EXCEPT ![i] = << >>]
          /\ ecrit' = [ecrit EXCEPT ![i] = {}]
     ELSE UNCHANGED <<surfaces, octets_surfaces, serveur, ecrit>>
  /\ UNCHANGED <<origines, cacheVars, sortieVars, image, trames_decodees>>

CreateSurface(i, l) ==
  /\ Pdu
  /\ IF Creable(i, l)
     THEN /\ surfaces' = [surfaces EXCEPT
                ![i] = [pixels |-> [p \in 1 .. l |-> 0], tuiles |-> << >>]]
          /\ octets_surfaces' = octets_surfaces - Poids(i) + l
          /\ serveur' = [serveur EXCEPT ![i] = << >>]
          /\ ecrit' = [ecrit EXCEPT ![i] = {}]
     ELSE UNCHANGED <<surfaces, octets_surfaces, serveur, ecrit>>
  /\ UNCHANGED <<origines, cacheVars, sortieVars, image, trames_decodees>>

DeleteSurface(i) ==
  /\ Pdu
  /\ surfaces' = [surfaces EXCEPT ![i] = Neant]
  /\ octets_surfaces' = octets_surfaces - Poids(i)
  /\ origines' = [origines EXCEPT ![i] = Absente]
  /\ serveur' = [serveur EXCEPT ![i] = << >>]
  /\ ecrit' = [ecrit EXCEPT ![i] = {}]
  /\ UNCHANGED <<cacheVars, sortieVars, image, trames_decodees>>

\* Nothing is painted by the mapping itself.
MapSurfaceToOutput(i, x) ==
  /\ Pdu
  /\ origines' = [origines EXCEPT ![i] = x]
  /\ ecrit' = [ecrit EXCEPT ![i] = {}]
  /\ UNCHANGED <<surfaces, octets_surfaces, cacheVars, sortieVars, image, trames_decodees, serveur>>

\* The scene starts again: a size in bounds waits for the loop, no tile has a
\* sequel, the server will draw everything again.
ResetGraphics(l) ==
  /\ Pdu
  /\ taille' = IF l \in 1 .. TAILLE_MAX THEN l ELSE taille
  /\ surfaces' = [i \in Ids |-> [surfaces[i] EXCEPT !.tuiles = << >>]]
  /\ serveur' = [i \in Ids |-> << >>]
  /\ ecrit' = [i \in Ids |-> {}]
  /\ UNCHANGED <<octets_surfaces, origines, cacheVars, octets_publies, trames, tronque, image,
                 trames_decodees>>

-----------------------------------------------------------------------------
(* Drawing.                                                                *)

\* An image of one zone: refused before it is decoded unless it lies in the
\* surface, and dropped when it cannot be decoded.
WireToSurface1(i, z, lisible) ==
  /\ Pdu
  /\ IF i \in Vivantes /\ z[2] > 0 /\ z[1] + z[2] <= Largeur(i) /\ lisible
     THEN Dessiner(i, EcrireZone(surfaces[i].pixels, z[1], [k \in 1 .. z[2] |-> pdus']), <<z>>)
     ELSE UNCHANGED <<surfaces, sortieVars, ecrit>>
  /\ UNCHANGED <<octets_surfaces, origines, cacheVars, image, trames_decodees, serveur>>

SolidFill(i, zones) ==
  /\ Pdu
  /\ IF i \in Vivantes
     THEN Dessiner(i, Remplir(surfaces[i].pixels, zones, pdus'), zones)
     ELSE UNCHANGED <<surfaces, sortieVars, ecrit>>
  /\ UNCHANGED <<octets_surfaces, origines, cacheVars, image, trames_decodees, serveur>>

\* Pixels laid at each point of a list, in order.
Etaler(pixels, morceau, points) ==
  FoldLeft(LAMBDA px, z : EcrireZone(px, z[1], morceau), pixels, points)

Poser(i, morceau, points) ==
  IF i \in Vivantes /\ morceau # << >>
  THEN Dessiner(i, Etaler(surfaces[i].pixels, morceau, points),
                [k \in DOMAIN points |-> <<points[k][1], Len(morceau)>>])
  ELSE UNCHANGED <<surfaces, sortieVars, ecrit>>

SurfaceToSurface(src, dst, z, points) ==
  /\ Pdu
  /\ Poser(dst, Extraire(surfaces[src].pixels, z), points)
  /\ UNCHANGED <<octets_surfaces, origines, cacheVars, image, trames_decodees, serveur>>

CacheToSurface(c, i, points) ==
  /\ Pdu
  /\ Poser(i, cacheSurfaces[c], points)
  /\ UNCHANGED <<octets_surfaces, origines, cacheVars, image, trames_decodees, serveur>>

Pris(c) == Len(cacheSurfaces[c])

\* Cache::deposer: the budget counts the new entry net of the one it replaces.
Deposer(c, m) ==
  IF /\ Pris(c) > 0 \/ Cardinality({d \in Cases : Pris(d) > 0}) < EMPLACEMENTS_MAX
     /\ octetsCache - Pris(c) + Len(m) <= OCTETS_MAX
  THEN cacheSurfaces' = [cacheSurfaces EXCEPT ![c] = m] /\ octetsCache' = octetsCache - Pris(c) + Len(m)
  ELSE UNCHANGED cacheVars

SurfaceToCache(i, c, z) ==
  /\ Pdu
  /\ LET m == Extraire(surfaces[i].pixels, z) IN
       IF m # << >> THEN Deposer(c, m) ELSE UNCHANGED cacheVars
  /\ UNCHANGED <<tableVars, sortieVars, image, trames_decodees, serveur, ecrit>>

\* Cache::oublier
EvictCacheEntry(c) ==
  /\ Pdu
  /\ cacheSurfaces' = [cacheSurfaces EXCEPT ![c] = << >>]
  /\ octetsCache' = octetsCache - Pris(c)
  /\ UNCHANGED <<tableVars, sortieVars, image, trames_decodees, serveur, ecrit>>

-----------------------------------------------------------------------------
(* Progressive tiles.  A tile is <<x, kind, difference, readable>>.         *)

\* reporter: the tile, painted from its coefficients
Reporter(pixels, x, v) == [pixels EXCEPT ![x + 1] = v]

\* One tile on the surface: s.tuiles the states kept, s.pixels, s.zones painted.
\* A tile outside gets no state; a refinement needs one; a difference adds to it.
\* The state exists before the tile is decoded.
Palier(s, t) ==
  LET v == IF t[2] = "pleine" THEN t[3] ELSE Tuiles(s.tuiles, t[1]) + t[3] IN
  IF \/ ~s.bon \/ t[1] >= Len(s.pixels)
     \/ t[2] = "affinage" /\ t[1] \notin DOMAIN s.tuiles
  THEN s
  ELSE IF ~t[4]
  THEN [s EXCEPT !.bon = FALSE, !.tuiles = Avec(@, t[1], Tuiles(@, t[1]))]
  ELSE [s EXCEPT !.tuiles = Avec(@, t[1], v), !.pixels = Reporter(@, t[1], v),
                 !.zones = Append(@, <<t[1], 1>>)]

\* What the server counts on afterwards: the same sums, and nothing for a tile
\* the client could not read or that came after it.
AttenduTuile(s, t) ==
  LET connu == t[1] \in DOMAIN s.tuiles IN
  IF t[1] >= s.largeur THEN s
  ELSE IF ~s.bon \/ ~t[4] THEN [s EXCEPT !.bon = FALSE, !.tuiles = Avec(@, t[1], Absente)]
  ELSE IF t[2] = "pleine" \/ (t[2] = "ecart" /\ ~connu)
  THEN [s EXCEPT !.tuiles = Avec(@, t[1], t[3])]
  ELSE IF connu
  THEN [s EXCEPT !.tuiles = Avec(@, t[1], IF @[t[1]] = Absente THEN Absente ELSE @[t[1]] + t[3])]
  ELSE s

Paliers(s, flux) == FoldLeft(Palier, s, flux)
Attendus(s, flux) == FoldLeft(AttenduTuile, s, flux)

\* decoder_surface: a stream that breaks paints the tiles before it, and none is
\* published.
WireToSurface2(i, flux) ==
  /\ Pdu
  /\ IF i \notin Vivantes THEN UNCHANGED <<surfaces, sortieVars, ecrit, serveur>>
     ELSE LET s == Paliers([tuiles |-> surfaces[i].tuiles, pixels |-> surfaces[i].pixels,
                            zones |-> << >>, bon |-> TRUE], flux)
              a == Attendus([tuiles |-> serveur[i], largeur |-> Largeur(i), bon |-> TRUE], flux)
          IN /\ surfaces' = [surfaces EXCEPT ![i].pixels = s.pixels, ![i].tuiles = s.tuiles]
             /\ serveur' = [serveur EXCEPT ![i] = a.tuiles]
             /\ NoterEcrit(i, Couvertes(s.zones, Largeur(i)), Couvertes(Publiees(s.zones), Largeur(i)))
             /\ IF s.bon THEN Publier(i, s.pixels, s.zones)
                ELSE /\ tronque' = (tronque \/ s.zones # << >>)
                     /\ UNCHANGED <<octets_publies, trames, taille>>
  /\ UNCHANGED <<octets_surfaces, origines, cacheVars, image, trames_decodees>>

\* The old code: the states of the tiles went with the context.
DeleteEncodingContext_Oublie(i) ==
  /\ Pdu
  /\ surfaces' = IF i \in Vivantes THEN [surfaces EXCEPT ![i].tuiles = << >>] ELSE surfaces
  /\ UNCHANGED <<octets_surfaces, origines, cacheVars, sortieVars, image, trames_decodees,
                 serveur, ecrit>>

\* The states of the tiles outlive the context of the codec.
DeleteEncodingContext(i) ==
  /\ Pdu
  /\ UNCHANGED <<tableVars, cacheVars, sortieVars, image, trames_decodees, serveur, ecrit>>

EndFrame ==
  /\ Pdu
  /\ trames_decodees' = trames_decodees + 1
  /\ UNCHANGED <<tableVars, cacheVars, sortieVars, image, serveur, ecrit>>

-----------------------------------------------------------------------------
\* nouvelle_taille, etirer: another size keeps the old image, stretched.
Etirer(im, l) ==
  IF l = 0 \/ l = Len(im) THEN im ELSE [p \in 1 .. l |-> im[(((p - 1) * Len(im)) \div l) + 1]]

Peinte(im, pieces) == FoldLeft(LAMBDA e, t : EcrireZone(e, t.x, t.pixels), im, pieces)

\* The end of the segment, peindre_egfx!: the size first, then the pieces in their
\* order, clipped to the image; one that starts outside is dropped.
Peindre ==
  /\ trames # << >> \/ taille # 0
  /\ image' = Peinte(Etirer(image, taille), trames)
  /\ trames' = << >> /\ taille' = 0 /\ octets_publies' = 0
  /\ UNCHANGED <<tableVars, cacheVars, tronque, trames_decodees, serveur, ecrit, pdus>>

-----------------------------------------------------------------------------
Vie(i) ==
  \/ \E l \in Largeurs : CreateSurface(i, l)
  \/ i \in Vivantes /\ DeleteSurface(i)
  \/ \E x \in Origines : MapSurfaceToOutput(i, x)

Unes == {z \in Listes : Len(z) = 1}

Dessin(i) ==
  \/ \E zones \in Listes : SolidFill(i, zones)
  \/ \E z \in Unes, lisible \in BOOLEAN : WireToSurface1(i, z[1], lisible)
  \/ \E src \in Ids, z \in Unes, points \in Listes : SurfaceToSurface(src, i, z[1], points)
  \/ \E c \in Cases, z \in Unes : SurfaceToCache(i, c, z[1])
  \/ \E c \in Cases, points \in Listes : CacheToSurface(c, i, points)

Progressif(i) == (\E flux \in Flux : WireToSurface2(i, flux)) \/ DeleteEncodingContext(i)

NextSurfaces ==
  \/ \E i \in Ids : Vie(i)
  \/ \E i \in Ids : Dessin(i)
  \/ \E i \in Ids : Progressif(i)
  \/ \E c \in Cases : EvictCacheEntry(c)
  \/ \E l \in Largeurs : ResetGraphics(l)
  \/ EndFrame
  \/ Peindre

SpecSurfaces == InitSurfaces /\ [][NextSurfaces]_varsSurfaces

-----------------------------------------------------------------------------
(* Properties.                                                             *)

\* The two accounts are what the surfaces and the slots weigh, and stay within
\* their budgets, whatever was replaced, refused or given back.
ComptesExacts ==
  /\ octets_surfaces = SumFunction([i \in Ids |-> Poids(i)])
  /\ octetsCache = SumFunction([c \in Cases |-> Pris(c)])
  /\ octets_surfaces <= OCTETS_SURFACES_MAX /\ octetsCache <= OCTETS_MAX
  /\ Cardinality(Vivantes) <= SURFACES_MAX

\* The state kept for the tiles of a surface is the one the server refines: it
\* outlives the context of the codec, and nothing is left of a former surface.
TuilesFideles ==
  \A i \in Vivantes :
    /\ DOMAIN surfaces[i].tuiles \subseteq DOMAIN serveur[i]
    /\ \A x \in DOMAIN serveur[i] :
         serveur[i][x] # Absente => x \in DOMAIN surfaces[i].tuiles
                                    /\ surfaces[i].tuiles[x] = serveur[i][x]

\* Once the loop has taken everything, the image shows what was written on the
\* surfaces, at the place they are mapped to.
EcranSuit ==
  trames = << >> /\ taille = 0 =>
    \A i \in Vivantes : \A p \in ecrit[i] :
      Origine(i) + p < Len(image) => image[Origine(i) + p + 1] = surfaces[i].pixels[p + 1]

\* ... as long as no piece was over the budget and no stream broke half-way.
EcranFidele == ~tronque => EcranSuit

\* The accounts of the surfaces are exact, the tiles are those the server refines, the
\* image shows what was written.
SurfacesTenues == TypesSurfaces /\ ComptesExacts /\ TuilesFideles /\ EcranFidele
=============================================================================
