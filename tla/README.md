# Avash: TLA+ models and proofs

Avash is a desktop client for SSH, SFTP, RDP and VNC. This directory holds TLA+
models of its components, the TLC configurations that check them on small
instances, and TLAPS proofs of the properties that matter most. State, commands
and functions keep the names of the source; an action carries the name of what it
does in French when the code gives it none.

    tlc -config MCSessions_onglets.cfg MCSessions   # one run
    tlapm SessionsPreuves.tla                       # one module of proofs

PROJECT.json maps each definition to the lines it models and lists the runs, the
properties each checks, a fault of the code each property catches, the hazards
of the code, the places where the code and what it says part, and the theorems.

## 1. The system

Four programs talk to each other.

* **The page** (`web/`, TypeScript in a webview): tabs, terminals, panels,
  desktops. Single threaded, but every call to the core is a promise, so its
  handlers interleave between two awaits. A reload loses its state, and numbers of
  tabs start again at 1.
* **The core** (`crates/avash-ui`, Rust, Tauri): commands called by the page,
  each on a thread or a task of its own, sharing *stores* (maps behind mutexes);
  events sent to the page, in order among themselves, unordered with the answers.
* **The library** (`crates/avash`): SSH over russh, SFTP, tunnels, the files of
  the configuration, keys, snippets, imports.
* **The desktop process** (`rdp-sidecar`, one per desktop tab): launched by the
  core, speaks RDP or VNC to the server and a binary WebSocket with the page.

### Components

| Component | State | What is hard | What makes it correct | Modules |
|---|---|---|---|---|
| Terminal tabs, session store | `inner`, `en_cours`, `annules`, the epoch; tabs of the page | openings last seconds, numbers are reused after a reload, three locks | no session without a tab, the end of an old session does not cut a new one | `Sessions` |
| Terminal output, recording | pump, relay, window of unacknowledged messages, decoder, recorder | back-pressure without blocking, lost wake-ups, characters cut in two, a disk that refuses | text faithful, window kept, output always leaves, no hole in a recording | `Sortie` |
| SFTP channel, direct copies | slot of the channel, lock of the session, count of copies | read, await, read again; a lock held for minutes | one channel per session, none leaked, everyone answered | `CanalSftp` |
| Resumable download | `.part`, its card, bands | what the card promises must be on the disk; the remote file changes | the promoted file is the remote file | `Telechargement` |
| Upload and its resumption | the map, the writes in flight, the target | checkpoints, refusals, two hosts, a file that changes | no byte of another version announced as sent | `Envoi` |
| Copies between hosts, folders | names at the target, bands, files in flight | rename that cannot replace; first failure against a cancellation | target whole or untouched; a folder is answered once, with its totals | `Relais`, `EnVol` |
| Transfer queue | lines, places, flags, numbers | cancellation before the flag exists; equal local names; reload | each line ends once and frees its place | `Transferts` |
| SSH tunnels | `inner`, `en_cours`, `annules`, rows and tokens | overlapping starts, a stop while connecting | no tunnel without an owner, none closed twice, rows given back | `Tunnels` |
| Establishment of a connection | links of the chain, passwords, keyring | delays per link, retries of the page, several ways to authenticate | a secret goes to the host it is for, a chain ends whole or leaves nothing | `Etablissement` |
| Commands and the lent agent | the session's lock, commands, relays to the agent | a command that ends while the server joins the agent | the agent is lent while a command runs | `Commande` |
| Forwards of a tunnel | connections, their two directions, counters | half-closes, full buffers, remote forwards before they are known | everything read is carried, an end is passed on | `Acheminement` |
| Trust in host keys | known_hosts, the question of the page | chains, markers, a key forgotten for another host | a changed key is never accepted silently | `Confiance` |
| SSH configuration, atomic writes | `~/.ssh/config` as lines; a file replaced | comments of the user, `Host *`, power cuts | an edit changes what it names; a file is old or new | `ConfigSsh`, `Ecriture` |
| Folders and desktops on disk | three files, commands on threads | read, modify and write of several files | nothing lost, no name twice | `Dossiers` |
| Secrets and keyring | accounts of hosts and desktops | a keyring that refuses half-way | a password follows its host, an edit is whole or not at all | `Secrets` |
| Import from other clients | readings, the list, hosts written one by one | doubles, keys of one name, two imports | every imported host has its own key, the count is true | `Import` |
| Snippets | `snippets.yaml`, the window, bounded channels | read-modify-write on threads; pasted text that executes | what is inserted executes nothing, no open tab left out | `Snippets` |
| SSH keys | `~/.ssh`, `authorized_keys` | two files per pair, a second process, a lost connection | a pair is made once, a line is installed on a line | `Cles` |
| Supervision of the desktop process | `RdpStore`: children, inputs, diagnostics | the keyring is awaited before registration; reload | no process without a tab | `Bureau` |
| Connection of the desktop process | rounds, keys pinned, local listener | fall-backs, redirections, other processes on the same file | passwords go to a pinned key, one client, one end | `ConnexionBureau`, `ProcessusBureau` |
| Pacing of the images | dirty zones, acknowledgement, pause, canvas | late acknowledgements, hidden canvas, change of size | nothing drawn is lost, silent while hidden | `Cadence` |
| VNC desktop | request in flight, pause, clipboard | a request never cleared freezes the screen | the server is asked while shown, and told what the user does | `Vnc` |
| Graphics channel | surfaces, cache, tiles, publication | budgets, broken streams, overlapping boxes | within bounds, and the image is the surface | `Surfaces` |
| Shared drive | handles, the folder, a bounded queue | links, deferred removals, the user at work in the folder | nothing outside the root, a refusal takes nothing away | `Disque` |
| File clipboard | offers, receptions, locks | answers of a former reception, short answers | files whole, the right offer served, nothing overwritten | `Reception`, `PressePapiers` |
| Recording, replay, capture | the file of PDUs, budgets | several processes, a ceiling, changes of size | what is replayed is what was received | `Magnetoscope` |

Partly modelled: the SSH client as a whole (its pump, lock, authentication,
agent, forwards and keys are in the modules above; certificates and the crypto
settings are not), the certificates of desktops (pinning in `ConnexionBureau`), serial
ports (their opening is that of `Sessions`), the desktop view of the page (in
`Cadence`). Not modelled: input and sound of a desktop, health probes, small commands,
dialogues, menus and filters, the command line. Vendored code, test servers,
fuzzing, packaging and documents are outside.

## 2. The modules

One module per component: its state, `Init`, one action per step of the code,
`Next`, `Spec`, then its properties. An MC module instantiates it for TLC where a
cfg alone cannot, a `...Preuves` module holds its proofs. Definitions whose name is that of an action
with a suffix (`Clore_SansEpoque`, `Poser_Ecrase`) are plausible faults of the
code; no specification uses them, they show that a property tells them apart.

**What a step is.** A section under a mutex is one step, and so is what a task
does between two awaits, unless another thread can see its middle. Where the code
nests locks, the lock is a variable (`verrou` of `Sessions`, `file` of
`CanalSftp`). A file that other processes write is read and written in two steps.

### Terminals

* **Sessions.** `ouv[o]` is a call of `pty_open` and then the session it makes,
  `ferm[f]` a call of `pty_close`. `appelee` waits for the keyring, `etablie` and
  `sous_verrou` are the halves of `enregistrer_session`, `vivante` is the relay,
  `Clore` is `clore_session` with its epoch. Answers and `pty-closed` events are
  read by the page in any order, and the event carries only the number. An answer
  is read whenever it comes: the page marks the tab live without looking whose
  answer it is, and OngletVrai excuses the tab that waits for another one then.
* **Sortie.** The pump (`en_attente`, `canal`), the relay (`relais[g]`: its local
  variables, `lit` in `recv`, `attend` in `notified()`), the acknowledgements
  (`PtyAck`, `Notifier`), the page and the recorder. Bytes are known by their
  role: `Push` follows `Utf8Stream::push`, `Lecture` reads the whole stream.
  Time is abstract: a deadline may pass at any moment.
* **Snippets.** A text is a row of signs, with the two marks of a protected paste
  as pairs of signs; the commands read and write the file in two steps. One value
  stands for all the variables of a snippet; name and category are left out.

### SSH

* **Etablissement.** The loop of the page around `pty_open`, the chain of links
  with the delay of each, key, agent, password and keyboard-interactive. No clock:
  a delay may pass at any step of its link.
* **Commande.** Commands under the lock of a session, their ends, the agent lent
  meanwhile. A server answers `channel_open`; the lock of tokio is fair.
* **Acheminement.** A tunnel's connections: each direction with its buffer, the
  select without bias, half-closes, errors, remote forwards asked for before they
  are known, the counters.
* **Tunnels.** `dep[d]` is a click on « démarrer » with its `tunnel_start`,
  `arr[s]` one on « arrêter », « annuler » or « supprimer »; `busy` and
  `ouvertures` are the frozen rows and their tokens.
* **Confiance.** `check_server_key` for each link against the lines of
  known_hosts, the learning, the question about a changed key and what it forgets. A
  second Avash process and edits by hand are left out.
* **ConfigSsh.** Reading, resolution and the four edits, as operations on lines.
  Line ends, quoting and `#Tags` are left out; an edit is one step (its halves on disk
  are in `Dossiers` and `Ecriture`).
* **Cles.** `generate` one file at a time, beside another command or process;
  `list_keys`; the shell command that installs a line, which goes on when the
  connection is lost. Rights and access lists of files are left out.

### Files and stores

* **CanalSftp.** `appel[a]` is a command in `sftp_of`, `copie[c]` a direct copy
  with its count, `file[s]` the fair queue of the session's mutex.
* **Telechargement.** The remote file is a sequence of versions of bytes; `cache`
  and `disque` are what the system shows and what survives a power cut, and meet
  at `sync_data`. RepriseFidele excepts the file whose `.part` the user removed
  while its card stayed (`suppressions`), where the code does promote a hole.
* **Envoi**, **Relais**, **EnVol**, **Transferts.** The upload with its map, the
  copy through the client with its partial, the files in flight of a folder, the
  queue of the page. Two sends to one target at once are left out of `Envoi`.
* **Ecriture.** `ecrire_atomiquement`: calls that overlap, a stop or a power cut
  between any two steps, a disk that refuses; a target that is a file, a link to one,
  a link that leads nowhere yet, or nothing. The sync of the directory is not
  done by the code and not modelled.
* **Dossiers**, **Secrets**, **Import.** Commands on several files or accounts,
  one write at a time, with refusals, stops and repeats. `Secrets` runs one
  command at a time. `Import` takes names as sequences of words; code pages,
  percent escapes and drive letters are left out, and adding a host is one step.
  A list that cannot be read where the code goes on without it (`rdp.yaml` at the
  scan, the configuration before and after an edit) is read empty. A folder may be
  renamed into itself, and a request that failed is made again.

### Desktops

* **Bureau.** `RdpStore`, the opening at each of its awaits, `rdp_close`, the
  diagnostic, the reload, and the process as its parent sees it.
* **ConnexionBureau** is the process from its arguments to its end;
  **ProcessusBureau** what its parent and its page rely on: one announcement, after
  the connection, one client, one end. The first implements the second.
* **Cadence**, **Vnc.** The loop of the process, the WebSocket in its two
  directions, the canvas. A frame carries the zones as they are when it leaves;
  merged boxes, which only send more, are left out. After a change of size the
  server is assumed to redraw every zone, which the code relies on. A server of
  VNC sends rectangles from top to bottom.
* **Surfaces.** Commands of the graphics channel over rows of cells; the readers of
  bits are external.
* **Disque.** Resolution of paths, handles, every request with its refusals, the
  thread and its queue, the user in the folder. A renaming looks at its destination,
  then renames, and the user may act between; a writing that fails may have written a
  part. An opening is one step, at the moment the file is opened.
* **Reception**, **PressePapiers.** Files received in pieces and promoted; offers,
  texts, locks, and the answers the channel refuses, which are dropped. The designation
  of offered paths is left out, and so is the fall-back of `promouvoir` without hard
  links.
* **Magnetoscope.** Writes by one process or several, reading, replay to any PDU,
  the two windows of a capture. A picture is a row of cells, a PDU has one effect,
  and the payload read where a head is expected is refused.

## 3. The runs

A run asks one question. Several components share a run, each in a *scene* of
its own: a behaviour belongs to one scene and the components out of it stay as they
were, so a run is as strong as one run per scene. Runs marked × show one disagreement
between what the code does and what it says.

| Run | Scenes and instance | Shows |
|---|---|---|
| `sessions` | 1 number, 3 openings, 1 reload; 2 numbers, 2 openings | handles alive, a closed opening never registered, tabs truthful, the epoch; calls answered, dropped sessions end |
| `sessions_orpheline` × | the second scene | a tab closed while the keyring is read leaves a session |
| `canal` | 2 sessions, 2 commands, 1 copy; a folder of 2 files; a queue of 2 lines | channels and counts exact; commands, cancellations and lines come to an end |
| `transferts` | download of up to 2 bands, 3 runs, 2 versions; 2 sends to 2 hosts; 2 copies, with a rename that replaces or refuses; 3 files in 4 folders; 3 lines, or 2 and a reload | what is resumed is faithful, what is finished is whole, registers and totals true |
| `tunnels` | 1 definition, 2 starts, 1 stop, 2 passwords, 1 reload | no leak, no tunnel listed dead, stops heard, rows given back |
| `sortie` | 2 sessions, 3 bytes, window and channel of 1, 1 recording | faithful text, window, no lost wake-up, no hole, output always leaves |
| `bureau` | 1 tab, 2 openings, 1 reload; a process of 3 rounds; 2 receptions; 2 copies | no process unknown, everything answered, the process implements `ProcessusBureau` |
| `images` | 2 zones, 3 drawings, 1 change of size, 2 hidings; a VNC server with 3 gestures | nothing drawn lost, pause follows display, the canvas catches up |
| `ssh` | 3 links, 3 refusals; 2 commands; a tunnel of each kind with 2 units each way | secrets where they are meant to go, nothing read is lost, everything ends |
| `relais_echo` × | a destination that answers while it is written to, buffers of 1 | both directions of a relay wait for each other |
| `poste` | a folder of up to 2 names, 4 requests; a process of 4 rounds and 2 keys; 2 lists; 2 locks; 3 commands; 2 recording processes; 2 tabs and 2 snippet commands; 4 names of keys and 2 calls | nothing outside the folder, files whole, pins kept, a replay that is the session, the agent lent for a command only, an insertion that executes nothing, a pair made once |
| `gardes` | 2 surfaces, zones with a gap, 5 commands; chains of 2 hosts; edits of a config; commands on 3 files; keyring; overlapping writes; 3 sources to import | surfaces in bounds and up to date, no changed key accepted, stores whole through refusals, stops and power cuts |

**Bounds.** Each constant that bounds a model is named `..._MAX` or `Max...` or
is a set of calls, and its comment says so. They are chosen so that the race the
component is built against happens with an actor to spare: three openings allow one
living, one ending and one arriving; two starts and a stop allow an overlap and its
note; three runs allow a run to be spoiled by one that was itself spoiled. Windows,
queues and channels of one place instead of 4, 64 or 256 make fullness frequent, and
nothing in the code depends on the value. Two bands are enough for every order
between bands, since a band meets the others at the card only. For the components of
section 4 the theorems hold for any value.

**Deadlock** is not checked where the number of calls is bounded: the model stops
when all were made. It is checked on `images`, whose loop always has a tick ahead.

**Fairness.** Only what a scheduler owes is assumed: the runtime runs the steps of
a command it accepted, a connection among them, which DELAI_CONNEXION_SSH bounds;
timers expire; the page reads the answers and events sent to it; the mutex of
tokio serves in order (SF on the taking of the lock and on the arms of an unbiased
select); the tick of a desktop's loop goes on; a server answers the messages the
protocol makes it answer. Nothing is assumed of the user, of a server beyond that, or
of a page's acknowledgements in `Sortie`. A direct copy ends, as its command
ends or its session is lost. What must end is checked on smaller instances than
what must not happen, in runs of their own.

### Where code and intention part

PROJECT.json lists each with its lines ("findings"). The properties of the passing
runs are stated around them: a finding names either the property that says what was
intended, which TLC finds violated, or the one whose words except what the code does.
The main ones:

* **Sessions**: a tab closed while the keyring is read leaves a session (run ×);
  the test and the note of `pty_close` are two acquisitions; a late answer shows live a
  tab that is connecting again. **Tunnels**: two
  starts share one note of stop. **Bureau**: after a reload, an opening of the
  former page may kill the process of the new one.
* **CanalSftp**: a channel of a former session may be filed under the next.
  **Telechargement**: a card that outlives its `.part` promotes a hole.
  **Envoi**: the map carries a path and no host; a send broken before its first
  checkpoint is refused afterwards. **Relais**: two copies of one name share a
  partial. **Transferts**: after a reload a cancellation stops the former transfer
  of its number; two downloads of one name take the same one.
* **ConnexionBureau**: a server that refuses a password by closing is tried again
  with it. **Disque**: a deferred removal follows a path, not its file; a
  renaming buries what the user puts at its destination after the look.
  **Reception**: a short answer ends a file whose later pieces are written.
  **PressePapiers**: a second offer drops the receipt of the first, and an answer
  the channel refuses is dropped, which leaves the remote waiting.
  **Surfaces**: zones over the budget, or before an error, stay behind; the box
  of many zones covers what another surface shows between them.
  **Magnetoscope**: a recording over its ceiling has a hole, two desktops write one
  file, and a change of size is not replayed as it was shown.
* **Confiance**: for a jump host the page forgets the key of another host; two
  first contacts record two keys. **Etablissement**: one refused password closes
  the tab, a jump host's password is asked for and given to nobody, an unused
  password is kept in the keyring. **Commande**: a relay to the agent may outlive
  its command; a cut command is a success. **Acheminement**: the echo (run ×).
* **ConfigSsh**: a comment of the next host is taken into a block; port 22 is not
  written. **Ecriture**: a link that leads nowhere is replaced by the file.
  **Dossiers**: a desktop saved meanwhile disappears; a folder renamed into itself goes
  too far when the request is repeated. **Secrets**: an edit may replace the password
  of another desktop; when the configuration cannot be read again, a twin's password is
  forgotten, or an edit says it is done and its password stayed behind. **Import**: a
  second press imports twice, capitals are refused, one key for two hosts, and known
  desktops are offered ticked when `rdp.yaml` cannot be read.
* **Snippets**: a full channel holds a sending, an insertion may execute, two saves
  undo one another, page and core differ on what a variable is. **Cles**: a key named
  `a.pub` is overwritten, a cut public line is listed, a line is glued or written twice.

Smaller points the models contain: after a reload one annulment serves two
openings of a number, and a tab may show the diagnostic of the previous process;
an acknowledgement names a number, so one of the former session opens the window
of the next (`indu`); what is output between the screen the page serialises and
the filling of the recorder's slot is missing from a recording; moving a canvas to the
other pane empties it (`deplace`).

## 4. What is proved

The proofs hold for every value of the constants that satisfies the named
assumption of the module, and for `Spec`, without fairness. The assumptions say that
sets of different things are disjoint, that bounds are naturals and that there is at
least one of what the component serves. Sets need not be finite, except where a
cardinality is taken (`CanalSftpPreuves`: the copies). No theorem rests on an
instance of TLC.

| Module | Theorem | Inductive invariant, and why it is needed |
|---|---|---|
| `SessionsPreuves` | HandleToujoursVivant, RetraitToujoursLegitime | `Socle` = types, `VerrouTenu`, `HandleVivant`. Without `VerrouTenu` (whoever stands in a section of `inner` holds its lock) two registrations interleave |
| | FermetureRespectee, OngletToujoursVrai | until a reload (`recharges = 0`, part of the statement): `SansRecharge` (tabs belong to their openings, one opening per number in flight, its annulment kept until read) and `OngletsTenus` (what a tab shows follows its opening). With a reload both are false, and a number is given twice. The late answer of a former opening is in the statement: the page cannot tell it |
| `CanalSftpPreuves` | CanalToujoursTenu, EmplacementStable | `Placees`: a call is named only in the slot of the session whose channel it opened, and in one. The count of copies is the cardinality of a set that gains or loses an element |
| `TunnelsPreuves` | TypeCorrect, AucuneFuite, MagasinToujoursVrai, ArretToujoursVu, JetonToujoursTenu | counting owners is not inductive; `PartageInv` is: a start has no tunnel before its listener is open (`Vierge`), whoever has a tunnel has an open one and has it alone (`Possession`), every open tunnel is had by somebody (`Tenu`). `NoteGardee`: a start noted alone in flight keeps its note until it lands |
| `SortiePreuves` | PushSuitLecture | for every stream and every cutting, `Push` goes on as one reading does: induction on the stream, on a set whose complement would have a least element |
| | TypesDeLaSortie, FluxToujoursTenu | `Flux`: message numbers are in order from the relay to the acknowledgements, an Accuse acknowledged only by its own session never runs ahead of the page, a relay reads only while its window is open |
| | EnregistrementToujoursContinu | `Enregistre`: a recorder neither holds nor has flushed more than the session decoded |
| | TexteToujoursFidele | `Fidele`: a beginning of the server's bytes was decoded, the rest is in the channel or in the pump |
| `TelechargementPreuves` | TypesDuTelechargement, RepriseToujoursFidele, BandesToujoursGardees | `IInv` follows the bytes from a write through the sync and the note to the card and to the promotion. `Terminer` compares a *count* with the size: bands partition the file (`BandesTotal`, `BandesCouvrent`), none receives more than its length, so a right count means that each is complete (`CompteRond`) |
| `BureauPreuves` | TypesDuBureau, BureauToujoursTenu | `UneFois`: the command that opens stands at most once in the queue and only while its opening has not begun, so a process comes alive in one place, which kills the one it replaces; `Liee` ties a tab, its opening and its child |
| `BureauPreuves`, of `Vnc` | VncToujoursTenu | `CompteTenu`: a request is with the server or its end on the way, never both. `CollesSuivent`, `BoutonsSuivent`: the messages not yet read, applied in order to what the loop holds, give what the user holds; a paste on the way finds the sharing and the text of its moment (`EnVigueur`) |
| `ConnexionPreuves` | TypesDeLaConnexion, IdentifiantsToujoursTenus, DirectToujoursVrai | `Guichet`: no client before the announcement, a client from the first session on; `Epinglee`: a key reaches the authentication found or appended, and others only append |
| | ImplementeSurete | the refinement: the initial states of the connection are initial for `ProcessusBureau`, every step is a step or a stutter of it. Its promise of progress is checked by TLC (`ImplementeProcessus`) |
| `DisquePreuves` | TypesDuDisque, DossierToujoursTenu, FichierJamaisPerdu | `Forme`: what is in the shared folder is in a folder of it (`EstArbre`). Without it a renaming onto a free path could bury what is under that path, and the root could be replaced as an empty folder. A renaming moves a subtree: that it keeps the shape (`DeplaceForme`) and loses nothing but what it falls upon (`DeplaceGarde`) are facts about prefixes of paths. `ListeTenue`: a listing under way has given as many entries of its snapshot as its place says |
| | RefusToujoursSansEffet | nothing beyond what a handle is: it is a fact of each request. A block whose writing failed may have changed the file it is written to, and nothing else |
| `ConnexionPreuves`, of `Cadence` | EcranToujoursTenu | `ZonesSuivies`: on a displayed tab each zone is dirty, owed, about to be asked for again, or follows (`Suit`: the last frame under way that carries it, else the canvas, is the image). `DitVrai`: what the tab said last of its display, in the queue or applied, is what it is |
| | SilenceToujours | the same: a paused process moves frames, and makes none |
| `SessionsPreuves`, of `Confiance` | ConfianceToujoursTenue, OubliToujoursExact, ClesToujoursGardees | `Tenue`, by stage of a link: what it read of known_hosts is, until a forgetting, what was there at its first look plus what other links learnt since (`apprises`). `OubliVise`: the line numbers the page read still name the lines of the host, as other links only append |
| `TelechargementPreuves`, of `Etablissement` | MdpToujoursTenu | `LienTenu` (each link before the current one is authenticated, by a key known or accepted), `PageTenue` (the page is where its call is) |
| | RelaisToujoursTenu, DestinationToujoursConnue, of `Acheminement` | `Acheminee`: per connection and direction, what was read = what is held + what was written. `Comptes`: the counters are sums over the connections, and a step of one of them changes one term (`SommeChange`). `Connue`: a client let through has a request answered or on its way |
| | SshToujoursTenu | the two, in every behaviour of the run's scenes |
| `TelechargementPreuves`, of `Surfaces` | SurfacesToujoursTenues | `EcranAttendu`: the image *to come*, the pieces that wait laid in order over the image at its new size, shows what was written: the last piece that covers a cell gives its colour (`MontreDans`). `EcritDedans`: cells written lie in the surface. `Accords`: a tile the server counts on is kept with the same sum, tile after tile along a stream. The accounts are sums of which a command changes one term |

Three of these proofs changed their module. The first statement of a key accepted in
`Confiance` left out that a host without a key may be met by two tabs at once: a third
may then accept the key the second learnt, which is what `verifier_cle` does, and the
history `apprises` says so. In `Etablissement` two arms of `Retomber` overlapped.
In `Surfaces`, a step about the cells of *other* surfaces did not hold: beyond
`RECTS_MAX` zones `publier` publishes their box, and the box also carries cells that
no command wrote, over a surface mapped at the same place. What a surface shows is
therefore lost where the box falls (`NoterEcrit`), and the list of two zones with a gap
of `MCGardes` makes the former statement fail in a behaviour of seven states.

Each step that the invariant finds hard has its lemma; the preservation theorem has
one case per action. In `SortiePreuves` and `TelechargementPreuves` a step is first
described pointwise (`LireEffet`, `EcheanceEffet`, ...), and the description used by
every invariant. The folds of `Surfaces` (publishing, laying, painting, a stream of
tiles) are unfolded once, along the sequence, from the equation `FoldLeft` solves.
Sums are those of `MapThenSumSet`; inductions over the naturals and over finite sets
are made on the set where the claim holds (`PlusPetit`, `Montee`, `ParElements`), which
needs no theorem with an operator for parameter.

### Only model-checked

* **Liveness** (SessionsVives, PanneauVif, LigneRendue, SortieRendue, BureauVif,
  BureauAJour, SshVif, the progress of ImplementeProcessus): fairness and ENABLED
  are out of the prover's reach.
* The invariants of the components without a module of proofs: TransfertsVrais,
  ServicesFideles, MagasinsTenus, and the action properties CopiesFideles,
  ConfigTenue. TLC shows them on the instances of section 3. Several gather components that share a
  run, so that no single module could state them.
* PosteGarde and RestesGardes as wholes: of the first, the parts about the shared folder
  are theorems (RefusToujoursSansEffet, FichierJamaisPerdu), of the second those about
  known_hosts (OubliToujoursExact, ClesToujoursGardees).
* ImplementeProcessus as a whole: its safety half is the theorem above.

## 5. Plan

The modules of section 2 are written. What is left:

1. **Proofs**: `Ecriture` (a file is old or new), `Reception` (RienEcrase).
2. **Models**: the two threads of a serial port, the file of certificates of
   desktops, the negotiation of SOCKS5, the restoration of tabs.
