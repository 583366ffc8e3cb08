# A TLA+ model of xtgeoip

xtgeoip downloads the GeoLite2 country database, turns it into the binary
`<CC>.iv4` / `<CC>.iv6` files that the `xt_geoip` kernel module reads, and
keeps archives of both. This directory models its behaviour in TLA+, checks the
models with TLC and proves the central invariants with TLAPS. Paths in this
file are relative to the repository.

## The system

xtgeoip is a command line program: one process runs one plan and ends. There is
no daemon, no lock and no database; all state that outlives a process is in two
directories and a configuration file. What is hard about it follows from that:
every operation is a sequence of file operations, any of which can fail, and
the process can be killed between any two, and the next invocation starts from
whatever is left. Two invocations (cron and an operator) may run at once.

| component | code | state it keeps | operations |
|---|---|---|---|
| output directory | `build.rs`, `backup.rs` | country files, manifests `GeoLite2-Country-bin_<v>.blake3`, the `version` pointer, the `orphaned` list | install (write files, manifest, pointer, sweep), verify, delete |
| database build | `build.rs` | in memory: country index, range tables | parse locations and blocks, fill, sort and merge ranges |
| binary archives | `backup.rs` | `GeoLite2-Country-bin_<v>.tar.gz`, `..._unverified_<v>...`, `.part` | create, prune |
| CSV archives | `fetch.rs`, `backup.rs` | `GeoLite2-Country-CSV_<v>.zip`, `.zip.sha256`, `.zip.<pid>.part` | resolve, reuse or download, verify, rename, extract, prune |
| command line | `cli.rs`, `generated/cli_rules.rs` | none | guards, action |
| plans | `action.rs`, `generated/plan.rs` | none | plan, writability check, step execution |
| configuration | `conf.rs`, `config.rs`, `secrets.rs` | `xtgeoip.conf` | create default, set credentials, load |
| process | `main.rs`, `messages.rs` | log file, exit status | set-up, dispatch, report |
| documentation generator | `bin/xtgeoip-docgen.rs`, `spec.rs` | the generated files: four sources, the cases, the documents, the install manifest | read and check the three texts of `docs/spec`, render, write |
| test runner | `bin/xtgeoip-tests.rs` | a sandbox, a stub of the server, the process of a case | prepare, run each case, rebuild the database, report, clean up |

How they interact: `main` parses the command line, `cli` turns flags into an
action or an error, `plan` turns the action into steps (back up, prune, fetch,
clean) optionally ending in a build, `run_action` first probes every directory
the plan writes and then runs the steps in order, stopping at the first error.
Steps communicate only through the two directories and the temporary directory
a fetch hands to the build.

The guards and the plans are generated: `xtgeoip-docgen` reads
`docs/spec/cli.yaml`, checks it, and writes `generated/*.rs`, from which cargo
builds the program, docgen itself and the test runner; it also writes the cases
that `xtgeoip-tests` then runs, one after the other, against the program.

What makes each part correct:

* output directory: a successful build leaves exactly its database, verifying
  under its release; verification (the precondition of a backup or deletion
  without `-f`) never accepts a mixture of two builds, whatever crashed before;
  the pointer is never left dangling by a build; a verified deletion removes
  only what the manifest vouches for; nothing stale goes unreported.
* CSV archives: an archive in place under its final name is one the server
  published for that release, however many processes fetch; a fetch ends.
* binary archives: an archive in place is complete, whoever failed or was
  killed while making it; pruning keeps the newest releases.
* plans: no step destroys what an earlier step has not secured; a failed run
  leaves what the documentation says it leaves.
* database build: the range tables are exactly the union of the blocks of each
  country, sorted and disjoint; a row's country is that of the text of its
  geoname.
* extraction: what a build reads is all of the archive's files, each from one
  entry, and no archive fills the disk.
* configuration: the file is what the completed operations made of it, one after
  the other; encrypted credentials are in a file only its owner reads, and not
  beside the plaintext they replace.
* process: a failure is told, whether or not there is a logger yet.
* documentation generator: it writes every file from one reading, or none when
  it refuses; the program built from its tables says to each example of the text
  what the text says, and does the steps the text has, in their order.
* test runner: status 0 means that the cases passed against this program and
  that the stub was asked; the cases meet the stub and nothing else; a run that
  ends leaves nothing behind; the cases can be run in the order docgen wrote.

## Modules

| module | what it is |
|---|---|
| `OutputDir` | the output directory: install, verify, delete, with failures and kills |
| `OutputDirProofs` | its invariant and its properties, proved |
| `MCOutputDir` | the instances TLC checks, and two statements of the documentation and the tests that the code does not keep |
| `CsvArchives` | the CSV archives: fetching and pruning by several processes, with a server that publishes meanwhile, failures and kills |
| `ReleaseStore` | what the CSV archives promise to whoever uses them; `CsvArchives` implements it |
| `CsvArchivesProofs` | the invariant, the properties and the refinement, proved |
| `MCCsvArchives` | the instances TLC checks |
| `BinArchives` | the backups: creating and pruning tar archives by several processes, with failures and kills |
| `BinArchivesProofs` | its invariant and its properties, proved |
| `MCBinArchives` | the instances TLC checks, and one statement of a comment that the code does not keep |
| `Plans` | the guards, the actions, the plans and the directories they write, as operators |
| `Pipeline` | one invocation after the other running its plan, composed of `Plans` and of the two directories seen from afar |
| `PipelineProofs` | its invariant and its properties, proved |
| `MCPipeline` | the instances TLC checks, and a statement of the documentation that the code does not keep |
| `Extraction` | an archive scanned and extracted into the temporary directory, and validated |
| `Countries` | the countries loaded and indexed, and the rows of the blocks files looked up |
| `CsvInput` | both composed: a fetch hands the temporary directory to a build |
| `CsvInputProofs` | the invariant and the properties of the extraction, and that a row stands for what its text says, proved |
| `BlockLoad` | a blocks file split into chunks that are read in parallel |
| `RangeMerge` | the ranges of a country merged in place |
| `CountryRanges` | both composed: the rows go to the pools, and each pool is merged |
| `BuildInput` | `CsvInput` and `CountryRanges` composed: a build from its archive to its tables |
| `BuildInputProofs` | the invariant of the whole build, that no row is lost or read twice, that the result is right, and what `CsvInputProofs` shows, of the whole, proved |
| `ConfFile` | the configuration file: created, shown, edited, given credentials and loaded, with failures and kills |
| `Startup` | the process around a command, composed with `ConfFile`: arguments, logger, report, exit status |
| `StartupProofs` | the invariant and the properties of both, proved |
| `CliSpec` | docgen as operators: what the texts of `docs/spec` may say, the tables made of them, and what a program with those tables answers and does |
| `Docgen` | the authors, docgen and cargo at work on one tree, with failures and kills |
| `TestRun` | the test runner, composed with `Docgen`: sandbox, stub, cases, report, clean-up, with failures and kills |
| `SuiteProofs` | the invariant and the properties of both, proved |
| `MCBuildInput`, `MCStartup`, `MCSuite` | the instances TLC checks |

### OutputDir

`data[f]` is what country file `f` holds: a blob, `Absent`, or `Cut` when a
write did not finish (`fs::write` truncates the file it opens). `manifest[v]`
is the manifest of release `v`: a function from files to blobs, that is, its
lines, and whether its last line is incomplete. `version` and `orphaned` are
the two other files; `unowned` are files of the operator. `pc`, `source`,
`todo`, `failed` are the running operation.

| action | code |
|---|---|
| `StartBuild`, `LoadFails` | `build` up to `write_outputs` |
| `WriteCountry`, `WritesDone` | `write_outputs`: the writes run in parallel, so in any order; an error is collected and stops the build after all writes were tried |
| `WriteManifest`, `WriteManifestStops` | `generate_manifest`, first write |
| `WriteVersion`, `WriteVersionStops` | `generate_manifest`, second write |
| `SweepManifest`, `ListOrphans` | `detect_orphans` |
| `StartDelete`, `DeleteRefused` | `delete` and `gather_files` in both modes |
| `Unlink`, `DeleteDone` | `delete_all` |
| `Killed` | the process dies; the country files being written are cut |

A build's input is a `Source`: an archive with or without `-l`. A blob stands
for file content together with its BLAKE3 digest: digests are equal exactly
when blobs are.

### CsvArchives and ReleaseStore

`zip[v]`, `sidecar[v]` and `part[v][p]` are the three kinds of file of release
`v` in the archive directory; the `.part` file has a process's PID in its name.
`release` is what the server answers with now. The other variables are the
locals of the processes, reset when an operation ends; `result` is how the last
one ended, and what it handed to the build.

| action | code |
|---|---|
| `Publish` | the server, between any two requests: another release, an older one, another edition of the same one |
| `StartRemote`, `Retry`, `AnswerArchive` | `fetch` up to the answer, `send_with_retry`, `resolve_version`, `check_download_size` |
| `ReadSidecar`, `HashCached` | the cache: `verify_cached_archive` reads the digest, then the archive |
| `CreatePart`, `CopyBody`, `AnswerSum`, `RenamePart`, `WriteSidecar`, `WriteSidecarStops` | `acquire_remote_archive`, one action per file operation or request |
| `Extract` | `extract_and_validate`: opens whatever is under the final name by then |
| `StartLocal`, `NoLocal` | `find_latest_local_csv_archive` |
| `StartPrune`, `PruneOne`, `PruneDone` | `prune_archives`, `prune_csv_archives` |
| `Fails` | any error: the guard `PartialDownload` removes the `.part` file while armed, and only warns when it cannot |
| `Killed` | the process dies: no guard runs |

A blob is an archive's content and its SHA-256 digest, `Corrupt` a download
that is no edition of any release. A release is a number: the code compares
version tokens as text, which orders dates the same way. The listing of the
directory by a prune or a local fetch is one step. A process starts over after
its operation ends or after a kill: a later process may have the same PID, and
meets its `.part` file.

`ReleaseStore` has the archives and the results only: an edition is stored for
a release, a release is dropped when `Keep` newer ones are stored, and a
release returned is what was stored at that moment. In particular a fetch may
return an edition other than the one it downloaded (another process replaced
it), but never something that is not an edition of the release.

### BinArchives

`archive[n]` and `part[n]` are the file under the name `n` and its `.part`
file, which, unlike that of a download, all processes that back up under `n`
share. What matters of a file is whether it is `Whole`, `Cut` or, after two
processes wrote to it, `Torn`. A process writes through the file it opened:
`fd[p]` says whether that is still the `.part` file, has been renamed into place
by another, or has gone. `name`, `todo` and `pc` are the other locals. `alone`
and `shared` are for the properties: the processes that no other has joined
between their `File::create` and their rename, and the archives put in place by
one that was joined.

| action | code |
|---|---|
| `StartBackup` | `backup` up to `create_tarball` |
| `CreatePart` | `write_tarball`: `File::create`, which truncates a file that is there |
| `Write` | the writes and the flush; until then the file is cut |
| `CreateFails`, `WriteFails` | any error so far: `create_tarball` removes the `.part` file, whoever made it |
| `Rename`, `RenameFails` | `create_tarball`, the rename |
| `StartPrune`, `PruneOne`, `PruneDone` | `prune_archives`, `prune_bin_archives`; a release may have a verified and an unverified archive |
| `Killed` | the process dies and its `.part` file stays |

What the tar holds is taken as given, and the writes of one process are one
step, torn by another's when both have the file open.

### Plans and Pipeline

`Plans` translates the tables: a guard is a record of the flags it requires and
forbids, a plan the set of its steps, and `Rank` the one order in which the
planner emits them in every context. `Ops` are the five `Step`s and the build.

`Pipeline` runs plans over the releases archived (`csv`), the names of the
backups (`bin`) and what the output directory holds (`db`): the release the
version file names, whether the files verify against its manifest, whether
there are any files. `run`, `writable`, `todo`, `outcome`, `fetched`, `before`
and `copy` belong to one invocation and are reset by `Exit`; `before` and
`copy` record, for the properties, what it found and the backup it made.

| action | code |
|---|---|
| `Start`: `Refuse`, `Unwritable`, `Begin` | `normalize_cli_to_action`; `run_action` up to `check_plan_writable` |
| `Backup`, `BackupStops` | `backup`, `gather_files`, `create_tarball` |
| `PruneBin`, `PruneBinStops`, `PruneCsv`, `PruneCsvStops` | the two prunes, oldest release first |
| `FetchRemote`, `FetchLocal`, `FetchStops` | `fetch_step`; the server may answer with any release |
| `Clean`, `CleanStops` | `delete` in both modes |
| `Build`, `BuildStops` | `build` |
| `Exit` | the process ends |

Each step is one action here, and what it can leave behind when it fails or is
killed is one too: the interleavings inside a step are the subject of
`OutputDir`, `CsvArchives` and `BinArchives`. A `...Stops` action leaves any state those
modules reach, seen from afar: a build, say, may have written nothing, some
files, or everything but the sweep, and may even have mended the release that
the version file names with a file both share. Invocations follow one another;
`CsvArchives` and `BinArchives` have them run at once. The probe's verdict on each directory is an
input, and the directories exist.

### BlockLoad, RangeMerge and CountryRanges

`BlockLoad` is `load_blocks`. A file is its length, the offsets at which its
rows end, the newlines inside quotes and what each row says; its bytes do not
matter otherwise. `s`, `per` and `chunks` are the locals of `chunk_bounds`,
`unread` the chunks no worker has taken, `pools` and `skipped` what the workers
have produced so far.

| action | code |
|---|---|
| `ReadSerially` | a file with quotes is one chunk, which begins with the header |
| `NoRows`, `StartSplit`, `SplitOne`, `SplitDone` | `chunk_bounds` |
| `Read` | one worker reads one chunk; the pools are joined in `reduce` |
| `Finish` | all chunks are read |

A worker's reading of its chunk is one step: workers share only the count of
skipped rows. The csv reader's error on a slice in memory, which the code calls
impossible, is left out; so are empty lines, which the reader passes over.

`RangeMerge` is `merge_ranges_in_place` with its two cursors, one action per
way through the loop: `Empty`, `Sort` (which leaves ranges with one start in
any order), `Join`, `OpenRun`, `Truncate`. Addresses are `0 .. Max`, so that the
saturating increment matters at `Max`; a range's start is at most its end,
which the CIDR parsers guarantee (`RowAsWritten`).

`CountryRanges` puts one after the other, as `load_blocks` does. `OpenFile` takes
any file, and when all chunks are read (`PoolsTaken`) nothing of it is left but
the pools; each pool is merged by itself (`par_iter_mut`), so that one stands
for all (`TakePool`). `BlockLoad` names rows and `RangeMerge` ranges; which
ranges the rows of a pool have is any choice of `TakePool`.

### Extraction, Countries, CsvInput and BuildInput

`Extraction` takes an archive, a sequence of entries with a path, to the
temporary directory `out`: what is at each path, and from which entry. `prefix`,
`nested` and `ambiguous` are the locals of the scan, `total` the bytes written.
A name is refused by the scan (`..`, an absolute path, executable bits), has no
path within a directory, or is good; which strings are which is not modelled.
An entry's size is what it turns out to be, not what it declares. A CSV file
has all columns a build reads, only those the validation asks for, or not even
those.

| action | code |
|---|---|
| `Open` | `extract_archive_to_temp_capped` up to the scan, `verify_zip_magic` |
| `ScanEntry`, `ScanRefuses`, `ScanDone` | `scan_zip_entries`: once two first components were seen, only the checks of the raw name are made |
| `SkipEntry`, `ExtractFolder`, `ExtractFile`, `ExtractRefuses`, `ExtractDone` | the loop over the entries |
| `Validate`, `Invalid` | `validate_csv_contents` |
| `Fails` | any error on the way; the temporary directory is dropped, as in every refusal |

`Countries` is `load_countries`, `CountryIndex` and what a row of a blocks file
comes to; what `load_blocks` does with its rows is in `BlockLoad`. A geoname is
a sequence of digits and other characters, an address a number of `Width` bits.
Parsing the text of an address is left out.

| action | code |
|---|---|
| `StartLoad`, `ReadLocation` | `load_countries`; a later row of the same geoname counts |
| `Loaded` | `build` adds the three codes that no file need have |
| `MakeIndex` | `CountryIndex::new` |
| `ReadRow` | `cidr_v4_bytes`, `cidr_v6_bytes` |
| `Resolve`, `RowDone` | `CountryIndex::resolve`; a binary search may find any of several equal keys |
| `LoadStops` | a file that cannot be read |

In `CsvInput` the build starts when the extraction hands on its directory, and
stops at once if a column is missing (`ColumnMissing`). `BuildInput` goes on to
`CountryRanges` when the index is made (`IndexMade`).

### ConfFile and Startup

`ConfFile` has one file, `conf`, with its text, whether its mode is 0600, and
the process that still has it open from its creation. A text is what the program
can make of it: blank, not TOML, TOML that is no configuration, one that lacks
an optional table (`short`), or whole; whether plaintext credentials are in it,
from a version before there were others or typed in; and whose encrypted
credentials and whose words the rest are. `command`, `pc` and `raw` are the
locals of the processes: `raw` is what one has read of the file, or has in the
editor. `meant` and `crossed` are for the properties: the text as the completed
operations have made it, and that a text was written back over a change its
writer had not seen.

| action | code |
|---|---|
| `Enter` | `run_conf` and `check_preconditions`, or `load_config` |
| `Ensure`, `Agree`, `Decline`, `Recheck` | `ensure_system_config_exists`, `prompt_create_config`, `require_existing_system_config` |
| `Create`, `Write`, `Cut` | `create_new_file`: `O_EXCL`, then the write, which may end part way |
| `PrintText` | `conf --default` and `--show` |
| `OpenEditor`, `Save`, `CloseEditor` | the editor reads, writes in place, any number of times, and ends |
| `Probe`, `ReadRaw`, `Unparsed`, `Overwrite`, `LeaveUnchanged`, `Encrypt` | `set_credentials` up to the splice |
| `Persist` | `splice_credentials` and `write_system_config_atomically` |
| `Load`, `Refuse`, `Work` | `load_config`, and a command that goes on with it (`Pipeline` is that command) |
| `Fail`, `Killed` | any error; the process dies |

The write of a new file goes through a descriptor: if the file has been replaced
by a rename it goes nowhere, and if an editor has saved in the meantime it lies
over what was saved. The temporary file of `set_credentials` that a kill leaves
in the directory is not modelled; nothing reads it.

`Startup` is `main` and `run`: `stage` is where a process is, `logger` whether
its logger is installed, `told` what it has written to the terminal and `exit`
its status.

| action | code |
|---|---|
| `HelpOrVersion`, `ParseFails` | `main`, the arguments |
| `Rejected`, `HelpFails` | `normalize_cli_to_action` fails, or there is no command |
| `Dispatch` | `run`: `conf` installs its logger first, everything else loads first |
| `InstallLogger`, `LoggerFails` | `install_logger`, which reports for itself |
| `Runs` | a step of `ConfFile` |
| `Succeeds`, `Fails`, `Funnel` | the end of `run`, and the report of an error in `main` |
| `Ended`, `Dies` | the process is gone, and may be invoked again |

### CliSpec, Docgen and TestRun

A text of `cli.yaml` is a record in `CliSpec`: flags, commands with their guards
and examples, steps with their ranks, and which steps each context selects. A
letter stands for its flag, and a reason for the error key it is the text of.
`Valid` is what the four `validate_...` functions ask of it, `RulesEmit` and
`PlanEmits` what the emitters ask, and `RulesFit`, `PlanFits` and `MessagesFit`
what the compiler asks of what they emit. `Answer` and `Emitted` are what a
program with those tables says and does; the same operators `Guard` and `Fires`
are used as in `Plans`, and `TablesAgree` (in `MCSuite`) says that the committed
text gives the committed tables.

`Docgen` names a text, and a generated file by the reading (the three texts) it
was rendered from, or `Cut`. `dg` is where docgen is and what it has read,
`last` how its last run ended, `found` the files as they were when it started.

| action | code |
|---|---|
| `Edit`, `Restore` | the authors, at any time, and git |
| `Build` | cargo, when the sources of the tree compile together |
| `Start` | docgen, which is built from the same tree |
| `ReadSpec`, `ReadTemplate`, `ReadInstall` | `main`: each text read and checked on its own, so that an edit may come between |
| `Render` | `render_outputs`: all outputs before any is written |
| `Write` | `write_outputs`, one file after the other |
| `StopsBefore`, `StopsAtWrite` | an error that is not docgen's, or a kill; the file being written is as it was or cut |

`TestRun` has the runner (`run`: where it is, its arguments, the next case and
its tally), what it holds (`box`: sandbox, stub, the process of a case, whether
the database stands), who has the port, what a run that ended left, and, for
the properties, whether a case has met with something that is not of its corpus
(`disturbed`).

| action | code |
|---|---|
| `Call`, `Unready`, `Load` | `main` up to the cases: arguments, preconditions, `load_testcases` |
| `ReservePort`, `MakeRoot`, `Seed`, `SeedFails` | `reserve_port`, `create_sandbox` |
| `SpawnStub`, `StubFails`, `StubListens`, `WaitEnds` | `create_stub`, `wait_for_stub` |
| `Skip`, `Spawn`, `SpawnFails`, `CaseEnds`, `CaseFails` | a case and its judgement |
| `TimeUp`, `LateCaseEnds` | `run_with_timeout`: sudo is killed, or cannot be, and the output is read to its end |
| `SpawnRebuild`, `RebuildEnds` | the database built again, whose end is printed only |
| `AllRun`, `Report` | the tally, the requests the stub has served, the exit status |
| `DropStub`, `DropSandbox` | the two `Drop`s, in the order of the variables |
| `Kill`, `Again` | the process dies; another run begins |
| `StubBinds`, `Stranger` | openssl takes the port, or another program does |

What a case does is what the tables of the program say, on a database that is
there or not: the plan runs up to the first backup or clean that finds none, and
the stub has been asked if that is behind a remote fetch. A rebuild is a plan of
the program like another. How the program does it is in the other modules. The
runner begins
on a tree that docgen has finished, with whatever program was built last.

## Runs

| run | question | bounds |
|---|---|---|
| `output_dir_releases` | every property, under builds of two releases, one of them with and without `-l`, and deletions in any sequence with failures and kills | 2 country files, 3 sources of 2 releases, one operator's file, at most `MaxFailed` failing operations per operation |
| `output_dir_safe_to_remove` | documentation: files listed as orphaned are safe to remove | as above, no failures |
| `output_dir_manifest_write` | comment: a failed manifest write leaves pointer and manifest agreeing | as above |
| `csv_archives_shared` | every safety property and the refinement, two processes at once | 2 releases, one with 2 editions, `Keep` 1, no retries (a retry only delays), at most one `.part` file left behind |
| `csv_archives_alone` | every operation ends; a successful fetch leaves an archive its checksum file vouches for | 1 process, 3 releases, `Keep` 2, 3 retries as in the code |
| `pipeline` | every property of a run, under any sequence of invocations with failures and kills | 2 releases, `Keep` 1 |
| `pipeline_untouched` | documentation: a failed `run -c` leaves the database untouched | as above |
| `bin_archives` | backups and prunes by two processes at once | 4 names of 2 releases and none, `Keep` 1, one `.part` file left behind, one archive made by a process that was joined |
| `bin_archives_at_once` | comment: an archive is created atomically | as above |
| `build_input` | extraction, validation, the lookup of countries, the split of a blocks file and the merged table: see below | archives of up to 3 entries, 2 CSV files, a limit of 3 bytes, locations of up to 2 rows, addresses of 2 bits, geonames of up to 3 binary digits and numbers up to 4; files of 5 bytes, 3 chunks, 2 countries; 8 addresses, 4 rows |
| `startup` | what the configuration file comes to under two processes at once, and that failures are told | 2 processes, invoked again and again |
| `suite` | the generated files and the program stay those of accepted texts, and the test runner's verdict and leavings | 18 texts of `cli.yaml`, 2 templates, 2 install manifests, 1 edit; 5 ways to call the runner, 51 cases |

For the output directory two releases are enough for every relation the
properties speak of (the installed release and another one), and a legacy build
for a build that overwrites the manifest in force. The two country files give a
file that only some builds write, with the same content in two of them, and one
whose content differs in each. The sequence of operations is not bounded.

The runs of statements of the documentation and of comments find
counterexamples (two of `output_dir`, one of `pipeline`, one of
`bin_archives`); they are described in PROJECT.json under `findings`. More
differences were met that no run shows, because one look at the code settles
them: `generated/plan.rs:17` says that a failure after the backup leaves a copy
behind, but `-b -p` may prune the backup just made, when the installed release
is older than the archived ones; `fetch.rs:942` says that the CSV files must
have the required columns, but `registered_country_geoname_id` and
`country_name`, which the build requires, are not asked for;
`docs/xtgeoip-usage.md:58` says that `run -c -p` cleans before it fetches
(the planner puts the clean after the fetch), and the manual page says that a
file of the operator is never touched by `build -c -f` (a forced deletion takes
every `*.blake3`, `all_blake3_files`). `main.rs:33` calls a failing logger the
one error that the report in `main` cannot print, but a failing `print_help`
(`main.rs:144`) returns before there is a logger, too, and ends with status 1
and no error message; `FailureIsTold` says so (`HelpFails`).

Of docgen: a step that a context lists twice is accepted and emitted twice, and
a build or a fetch selected by a letter is emitted unconditionally
(`PlanFollowsSpec` leaves those texts out, `NamedOnce`); no shipped text has
either. A text may be accepted whose sources do not compile (more than eight
flags, a backup or clean without its parameter, a command left out), and then
docgen, which is built from them, cannot be rebuilt to correct it before the
committed files are restored (`Restore`). The tables of a `conf` declared with
guards would be ignored by the program. Of the test runner: its header says
(lines 12-13) that the sandbox is removed, but a `create_sandbox` that fails
after it has kept the directory leaves it (`SeedFails`, `NothingLeft`); a
rebuild that fails is printed and not counted; `--case` with an unknown id, or
no case to run, ends with status 0; the time-out does not bound a case, since
the kill of sudo may be refused and the output is read to its end, and a case
that prints more than a pipe holds waits for the time-out.

No liveness is claimed of the output directory: each operation is a loop over a
finite list, and the process may be killed.

For the CSV archives two processes are enough to share every file and every
gap between two steps, and `Keep` + 2 releases give a prune two to remove. The
run that checks `EveryRunEnds` assumes weak fairness of each process's steps
together (`Fairness`): a process that is running goes on running, because the
requests have time-outs and the waits between retries are bounded
(`send_with_retry`, `build_client`). Nothing is assumed of the start of
operations, of kills or of the server. `LeavesVouched` is claimed for one
process at a time: with two, one process's archive can stand beside the other's
digest, which costs the next fetch a download and no more.

For the binary archives two processes share a name, and a third would do
nothing to a file that the second cannot; the four names are a verified and an
unverified archive of one release, one of a newer release and one of an unknown
release. `FewLeft` bounds the `.part` files nobody writes to and the archives in
`shared`, one each; `WholeInPlace` makes no claim of the latter. No fairness is
assumed and no liveness claimed.

For the pipeline two releases and `Keep` 1 make the backup of an older
installed release the one a prune takes, and every combination of flags in
every context is invoked, with each of the two directories writable or not, in
any sequence. No liveness is claimed: a run is a finite list of steps.

For `BlockLoad` five bytes give files with fewer and with more bytes than the
three chunks, rows of different lengths, and a split that falls inside a row, on
its end or past the last one. For `RangeMerge` four rows over eight addresses
give ranges that are nested, equal, adjacent, apart, and ones that end at the
last address (of the single addresses only those at both ends), with a range to join after a range was opened. The blocks file is loaded only
once the countries are indexed, and nothing is left of the archive by then:
which countries there are makes no difference to the split, so the run joins the
two in sequence.

For `CsvInput` three entries give a common directory, none, two, a path that is
a file here and a directory there, a refused entry before and after good ones,
and a limit broken by one entry or by several. With binary digits the geoname
101 is the one number of the right length that does not fit, and would be taken
for 0 if it wrapped; 01 is the other spelling of 1. `BudgetHolds` to
`HandsOnValid` are about the extraction. `RowAsWritten` compares the index
with the resolver the code keeps as an oracle for its tests
(`resolve_country_code`), and a range with the addresses that agree
with the network in their first bits, for every prefix including 0 and `Width`.

For `Startup` two processes give every pair of commands on one file, among them
a creation with a creation or an editor beside it, and an edit or credentials
set between a read and a write of the other. `NothingLost` ends where one has
written back a text that the other had changed since, which the code does not
prevent: `set_credentials` reads before its prompts and replaces the whole file.
An interrupted creation leaves a text that may be blank, broken or, cut before
`[logging]`, a configuration; `meant` is then unknown, as it is until the first
operation when there is no file. Credentials set in a blank file make a file
that is no configuration. No liveness is claimed: the commands wait for an
operator.

For the suite the eighteen texts are the committed one and one slip for every
check docgen or the compiler makes (a missing or moved guard, an unused error, a
step that two windows leave out, a letter no action binds, and so on), with three
that are accepted and give other tables: so the program may be built from one
text, the cases from another, and files of two readings may lie beside each
other after a kill. One edit is enough to be between any two reads, before or
after a build. The five calls of the runner are a whole run with `--rebuild`,
one without it that keeps its sandbox, the refused cases, one case, and a case
there is not. `RebuildKeepsGreen` is about the committed text; the other
properties are about all.

`RunEnds` assumes weak fairness of the runner's own steps together (`RunStep`):
it goes on, and the programs it waits for (a case, a rebuild, sudo) end. Nothing
is assumed of the stub, which may never bind its port, of kills, of the authors
or of another program on the port. A case whose kill was refused is waited for,
so the run's end does depend on the program's.

## Proofs

`OutputDirProofs` proves, for any number of files, releases and sources:

* `Invariance`: `IInv` is inductive. The properties are not inductive alone.
  `BuiltVerifies` needs to know, before the manifest is written, that every
  country file is the build's (`WriteInv`, `WholeInv`), and before the pointer
  moves that the manifest is whole (`VouchInv`); `VerifiedIsOneBuild` needs
  that each manifest on disk, even a cut one, is the front of some build's
  (`LinesInv`); `PointerKept` and `VouchedDelete` need that a deletion has the
  version file still before it or among the failures, and the country files
  before the manifest (`DeleteInv`).
* `TypeCorrect`, `BuildInstalls`, `SweepCompletes`, `NoMixtureVerifies`,
  `PointerIsLast`, `PointerStaysValid`, `DeletesOnlyVouched` from it.

The proofs assume `SourcesAssumption`: file names are ordered, every source
writes at least one file, and the markers `Absent` and `Cut` are distinct from
contents.

`CsvArchivesProofs` proves, for any number of processes, releases and
editions, any `Keep` >= 1 and any `MaxRetries`:

* `Invariance`: `IInv` is inductive. `Published` needs that what a process
  renames is what it hashed (`OwnPart`) and that a digest that agreed with the
  server's is an edition of the release of the first answer, though the server
  has moved on (`WorkInv`: a digest is an edition of that release or of none).
  `NewestKept` needs `KeepInv`: a prune's list was taken earlier, and counted
  checksum files without an archive as releases. It says that everything on a
  list, every such checksum file and every one about to be written belongs to a
  release with `Keep` newer ones in place, and that is kept by any removal of
  such a release (`KeptOnRemoval`).
* `TypeCorrect`, `OnlyPublished`, `PartsAreOwn`, `PartsAreRemoved`,
  `NewestAreKept` from it.
* `ImplementsStore`: `CsvArchives` implements `ReleaseStore`; a rename is a
  `Put`, a removal a `Drop`, an extraction a `Return`.

* `AloneLeavesVouched`: with one process (`OneProcess`), `LeavesVouched`. It is
  claimed, and checked, for one process at a time only: another could put an
  edition in place between a rename and the checksum file. It needs that the
  digest a process holds is that of the file it is of (`VouchInv`): of the
  checksum file while the archive is hashed, of the archive in place while the
  checksum file is written.

The proofs assume `ArchivesAssumption`: releases are numbers and finitely many,
`Keep` is at least 1 (`prune_archives` refuses 0), a corrupt download is no
edition, and the markers are distinct from contents. They do not assume that
two releases have no edition in common.

`EveryRunEnds` (liveness) is model-checked only.

`BinArchivesProofs` proves, for any number of processes and names and any
`Keep` >= 1:

* `Invariance`: `IInv` is inductive. `WholeInPlace` needs that a process nobody
  joined has its `.part` file to itself, so that what it wrote is what it
  renames (`AloneInv`), and that nobody else still writes to an archive in place
  but in the name of a process that was joined (`OpenInv`). `NewestKept` needs
  the list of a prune to stay superseded (`KeepInv`), as for the CSV archives.
* `AloneIsWhole`, `NewestAreKept` from it.

They assume `BackupsAssumption`: names are finitely many, those with a release
have a number for it, `Keep` is at least 1 and the contents are distinct.

`PipelineProofs` proves, for any finite set of releases and any `Keep` >= 1:

* `Invariance`: `IInv` is inductive. The steps still to do are the last of the
  plan (`RunInv`), and each finished step has had its effect (`StepInv`):
  nothing touches the output directory before the clean, the backup is in the
  archive or was pruned with `Keep` newer releases there, the archive is
  fetched. The properties at a clean or a build then follow from the ranks.
* `TypeCorrect`, `BackupFirst`, `FetchFirst`, `InstallsFetched`,
  `PruningRetains`, `ProbeSuffices` from it. `PruningRetains` and the pruning
  half of `BackupFirst` rest on two lemmas about finite sets of releases:
  `AtMostKeepStay` and `SupersededLeavesKeep`.

* `FlagsHaveEffect` (`EveryFlagCounts`): when a plan begins to run, the
  invocation less any one of its flags would be refused or have another `Effect`
  (other steps, or a `-f` or `-l` that no longer acts), and a plan run with `-f`
  has exactly one of the backup and the clean. `RanInv` ties the plan that runs
  to the invocation; the rest is about the tables (`LetPass`, `StepsOfFlags`,
  `ForceHasOne`, `FlagsCount`): what no guard refuses leaves `-p` and `-f` with
  something to act on. The proof needs `Outcome` as the chain of
  early returns that `normalize_cli_to_action` is: as a `CASE` with guards that
  overlap it would have had no one value.

They assume `PipelineAssumption`. `FetchFirst`, `PruningRetains` and
`ProbeSuffices` are consequences of the invariant, which the run checks, and are
not listed there again.

`BuildInputProofs` proves, of `TablesSpec` (a build does nothing else to its
variables):

* `TablesInvariance`: `TablesInv`, the invariants of both parts, is inductive.
* `NoRowLost` (`EveryRowCounts`) and `NoRowTwice` (`ChunksApart`) for files of
  any length and any number of chunks and countries. `LoadInv` says that without
  quotes every chunk begins and ends at the end of a row, that the chunks found
  so far hold exactly the rows between the header and `s`, and that the pools
  hold exactly the rows of the chunks read.
* `Merged` (`ResultIsRuns`) for any `Max` and any number of rows. `MergeInv` says
  that what lies before the write cursor is apart and in order, that what lies
  from the read cursor on is sorted and starts no earlier, and that both
  together cover what the rows cover; the positions between the cursors are
  spent.

and of the whole build, `Spec`:

* `Invariance`: `IInv` is inductive. The build waits for the fetch, and the load
  for the index (`InputInv`); the index is that of the locations read
  (`IndexInv`), and the row looked at is one of the file (`RowInv`).
* `RowsAreAsWritten` (`RowAsWritten`) for any geonames, locations and width of
  address, with the lemmas of `CsvInputProofs`.
* `LoadsAsSpecified`: a build implements `TablesSpec`, so `TablesAreSound`: what
  is proved of the load and the merge holds of it. `InputIsSound`: what it is
  handed is as the extraction promises.

They assume `BlocksAssumption` and `RangesAssumption`: a range starts no later
than it ends.

`CsvInputProofs` proves what a row stands for, which is about recursive functions
on digits and bits. The induction it needs is had without an operator for what
is proved: the library's `WFMin` and the well-founded inclusion of finite sets
give that every set of numbers has a least (`LeastNumber`), hence induction on a
set of numbers (`Induct`) and that a recursively defined function on `0 .. n`
is one (`Recursion`). On that rest:

* `Cidr` computes a quotient: the bits of a number sum up to it (`BitsMake`),
  the first address is the multiple of 2^(Width - prefix) below the address, the
  last the one before the next multiple (`CidrIs`), also for prefix 0, where the
  mask is a case of its own. So the range is the addresses that agree with it in
  their first bits (`CidrCovers`).
* `ParseGeoname` gives two geonames one number only if they are one
  (`ParsedApart`): a text without a leading zero is the one spelling of its
  number (`OneSpelling`), and a number that does not fit is none. With that the
  numeric index finds what a search for the text would find
  (`ResolvesAsWritten`).

It assumes `CountriesAssumption`: codes are numbers in their order, the three
others after those of two letters, and geonames are sequences of integers. And
it proves, for any set of archives and any limit, of the specification
`ExtractionSpec` (`CsvInput` adds only `DirectoryHanded`, which empties it):

* `ExtractionInvariance`: `ExtractionInv` is inductive. `NoneOverwritten` needs that all
  paths begin with the prefix that is stripped (`ScanInv`, then `StripInv`),
  so that what is left of two paths differs if they do (`StrippedApart`);
  `HandsOnValid` needs that each file is the whole of an entry with its path
  (`FilesInv`, `EndInv`, `ValidInv`).
* `WithinBudget`, `PathsStayApart`, `ScanComesFirst`, `HandedOnIsValid` from it.

That assumes `ExtractionAssumption`.

`StartupProofs` proves, for any number of processes:

* `Invariance`: `IInv` is inductive. `NothingLost` needs that whoever works on
  the file has seen that it is there, and that nothing removes it (`HasFile`);
  `SecretsArePrivate` that a text read with credentials in it was in a file of
  mode 0600, which stays so, and had no plaintext of an earlier version
  (`RawIsPrivate`); `FailureIsTold` that a process without a logger has told its
  failure or is still to load the configuration (`StageInv`).
* `NoTextIsLost`, `SecretsStayPrivate`, `NoFailureIsSilent` from it.

It assumes that the markers differ from texts, files and statuses
(`ConfAssumption`, `StatusAssumption`).

`SuiteProofs` proves, for any texts, any edits and any ways to call the runner:

* `Invariance`: `IInv` is inductive. `AllOrNothing` needs that what docgen has
  written so far is of the reading it made, and that it writes nothing before
  all texts are read and all outputs rendered (`DocInv`). `StubIsOurs` and
  `NothingLeft` need what the runner holds at each place (`BoxInv`);
  `GreenIsEarned` that every case behind it has passed or the tally is bad, and
  that a case that was to ask the network has been remembered (`TallyInv`), of a
  corpus that does not change under it (`TreeInv`, `CorpusFixed`).
* `ExamplesHold` (`RulesGiveExamples`) rests on `AcceptedAnswers`: for every text
  that is valid, what docgen tried on each example, guard by guard, is what the
  program's tables and `normalize_cli_to_action` answer.
* `OnlyAllowed`: for every text docgen accepts, an invocation the tables let
  through has allowed flags only.
* `WholeReadings`, `OwnStub`, `CleanEnd`, `GreenEarned` from the invariant.

* `PlansFollow` (`PlanFollowsSpec`) rests on `EmittedFollows`: for every text that
  is valid and that the emitter passes, each arm's plan is the steps of the text
  for its flags, each once, in rank order. A list sorted by rank, or filtered, is
  a finite set of positions in their order, the k-th of which has k - 1 before it
  (`InOrder`); that there is exactly one such for each k is counted
  (`Ordered`: the number of predecessors is injective into the numbers below the
  size, hence onto). That nothing is lost between the two windows around the
  fetch and the build is counted too (`Windows`): the emitter has compared the
  lengths, the members of the windows are distinct, and neither is the fetch or
  the build.
* `StaysGreen` (`RebuildKeepsGreen`), if `CasesStand` holds of the committed
  text: each of its cases by itself, on a database that stands, ends as it is to,
  and marks a rebuild if it leaves no database. TLC evaluates that of the text
  (`ShippedCasesStand` in `MCSuite`); the proof takes it to any run, in any
  interleaving with the stub, kills and strangers (`GreenInv`: a case that is to
  run finds a database, because those before it left one, or had it built again,
  or were skipped).

They assume `DocgenAssumption` (ranks are numbers, lists are lists, maps are
finite: `PlanRead`), `ShippedAssumption` (what is committed has come out of
docgen) and `CallsAssumption`. `RunEnds` (liveness) is model-checked only.

## Plan

In order of importance:

1. `OutputDir` and its proofs (done).
2. `CsvArchives`, `ReleaseStore` and their proofs (done).
3. `Plans` and `Pipeline` and their proofs (done). Left: an abstract
   specification of the database in the output directory, which `OutputDir`
   implements and `Pipeline` uses for its steps.
4. `BinArchives` and its proofs (done). Left: a backup of the output directory
   while a build of another process writes to it.
5. `RangeMerge`, `BlockLoad` and `CountryRanges`, with proofs (done).
6. `Extraction`, `Countries`, `CsvInput` and `BuildInput`, with proofs (done).
7. `ConfFile` and `Startup` and their proofs (done).
8. `CliSpec`, `Docgen` and `TestRun` and their proofs (done).

Every invariant a run checks is proved. What stays with TLC is liveness
(`EveryRunEnds`, `RunEnds`), which rests on `ENABLED`, and what is about the
committed data: that the tables agree with `cli.yaml` (`TablesAgree`) and that
its cases stand by themselves (`ShippedCasesStand`).

## What is not modelled

Cryptographic primitives, archive formats, CSV dialect, HTTP below the level of
a request's outcome, and the wording and layout of messages and of the generated
documents: these are pure input and output, or external crates, and
no property here distinguishes their details. Power loss (as opposed to a
killed process) is not modelled: the program never calls fsync and promises
nothing about it.
A configuration in which somebody has typed `maxmind` as an inline table
(`maxmind = { ... }`) is not among the texts of `ConfFile`:
`splice_credentials` removes plaintext credentials from a standard table only
(`as_table_mut`), which is what the example has and what it says of earlier
versions (`conf.rs:332`), and what `toml_edit` makes of a `credentials` table put into an inline one is not in
this repository. So `SecretsArePrivate` says nothing about such a file.
Nor is a stub that dies after it has printed ACCEPT: the runner does not look at
it again, the cases that need it fail, and its drop is the same. Nor is a
`cli.yaml` without the sections that may be left out (`proof`, `plan`,
`error_cases`, `top_level`); the committed one has them all.
A cut `testcases.yaml` is not read by the runner of `TestRun`, which begins on a
tree docgen has finished. A backup made while another process builds is not
modelled: there is no lock, and nothing in the repository says what it should
give.
