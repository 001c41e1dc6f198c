---------------------------- MODULE Repositories ----------------------------
(* The life of a plugin repository: !repos install, uninstall and update       *)
(* (core_plugins/plugins.py), the repository manager (repo_manager.py), the    *)
(* loading of plugins from the installed paths (plugin_manager.py) and the     *)
(* restart of the process (bootstrap.py).                                      *)
(*                                                                             *)
(* The commands are admin_only: CommandExclusion says why no other command     *)
(* runs beside them. A crash of the process can fall between any two steps.    *)
(* A repository carries one plugin, which has its name here. Only the stored   *)
(* index, the record of installed repositories and the files survive a crash.  *)
EXTENDS Naturals, FiniteSets, TLC

CONSTANTS
    Repos,        \* the repositories an admin may name
    Archives,     \* those published as .tar.gz, unpacked over what is there
    Misnamed,     \* those of them whose top directory is not named after the archive
    NeedsDeps,    \* those whose requirements.txt is not satisfied on this host
    Begins(_, _), \* Begins(q, r): the path of q starts with the text of the path of r
    MaxRepoCrashes,   \* bound on crashes
    MaxReleases   \* bound on the pushes of upstream authors

ASSUME ReposAssumption ==
    /\ Misnamed \subseteq Archives /\ Archives \subseteq Repos /\ NeedsDeps \subseteq Repos
    /\ \A q, r \in Repos : Begins(q, r) \in BOOLEAN
    /\ \A r \in Repos : Begins(r, r)
    /\ MaxRepoCrashes \in Nat /\ MaxReleases \in Nat

VARIABLES
    upstream,  \* the code each author publishes: "good" loads, "bad" does not
    releases,  \* pushes so far
    files,     \* the copy under plugin_dir: "none" when there is no directory,
               \* "partial" for one without plugins that a download that failed left
    astray,    \* the repositories whose code was unpacked beside their directory
    aborted,   \* those whose files a failed download or a crash left without a record
    indexed,   \* REPO_INDEX is in the storage of the manager
    recorded,  \* the keys of INSTALLED_REPOS
    infos,     \* plugin_manager.plugin_infos
    loaded,    \* plugin_manager.plugins
    running,   \* the plugins that are activated
    admin,     \* the command in progress: its step and its repository
    repoCrashes    \* crashes so far

repoVars == <<upstream, releases, files, astray, aborted, indexed, recorded, infos, loaded, running,
              admin, repoCrashes>>
published == <<upstream, releases>>
onDisk    == <<files, astray, aborted, indexed, recorded>>
memory    == <<infos, loaded, running>>

Code == {"good", "bad"}
Idle == [step |-> "idle"]
Down == [step |-> "down"]
AtStep(s, r) == [step |-> s, repo |-> r]
RepoSteps == {"clone", "record", "load", "activate", "forget", "delete"}

RepoTypeOK ==
    /\ upstream \in [Repos -> Code] /\ releases \in 0..MaxReleases
    /\ files \in [Repos -> Code \cup {"none", "partial"}]
    /\ astray \subseteq Misnamed /\ aborted \subseteq Repos
    /\ indexed \in BOOLEAN
    /\ recorded \subseteq Repos
    /\ loaded \subseteq infos /\ infos \subseteq Repos /\ running \subseteq loaded
    /\ admin \in {Idle, Down} \cup [step : RepoSteps, repo : Repos]
    /\ repoCrashes \in 0..MaxRepoCrashes

RepoInit ==
    /\ upstream \in [Repos -> Code] /\ releases = 0
    /\ files = [r \in Repos |-> "none"] /\ astray = {} /\ aborted = {}
    /\ indexed = FALSE /\ recorded = {}
    /\ infos = {} /\ loaded = {} /\ running = {}
    /\ admin = Idle /\ repoCrashes = 0

(* An author pushes other code.                                                *)
Release(r) ==
    /\ releases < MaxReleases
    /\ upstream' = [upstream EXCEPT ![r] = IF @ = "good" THEN "bad" ELSE "good"]
    /\ releases' = releases + 1
    /\ UNCHANGED <<onDisk, memory, admin, repoCrashes>>

-----------------------------------------------------------------------------
(* check_for_index_update and index_update: the index is stored only when every  *)
(* source answered; otherwise the one in the storage, if any, stays.             *)
IndexUpdate == indexed' \in {indexed, TRUE}

(* install_repo up to the download. Without an index in the storage, reading     *)
(* self[REPO_INDEX] raises and the command ends in an error.                     *)
InstallStart(r) ==
    /\ admin = Idle
    /\ IndexUpdate
    /\ admin' = IF indexed' THEN AtStep("clone", r) ELSE Idle
    /\ UNCHANGED <<published, files, astray, aborted, recorded, memory, repoCrashes>>

(* The download. A clone refuses a directory that already holds a repository; as  *)
(* git_clone makes the directory itself, a clone that fails does not remove it.   *)
(* An archive is unpacked over what is there, member by member. What is left      *)
(* halfway may load, and may not.                                                 *)
Halfway(r) ==
    {files[r]} \cup (IF files[r] = "none" THEN {"partial"} ELSE {})
               \cup (IF files[r] = "none" \/ r \in Archives THEN {"bad", upstream[r]} ELSE {})

(* An archive with another top directory is unpacked beside the directory that    *)
(* the record will name.                                                          *)
DownloadFails(r) ==
    IF r \in Misnamed
    THEN astray' \in {astray, astray \cup {r}} /\ UNCHANGED <<files, aborted>>
    ELSE /\ \E left \in Halfway(r) :
               /\ files' = [files EXCEPT ![r] = left]
               /\ aborted' = IF left = files[r] THEN aborted ELSE aborted \cup {r}
         /\ UNCHANGED astray

DownloadSucceeds(r) ==
    /\ files[r] = "none" \/ r \in Archives
    /\ IF r \in Misnamed
       THEN astray' = astray \cup {r} /\ UNCHANGED <<files, aborted>>
       ELSE /\ files' = [files EXCEPT ![r] = upstream[r]]
            /\ aborted' = aborted \ {r}
            /\ UNCHANGED astray

Fetch ==
    /\ admin.step = "clone"
    /\ \/ DownloadSucceeds(admin.repo) /\ admin' = AtStep("record", admin.repo)
       \/ DownloadFails(admin.repo) /\ admin' = Idle
    /\ UNCHANGED <<published, indexed, recorded, memory, repoCrashes>>

(* add_plugin_repo.                                                              *)
Record ==
    /\ admin.step = "record"
    /\ recorded' = recorded \cup {admin.repo}
    /\ admin' = AtStep("load", admin.repo)
    /\ UNCHANGED <<published, files, astray, aborted, indexed, memory, repoCrashes>>

(* find_roots and collect_roots: of the recorded paths, those with plugin files. *)
Places(rec, f) == {r \in rec : f[r] \in Code}

(* _load_plugins_generic over the places: a plugin whose information is known    *)
(* is skipped, even when its code never loaded; the information is kept before   *)
(* the code is loaded. Missing dependencies are reported at every pass.          *)
Fresh(places) == places \ infos
LoadInto(places, f) ==
    /\ infos'  = infos \cup places
    /\ loaded' = loaded \cup {r \in Fresh(places) : f[r] = "good"}
LoadErrors(places, f) ==
    {r \in places : r \in NeedsDeps \/ (r \in Fresh(places) /\ f[r] = "bad")}

(* update_plugin_places with the paths of all the recorded repositories.          *)
UpdatePluginPlaces == LoadInto(Places(recorded, files), files)

(* repos_install after install_repo: the places are loaded again; a directory is *)
(* removed when an error's path begins with its path. An error that finds        *)
(* nothing to remove, the second such one for instance, raises, which ends the   *)
(* command.                                                                      *)
InstallLoad ==
    /\ admin.step = "load"
    /\ LET r       == admin.repo
           errors  == LoadErrors(Places(recorded, files), files)
           remove  == {q \in errors : Begins(q, r)}
       IN  /\ UpdatePluginPlaces
           /\ files' = IF remove = {} THEN files ELSE [files EXCEPT ![r] = "none"]
           /\ admin' = IF Cardinality(remove) > (IF files[r] = "none" THEN 0 ELSE 1)
                       THEN Idle ELSE AtStep("activate", r)
    /\ UNCHANGED <<published, astray, aborted, indexed, recorded, running, repoCrashes>>

(* activate_non_started_plugins: what is known and not loaded is reported.       *)
InstallActivate ==
    /\ admin.step = "activate"
    /\ running' = loaded
    /\ admin' = Idle
    /\ UNCHANGED <<published, onDisk, infos, loaded, repoCrashes>>

-----------------------------------------------------------------------------
(* repos_uninstall.                                                              *)
UninstallStart(r) ==
    /\ admin = Idle
    /\ r \in recorded
    /\ admin' = AtStep("forget", r)
    /\ UNCHANGED <<published, onDisk, memory, repoCrashes>>

\* Mutant: a plugin that is not loaded is passed over and stays known.
ForgetLoaded ==
    /\ admin.step = "forget"
    /\ LET gone == {q \in infos : Begins(q, admin.repo)} \cap loaded
       IN  /\ infos' = infos \ gone
           /\ loaded' = loaded \ gone
           /\ running' = running \ gone
    /\ admin' = AtStep("delete", admin.repo)
    /\ UNCHANGED <<published, onDisk, repoCrashes>>

(* remove_plugins_from_path: every plugin whose location begins with the path of *)
(* the repository. One that is known and not loaded raises KeyError, after those  *)
(* before it in the dictionary were removed.                                      *)
Matching(r) == {q \in infos : Begins(q, r)}
ForgetPlugins ==
    /\ admin.step = "forget"
    /\ LET r == admin.repo
           stuck == Matching(r) \ loaded
       IN  \E gone \in SUBSET (Matching(r) \cap loaded) :
             /\ stuck = {} => gone = Matching(r)
             /\ infos' = infos \ gone
             /\ loaded' = loaded \ gone
             /\ running' = running \ gone
             /\ admin' = IF stuck = {} THEN AtStep("delete", r) ELSE Idle
    /\ UNCHANGED <<published, onDisk, repoCrashes>>

(* uninstall_repo: the files, errors ignored, and the record.                     *)
DeleteRepo ==
    /\ admin.step = "delete"
    /\ files' = [files EXCEPT ![admin.repo] = "none"]
    /\ recorded' = recorded \ {admin.repo}
    /\ aborted' = aborted \ {admin.repo}
    /\ admin' = Idle
    /\ UNCHANGED <<published, astray, indexed, memory, repoCrashes>>

-----------------------------------------------------------------------------
(* update_repos for one recorded repository: a pull succeeds only in a clone that  *)
(* is there; any failure is reported and changes nothing.                         *)
Pulls(r) ==
    {[pulled |-> FALSE, code |-> files[r]]} \cup
    IF files[r] \in Code /\ r \notin Archives
      THEN {[pulled |-> TRUE, code |-> upstream[r]]} ELSE {}

(* One round of repos_update: after a pull, a plugin that runs is reloaded, that is *)
(* deactivated, and activated again when the new code loads. For one that is known  *)
(* and not loaded the lookup raises and the command ends.                           *)
UpdateRepo(r) ==
    /\ admin = Idle
    /\ r \in recorded
    /\ \E p \in Pulls(r) :
         /\ files' = [files EXCEPT ![r] = p.code]
         /\ running' = IF p.pulled /\ p.code = "bad" THEN running \ {r} ELSE running
    /\ UNCHANGED <<published, astray, aborted, indexed, recorded, infos, loaded, admin, repoCrashes>>

-----------------------------------------------------------------------------
(* The process dies: what it holds in memory is gone, and a download stops where  *)
(* it is.                                                                         *)
RepoCrash ==
    /\ admin # Down /\ repoCrashes < MaxRepoCrashes
    /\ repoCrashes' = repoCrashes + 1
    /\ infos' = {} /\ loaded' = {} /\ running' = {}
    /\ admin' = Down
    /\ IF admin.step = "clone" THEN DownloadFails(admin.repo)
       ELSE /\ aborted' = IF admin.step = "record" THEN aborted \cup {admin.repo} ELSE aborted
            /\ UNCHANGED <<files, astray>>
    /\ UNCHANGED <<published, indexed, recorded>>

(* setup_bot and the first connection: the recorded paths are loaded, what loaded *)
(* is activated, errors are only reported.                                        *)
RepoRestart ==
    /\ admin = Down
    /\ UpdatePluginPlaces
    /\ running' = loaded'
    /\ admin' = Idle
    /\ UNCHANGED <<published, onDisk, repoCrashes>>

RepoNext ==
    \/ \E r \in Repos : Release(r) \/ InstallStart(r) \/ UninstallStart(r) \/ UpdateRepo(r)
    \/ Fetch \/ Record \/ InstallLoad \/ InstallActivate
    \/ ForgetPlugins \/ DeleteRepo
    \/ RepoCrash \/ RepoRestart

RepoSpec == RepoInit /\ [][RepoNext]_repoVars

-----------------------------------------------------------------------------
(* A plugin is known, loaded or running only while its repository is recorded,    *)
(* through failed loads, aborted uninstalls, updates and crashes: a restart finds  *)
(* again what runs, and whatever runs can be named to !repos uninstall.            *)
KnownIsRecorded == infos \subseteq recorded

(* Code in the directory of a repository that no record names (no command removes *)
(* it, a clone refuses to install over it) is left only by an installation cut    *)
(* short, by an error of its download or by a crash before it wrote the record:   *)
(* whatever step another command ends at, and once the repository was installed   *)
(* after all and uninstalled, nothing is left there. What an archive with another *)
(* top directory leaves beside it (astray) is in the directory of no repository.  *)
OrphansComeFromCutInstalls ==
    \A r \in Repos :
        (files[r] \in Code /\ r \notin recorded) => admin = AtStep("record", r) \/ r \in aborted

(* The record of the repositories, the plugins in memory and the files agree:      *)
(* nothing runs that no record names, and only an installation that was cut short  *)
(* leaves code that none names.                                                    *)
RepositoriesAreRecorded == KnownIsRecorded /\ OrphansComeFromCutInstalls
=============================================================================
