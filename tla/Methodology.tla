---------------------------- MODULE Methodology ----------------------------
(***************************************************************************)
(* Methodology of packages/methodology: sync() installs the rules and the  *)
(* skill of the package into a project, check() lists what is not current. *)
(* A project is edited by hand, the package is upgraded, and a sync() may  *)
(* be stopped by an error of the file system after any of its writes.      *)
(*                                                                         *)
(* AGENTS.md is a sequence of tokens: the two marks of the managed block,  *)
(* the rules of a version of the package, and text of the project.         *)
(***************************************************************************)
EXTENDS Integers, Sequences, SequencesExt

CONSTANTS
    MaxTokens,          \* tokens of an AGENTS.md to begin with (bound)
    MaxUpgrades         \* upgrades of the package (bound)

ASSUME MethodologyAssumption == MaxTokens \in Nat /\ MaxUpgrades \in 0 .. 1

VARIABLES
    project,            \* "none" until there is a project
    version,            \* version of the installed package
    agents,             \* AGENTS.md; a missing file is read as empty
    skill,              \* .agents/skills/flexent: "none", "partial" or a version
    claudeSkill,        \* .claude/skills/flexent: "none", "link", "broken",
                        \*   "partial" or the version that was copied
    claude,             \* CLAUDE.md: "none", "imports" or "other"
    sync,               \* what sync() does next, "idle" outside
    found               \* AGENTS.md when sync() began (history)

methodologyVars ==
    <<project, version, agents, skill, claudeSkill, claude, sync, found>>

Version(n) == IF n = 0 THEN "old" ELSE "new"
rules == Version(version)

(* A link to elsewhere is taken to be broken: existsSync follows it.       *)
MethodologyInit ==
    /\ project = "none" /\ version = 0
    /\ agents = <<>> /\ skill = "none" /\ claudeSkill = "none" /\ claude = "none"
    /\ sync = "idle" /\ found = <<>>

Project ==
    /\ project = "none"
    /\ project' = "there"
    /\ agents' \in SeqOf({"begin", "end", "old", "text"}, MaxTokens)
    /\ skill' \in {"none", "partial", "old"}
    /\ claudeSkill' \in {"none", "link", "broken", "old"}
    /\ claude' \in {"none", "imports", "other"}
    /\ UNCHANGED <<version, sync, found>>

-----------------------------------------------------------------------------
IndexOf(s, t) == SelectInSeq(s, LAMBDA x : x = t)

(* Mutant: the marks may be in any order.                                  *)
HasBlockAnyOrder(s) == IndexOf(s, "begin") > 0 /\ IndexOf(s, "end") > 0

HasBlock(s) == IndexOf(s, "begin") > 0 /\ IndexOf(s, "end") > IndexOf(s, "begin")

(* Mutant: what follows the block is cut.                                  *)
renderAgentsCuts(s) ==
    LET block == <<"begin", rules, "end">>
    IN  IF HasBlock(s) THEN SubSeq(s, 1, IndexOf(s, "begin") - 1) \o block
                       ELSE block \o s

(* The block is refreshed where it is, or put before everything else.      *)
renderAgents(s) ==
    LET block == <<"begin", rules, "end">>
        rest == IF s = <<>> THEN <<"text">> ELSE s
    IN  IF HasBlock(s)
        THEN SubSeq(s, 1, IndexOf(s, "begin") - 1) \o block
                \o SubSeq(s, IndexOf(s, "end") + 1, Len(s))
        ELSE block \o rest

(* listDrift: files that are missing, extra or different.                  *)
skillDrifts == skill # rules

(* existsSync of the skill link.                                           *)
LinkFollowed ==
    claudeSkill \in {"partial", "old", "new"} \/ (claudeSkill = "link" /\ skill # "none")

Issues ==
    {i \in {"skill", "claudeSkill", "agents", "claude"} :
        CASE i = "skill" -> skillDrifts
          [] i = "claudeSkill" -> ~LinkFollowed
          [] i = "agents" -> agents # renderAgents(agents)
          [] i = "claude" -> claude # "imports"}

-----------------------------------------------------------------------------
SyncStarts ==
    /\ project = "there" /\ sync = "idle"
    /\ sync' = "skill" /\ found' = agents
    /\ UNCHANGED <<project, version, agents, skill, claudeSkill, claude>>

(* Mutant: a skill that is there is taken to be current.                   *)
syncSkillOnce ==
    /\ sync = "skill"
    /\ sync' = IF skill # "none" THEN "claudeSkill" ELSE "copy"
    /\ UNCHANGED <<project, version, agents, skill, claudeSkill, claude, found>>

(* Any drift removes the whole tree.                                       *)
syncSkill ==
    /\ sync = "skill"
    /\ IF skillDrifts THEN sync' = "copy" /\ skill' = "none"
                      ELSE sync' = "claudeSkill" /\ UNCHANGED skill
    /\ UNCHANGED <<project, version, agents, claudeSkill, claude, found>>

copyTree ==
    /\ sync = "copy"
    /\ sync' = "claudeSkill" /\ skill' = rules
    /\ UNCHANGED <<project, version, agents, claudeSkill, claude, found>>

(* A link, or a copy where links cannot be made.                           *)
syncClaudeSkill ==
    /\ sync = "claudeSkill"
    /\ sync' = "agents"
    /\ claudeSkill' \in IF claudeSkill = "none" THEN {"link", rules}
                                                ELSE {claudeSkill}
    /\ UNCHANGED <<project, version, agents, skill, claude, found>>

syncAgents ==
    /\ sync = "agents"
    /\ sync' = "claude" /\ agents' = renderAgents(agents)
    /\ UNCHANGED <<project, version, skill, claudeSkill, claude, found>>

syncClaude ==
    /\ sync = "claude"
    /\ sync' = "done"
    /\ claude' = IF claude = "none" THEN "imports" ELSE claude
    /\ UNCHANGED <<project, version, agents, skill, claudeSkill, found>>

(* A write throws; of a tree, some files may have been written or removed. *)
(* A single file is taken to be written or left.                           *)
SyncFails ==
    /\ sync \notin {"idle", "done"}
    /\ sync' = "idle"
    /\ skill' \in CASE sync = "copy" -> {"none", "partial"}
                    [] sync = "skill" /\ skillDrifts /\ skill # "none" ->
                          {skill, "partial"}
                    [] OTHER -> {skill}
    /\ claudeSkill' \in IF sync = "claudeSkill" /\ claudeSkill = "none"
                         THEN {"none", "partial"} ELSE {claudeSkill}
    /\ UNCHANGED <<project, version, agents, claude, found>>

(* The package changes between two uses.                                   *)
Upgrade ==
    /\ sync \in {"idle", "done"} /\ project = "there"
    /\ version < MaxUpgrades
    /\ version' = version + 1 /\ sync' = "idle"
    /\ UNCHANGED <<project, agents, skill, claudeSkill, claude, found>>

SyncAgain ==
    /\ sync = "done"
    /\ sync' = "idle"
    /\ UNCHANGED <<project, version, agents, skill, claudeSkill, claude, found>>

MethodologyNext ==
    \/ Project \/ SyncStarts \/ syncSkill \/ copyTree \/ syncClaudeSkill
    \/ syncAgents \/ syncClaude \/ SyncFails \/ Upgrade \/ SyncAgain

MethodologySpec == MethodologyInit /\ [][MethodologyNext]_methodologyVars

-----------------------------------------------------------------------------
(* What the project wrote: all but the managed block.                      *)
Own(s) ==
    IF HasBlock(s) THEN SubSeq(s, 1, IndexOf(s, "begin") - 1)
                           \o SubSeq(s, IndexOf(s, "end") + 1, Len(s))
                   ELSE s

(* "Everything else in those files belongs to the project and is left      *)
(* alone": whatever AGENTS.md held, whichever earlier sync() was cut       *)
(* short, a sync() that completes leaves the rules of this version before  *)
(* its first end mark, the project's text as it was, nothing for a second  *)
(* sync() to change, and nothing for check() to report but what sync()     *)
(* does not touch: a broken link and a CLAUDE.md of the project.  What     *)
(* neither of them looks into is a skill that was copied for want of a     *)
(* link: it may be stale or partial (NothingStale).                        *)
SyncConverges ==
    sync = "done" =>
        /\ HasBlock(agents)
        /\ agents[IndexOf(agents, "begin") + 1] = rules
        /\ Own(agents) = IF found = <<>> THEN <<"text">> ELSE Own(found)
        /\ agents = renderAgents(agents)
        /\ \A i \in Issues : \/ i = "claudeSkill" /\ claudeSkill = "broken"
                             \/ i = "claude" /\ claude = "other"

(* "Writes everything that is missing or stale" (sync() in Methodology.ts):*)
(* after it the skill that Claude Code reads is of this version, if it was *)
(* copied in place of the link.                                            *)
NothingStale ==
    sync = "done" /\ claudeSkill \in {"partial", "old", "new"} => claudeSkill = rules
=============================================================================
