-------------------------------- MODULE Env --------------------------------
(***************************************************************************)
(* The environment of an application of packages/stack-backend:            *)
(* utils/env.ts and BaseApp.start, which reads up to three files into the  *)
(* process environment and refuses to run tests against another one.       *)
(*                                                                         *)
(* Two keys are modelled: NODE_ENV, which the files may set as well, and   *)
(* one other, "KEY", whose value tells where it comes from.                *)
(***************************************************************************)
EXTENDS Integers, Sequences, SequencesExt

VARIABLES
    env,                \* process.env, of the two keys
    files,              \* the .env files: what each sets, Missing, Unreadable
    testRunner,         \* isLikelyTestRunner()
    app                 \* "none", then what start() came to
envVars == <<env, files, testRunner, app>>

EnvFile == {".env", ".env.dev", ".env.test"}
Key == {"NODE_ENV", "KEY"}
Unset == "unset"
Missing == [k \in {} |-> Unset]
Unreadable == [k \in {"error"} |-> Unset]

EnvInit ==
    /\ env = [k \in Key |-> Unset] /\ files = [f \in EnvFile |-> Missing]
    /\ testRunner = FALSE /\ app = "none"

(* Any file may be missing, or there and not to be read (a directory, no   *)
(* permission), set KEY or not, and set NODE_ENV or not.                   *)
FileOf(f) ==
    {Missing, Unreadable} \cup {[k \in Key |-> IF k = "KEY" THEN v ELSE n] :
                        v \in {Unset, f}, n \in {Unset, "test", "development"}}

Launch ==
    /\ app = "none"
    /\ app' = "launched"
    /\ \E v \in {Unset, "shell"},
          n \in {Unset, "development", "test", "production"} :
          env' = [k \in Key |-> IF k = "KEY" THEN v ELSE n]
    /\ \E b \in FileOf(".env"), d \in FileOf(".env.dev"), t \in FileOf(".env.test") :
          files' = [f \in EnvFile |-> CASE f = ".env" -> b
                                        [] f = ".env.dev" -> d
                                        [] f = ".env.test" -> t]
    /\ testRunner' \in BOOLEAN

-----------------------------------------------------------------------------
getEnvName(e) ==
    IF e["NODE_ENV"] \in {"development", "test"} THEN e["NODE_ENV"]
                                                 ELSE "production"

(* What file f sets key k to: parseEnv has only the keys of the file.      *)
Sets(f, k) == IF k \in DOMAIN files[f] THEN files[f][k] ELSE Unset

loadEnvFile(e, f, override) ==
    [k \in Key |-> IF Sets(f, k) # Unset /\ (override \/ e[k] = Unset)
                   THEN Sets(f, k) ELSE e[k]]

(* The files that configureEnv reads.                                      *)
ReadUnder(name) ==
    CASE name = "development" -> {".env", ".env.dev"}
      [] name = "test" -> {".env", ".env.test", ".env.dev"}
      [] name = "production" -> {".env"}

(* Mutant: .env.test does not override.                                    *)
configureEnvKeeps(e, name) ==
    LET base == loadEnvFile(e, ".env", FALSE)
        test == loadEnvFile(base, ".env.test", FALSE)
    IN  CASE name = "development" -> loadEnvFile(base, ".env.dev", FALSE)
          [] name = "test" -> loadEnvFile(test, ".env.dev", FALSE)
          [] name = "production" -> base

(* A file that cannot be read throws: none is read after it.               *)
configureEnv(e, name) ==
    LET base == loadEnvFile(e, ".env", FALSE)
        test == loadEnvFile(base, ".env.test", TRUE)
    IN  IF name = "production" \/ files[".env"] = Unreadable THEN base
        ELSE IF name = "development" THEN loadEnvFile(base, ".env.dev", FALSE)
        ELSE IF files[".env.test"] = Unreadable THEN test
        ELSE loadEnvFile(test, ".env.dev", FALSE)

(* Mutant: only NODE_ENV is looked at.                                     *)
assertEnvName(e) == testRunner => e["NODE_ENV"] = "test"

assertEnv(e) ==
    testRunner => /\ e["NODE_ENV"] = "test"
                  /\ files[".env.test"] # Unreadable
                  /\ \A k \in Key : Sets(".env.test", k) \in {Unset, e[k]}

(* BaseApp.start: the name is taken before the files are read.  It rejects *)
(* when a file cannot be read or the assertion fails.                      *)
start ==
    /\ app = "launched"
    /\ env' = configureEnv(env, getEnvName(env))
    /\ app' = IF /\ \A f \in ReadUnder(getEnvName(env)) : files[f] # Unreadable
                 /\ assertEnv(env')
              THEN getEnvName(env) ELSE "refused"
    /\ UNCHANGED <<files, testRunner>>

EnvNext == Launch \/ start

EnvSpec == EnvInit /\ [][EnvNext]_envVars

-----------------------------------------------------------------------------
(* The first value of s that is set; Unset when none is.                   *)
FirstSet(s) ==
    IF \A i \in DOMAIN s : s[i] = Unset THEN Unset
    ELSE s[CHOOSE i \in DOMAIN s :
               s[i] # Unset /\ \A j \in 1 .. i - 1 : s[j] = Unset]

(* What an application runs with, from the outside: the value of the first *)
(* of these that sets the key.  `shell` is the value before start().       *)
Effective(name, k, shell) ==
    FirstSet(CASE name = "test" -> <<Sets(".env.test", k), shell,
                                     Sets(".env", k), Sets(".env.dev", k)>>
               [] name = "development" -> <<shell, Sets(".env", k), Sets(".env.dev", k)>>
               [] name = "production" -> <<shell, Sets(".env", k)>>)

(* Every key has the value of the first source that sets it, in the order  *)
(* of the name that the application started under; and code that a test    *)
(* runner started never sees another value than .env.test's, even when     *)
(* NODE_ENV=test comes from .env, too late for .env.test to be read.       *)
EnvPrecedence ==
    [][ /\ app = "launched" /\ app' # "refused" =>
              \A k \in Key : env'[k] = Effective(app', k, env[k])
        /\ app = "launched" /\ app' # "refused" /\ testRunner =>
              \A k \in Key : Sets(".env.test", k) \in {Unset, env'[k]} ]_envVars
=============================================================================
