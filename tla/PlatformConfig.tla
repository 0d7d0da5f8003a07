--------------------------- MODULE PlatformConfig ---------------------------
(***************************************************************************)
(* The configuration of the platform processes                             *)
(* (internal/platform/config/config.go): Load reads the environment, puts  *)
(* defaults for what is not set and refuses what a process could not run   *)
(* with.  An environment gives each variable a text, "" when it is unset;  *)
(* the addresses, which Load takes as they are, are left out.              *)
(***************************************************************************)
EXTENDS Integers

CONSTANTS
    Texts,      \* the values a variable may be set to, and ""
    Number,     \* strconv.Atoi: does it parse, and to what?
    Duration,   \* time.ParseDuration, likewise, in seconds
    Environments

Parsed == [ok : BOOLEAN, value : Int]

EnvNames == {"DATABASE_URL", "REDIS_DB", "WORKER_POLL_INTERVAL",
             "WORKER_JOB_LEASE_DURATION", "WORKER_BATCH_SIZE"}

ASSUME ConfigAssumption ==
    /\ Number \in [Texts -> Parsed]
    /\ Duration \in [Texts -> Parsed]
    /\ Environments \subseteq [EnvNames -> Texts]

\* intEnv, durationEnv
ParsedEnv(env, name, parser, default) ==
    IF env[name] = "" THEN [ok |-> TRUE, value |-> default] ELSE parser[env[name]]

RedisDB(env)       == ParsedEnv(env, "REDIS_DB", Number, 0)
PollInterval(env)  == ParsedEnv(env, "WORKER_POLL_INTERVAL", Duration, 1)
LeaseDuration(env) == ParsedEnv(env, "WORKER_JOB_LEASE_DURATION", Duration, 300)
BatchSize(env)     == ParsedEnv(env, "WORKER_BATCH_SIZE", Number, 4)

\* Load returns no error.
Loads(env) ==
    /\ env["DATABASE_URL"] # ""
    /\ RedisDB(env).ok /\ RedisDB(env).value >= 0
    /\ PollInterval(env).ok /\ PollInterval(env).value > 0
    /\ LeaseDuration(env).ok /\ LeaseDuration(env).value > 0
    /\ BatchSize(env).ok /\ BatchSize(env).value \in 1 .. 100
=============================================================================
