----------------------------- MODULE MCBootstrap -----------------------------
(* Bootstrap for TLC: three of the tables, two providers. *)
EXTENDS Bootstrap

MCTables == {"provider_configs", "document_chunks", "eval_jobs"}
MCColumns == {"embedding_json", "attempt_count"}
MCNative == {"embedding_pg", "fts_tsv"}
MCTableOf == [c \in MCColumns |-> IF c = "embedding_json" THEN "document_chunks" ELSE "eval_jobs"]
MCProviders == {"openai", "anthropic"}
MCUpgradable == {"openai"}

Old(ts, cs, rows) == [tables |-> ts, columns |-> cs, configs |-> rows]
Seeding(openai, anthropic) ==
  [x \in MCProviders |-> IF x = "openai" THEN openai ELSE anthropic]
Retired == [model |-> "retired", enabled |-> TRUE]

\* An empty database; tables that lack columns, not seeded yet; the same without
\* one of the tables, seeded with the retired model of a first provider.
MCOldSchemas ==
  { Old({}, {}, Seeding(NoRow, NoRow)),
    Old({"document_chunks", "eval_jobs"}, {}, Seeding(NoRow, NoRow)),
    Old({"provider_configs", "document_chunks"}, {"embedding_json", "embedding_pg"},
          Seeding(Retired, NoRow)) }
=============================================================================
