------------------------------ MODULE MC_Migrate ------------------------------
EXTENDS Migrate

(* 001 (creates the tables, IF NOT EXISTS), 016-settings.sql (CREATE TABLE *)
(* IF NOT EXISTS settings), and the parent_conversation_id migration       *)
(* (ALTER TABLE ... ADD COLUMN, then CREATE INDEX).                         *)
MCFiles == << [stmts |-> <<TRUE>>], [stmts |-> <<TRUE>>], [stmts |-> <<FALSE, FALSE>>] >>
====
