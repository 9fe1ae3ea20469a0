SPECIFICATION FairSpec
CONSTANTS
  Threads = {t1, t2, t3}
  Variants = {"TAS", "TAS_HLE", "TAS_RTM", "TAS_RTM_OPT", "TAS_GLK", "TAS_GLK_HLE",
              "TAS_GLK_RTM", "TAS_GLK_RTM_OPT", "TAS_MWAIT", "TAS_MWAIT_HLE",
              "TAS_MWAIT_RTM", "TAS_MWAIT_RTM_OPT", "TTAS", "TTAS_HLE", "TTAS_RTM",
              "TTAS_RTM_OPT", "TTAS_GLK", "TTAS_GLK_HLE", "TTAS_GLK_RTM",
              "TTAS_GLK_RTM_OPT", "TTAS_MWAIT", "TTAS_MWAIT_HLE", "TTAS_MWAIT_RTM",
              "TTAS_MWAIT_RTM_OPT", "TICKET", "TICKET_GLK", "TICKET_DVFS", "TICKET_FU",
              "LINUX", "LOCK_PROF", "LADAP_TICK", "CLH", "CLH_GLK"}
  Width = 8
  Nodes = {n1, n2, n3, n4}
  Null = Null
INVARIANTS TypeOK ServedInOrder NodesApart
PROPERTIES EveryCallReturns
