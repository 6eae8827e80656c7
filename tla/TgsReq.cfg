SPECIFICATION Spec
CONSTANTS
  FdLimit = 3
  MaxRollover = 2
  Fault = {"krb5_encrypt_tkt_part", "krb5_sname_to_principal", "krb5_db_get_principal_ext",
    "krb5_dbe_find_enctype", "krb5_db_fetch_mkey_list", "krb5_dbekd_decrypt_key_data",
    "kdc_fast_response_handle_padata", "kdc_fast_handle_reply_key", "return_enc_padata",
    "krb5_encode_kdc_rep", "no_principal", "setsockopt", "connect_timeout", "gcks_dies"}
  NONE = NONE
INVARIANTS
  TypeOK
  ForwardedWhileReachable
  StatusNamesFailure
  ToldThenLateErrors
